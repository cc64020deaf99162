------------------------------ MODULE ChatTurn ------------------------------
(***************************************************************************)
(* One chat agent over its durable session, src/src/framework/chat-agent.ts:*)
(* the turn engine (runTurn), the tools of a round (executeTool), thread     *)
(* switches, resets, deletions, external messages, the history budget, and   *)
(* a process that may die between any two journal appends and be reopened.   *)
(*                                                                           *)
(* Turns, resets and the other operations take turns (module TurnQueue), so  *)
(* run is the operation in progress.  A synchronous segment of the code is   *)
(* a script: todo are the events it still has to append, then where it goes  *)
(* when they are all appended, onFail where the exception of a failed append *)
(* is caught.                                                                *)
(***************************************************************************)
EXTENDS SessionJournal, FiniteSets
INSTANCE ThreadProjection

CONSTANTS
  Threads, First,    \* conversation threads; the one the session begins in
  Calls,             \* the tool calls the model may ask for, 1..n, in that order
  MaxRounds,         \* maxToolRounds
  MaxMessages,       \* historyBudget.maxMessages
  Budgets            \* bounds of the instance, one of which a behaviour starts with

(* The shapes of messages, of the open turn and step, and of a checkpoint.   *)
Words == {"done", "failed", "unknown", "rejected", "not executed"}
Users == [role : {"user"}, text : Int]
Messages == Users \cup [role : {"assistant"}, calls : Seq(Calls)]
                  \cup [role : {"tool"}, call : Calls, says : Words]
Histories == Seq(Messages)
Turns ==
  [before : Histories, adapterBefore : Histories, nonUser : BOOLEAN, mustRoll : BOOLEAN,
   stepped : BOOLEAN, mayRoll : BOOLEAN, rolled : BOOLEAN]
Steps ==
  [pending : {"nothing", "request", "response"}, expected : Messages \cup {None}, asked : BOOLEAN,
   adapterBefore : Histories, unprojected : BOOLEAN]
Checkpoints == [hist : Histories, adapter : Histories]

ASSUME NoneAssumption ==  \* the code's undefined is no object
  None \notin Messages /\ None \notin Turns /\ None \notin Steps /\ None \notin Checkpoints

ASSUME ChatAssumption ==
  /\ First \in Threads
  /\ MaxRounds \in Nat /\ MaxMessages \in Nat
  /\ Budgets \subseteq [ops : Nat, faults : Nat, crashes : Nat, others : Nat,
                        threads : SUBSET Threads, calls : Seq(Calls)]
  /\ \A b \in Budgets : IsInjective(b.calls)  \* each call is another one

VARIABLES
  disk,    \* the session's journal as the event store holds it
  kernel,  \* the process's SessionKernel, None while the process is down
  run,     \* the operation in progress
  mem,     \* conversation store: thread -> messages, None when absent
  known,   \* this process's snapshots of it
  effect,  \* what the handler of a call really did: no, entered, then its outcome
  left,    \* what the budget still allows
  torn     \* has a crash fallen into terminateTurn?

vars == <<disk, kernel, run, mem, known, effect, left, torn>>

(* Texts are numbers: a turn's differs from every other's.                   *)
OldText == 0
ExternalText == -1
OtherText == -2

Ended(call) == call \in {"recorded", "thrown"}

Idle ==
  [at |-> "idle", todo |-> <<>>, then |-> "idle", onFail |-> "idle", to |-> None,
   started |-> FALSE, rounds |-> 0, before |-> <<>>, adapterBefore |-> <<>>, checkpoint |-> None,
   recovering |-> FALSE, terminal |-> FALSE, answered |-> FALSE, batch |-> <<>>,
   call |-> [c \in Calls |-> "none"], told |-> [c \in Calls |-> "none"]]

Down == [Idle EXCEPT !.at = "down"]

Init ==
  /\ disk = Fresh(First)
  /\ kernel = None
  /\ run = Down
  /\ mem \in [Threads -> {None, <<User(OldText), Answer>>}]
  /\ known = [t \in Threads |-> None]
  /\ effect = [c \in Calls |-> "no"]
  /\ left \in Budgets
  /\ torn = FALSE

-----------------------------------------------------------------------------
(* SessionKernel.append: validate, store, advance.  The store may fail       *)
(* without having written, or after it: then the store is ahead of the       *)
(* kernel and refuses its every later append as out of sequence.             *)

Appended(e) ==
  /\ kernel = disk
  /\ Accepts(kernel, e)
  /\ disk' = Advance(disk, e)
  /\ kernel' = disk'
  /\ UNCHANGED left

AppendFails(e) ==
  /\ UNCHANGED kernel
  /\ \/ /\ kernel # disk \/ ~Accepts(kernel, e)
        /\ UNCHANGED <<disk, left>>
     \/ /\ kernel = disk /\ Accepts(kernel, e)
        /\ left.faults > 0
        /\ left' = [left EXCEPT !.faults = @ - 1]
        /\ disk' \in {disk, Advance(disk, e)}

Script(r, events, then, onFail) ==
  IF events = <<>> THEN [r EXCEPT !.at = then]
  ELSE [r EXCEPT !.at = "script", !.todo = events, !.then = then, !.onFail = onFail]

Rest(r) == [r EXCEPT !.todo = <<>>, !.then = "idle", !.onFail = "idle"]
Goto(at) == run' = [run EXCEPT !.at = at]
Do(events, then, onFail) == run' = Script(run, events, then, onFail)
Others == UNCHANGED <<disk, kernel, mem, known, effect, left>>

ScriptStep ==
  /\ run.at = "script"
  /\ UNCHANGED <<mem, known, effect>>
  /\ \/ Appended(Head(run.todo)) /\ run' = Script(Rest(run), Tail(run.todo), run.then, run.onFail)
     \/ AppendFails(Head(run.todo)) /\ run' = [Rest(run) EXCEPT !.at = run.onFail]

(* Seeded fault: the instance does not remember what it wrote.              *)
ProjectUnseen(t, messages) ==
  /\ mem' = [mem EXCEPT ![t] = Projection(@, known[t], messages)]
  /\ UNCHANGED known

(* ConversationMemory.replaceMessages on the conversation store.            *)
Fits(t, messages) == Agrees(mem[t], known[t], messages)
Project(t, messages) ==
  /\ mem' = [mem EXCEPT ![t] = Projection(@, known[t], messages)]
  /\ known' = [known EXCEPT ![t] = messages]

(* projectConversationHistory swallows the conflict.                        *)
TryProject ==
  IF Fits(kernel.thread, kernel.hist) THEN Project(kernel.thread, kernel.hist)
  ELSE UNCHANGED <<mem, known>>

-----------------------------------------------------------------------------
(* chat(): switch thread, make room, open the turn.                         *)

Begin(at, to) ==
  /\ run.at = "idle" /\ left.ops > 0
  /\ left' = [left EXCEPT !.ops = @ - 1]
  /\ run' = [Idle EXCEPT !.at = at, !.to = to]
  /\ UNCHANGED <<disk, kernel, mem, known, effect>>

Chat(t) == Begin("switch", t)

SwitchThread ==
  /\ run.at = "switch"
  /\ UNCHANGED <<disk, kernel, effect, left>>
  /\ IF run.to = kernel.thread THEN Goto("budget") /\ UNCHANGED <<mem, known>>
     ELSE IF kernel.hist # <<>> /\ ~Fits(kernel.thread, kernel.hist)
     THEN Goto("ended") /\ UNCHANGED <<mem, known>>
     ELSE LET kept == IF kernel.hist = <<>> THEN mem
                      ELSE [mem EXCEPT ![kernel.thread] =
                              Projection(@, known[kernel.thread], kernel.hist)]
              seen == IF kernel.hist = <<>> THEN known
                      ELSE [known EXCEPT ![kernel.thread] = kernel.hist]
          IN /\ mem' = [kept EXCEPT ![run.to] = MessagesOf(@)]
             /\ known' = [seen EXCEPT ![run.to] = MessagesOf(mem[run.to])]
             /\ Do(<<Switched(run.to, MessagesOf(mem[run.to]))>>, "budget", "ended")

(* applyHistoryBudget: the longest run of whole user turns that still fits. *)
TurnStarts(history) == {i \in DOMAIN history : i = 1 \/ history[i].role = "user"}
Retained(history) ==
  LET fits == {i \in TurnStarts(history) : Len(history) - i + 2 <= MaxMessages}
  IN IF fits = {} THEN <<>>
     ELSE SubSeq(history, CHOOSE i \in fits : \A j \in fits : i <= j, Len(history))

ApplyBudget ==
  /\ run.at = "budget" /\ Others
  /\ IF Len(kernel.hist) + 1 <= MaxMessages THEN Goto("open")
     ELSE Do(<<Compacted(Retained(kernel.hist))>>, "open", "ended")

OpenTheTurn ==
  /\ run.at = "open" /\ Others
  /\ run' = Script([run EXCEPT !.before = kernel.hist, !.adapterBefore = kernel.adapter],
                   <<TurnStarted>>, "opened", "catch")

TheUserSays ==
  /\ run.at = "opened" /\ Others
  /\ run' = Script([run EXCEPT !.started = TRUE],
                   <<Message(User(left.ops + 1))>>, "round", "catch")

(* throwIfAborted: the caller may have aborted the signal by now.           *)
Aborted == Goto("catch")
(* A consumer may return() the stream at a yield.                           *)
Closed == Goto("close")

NextRound ==
  /\ run.at = "round"
  /\ Others
  /\ \/ Aborted
     \/ run.rounds = MaxRounds /\ Goto("after")
     \/ /\ run.rounds < MaxRounds
        /\ run' = Script([run EXCEPT !.rounds = @ + 1], <<StepStarted>>, "request", "catch")

PrepareRequest ==
  /\ run.at = "request" /\ Others
  /\ IF Len(kernel.hist) > MaxMessages THEN Goto("catch")
     ELSE Do(<<Request(kernel.hist)>>, "model", "catch")

(* The provider answers, throws or is aborted.  A continuation covers the   *)
(* history of the request and the answer.                                   *)
Batches ==
  {SubSeq(left.calls, 1, n) : n \in 1..Len(left.calls)}

Respond(m) ==
  \E state \in {kernel.adapter, kernel.hist \o (IF m = None THEN <<>> ELSE <<m>>)} :
    LET update == IF state = kernel.adapter THEN <<>> ELSE <<Adapter(state)>> IN
    run' = Script([run EXCEPT !.batch = IF m = None THEN <<>> ELSE m.calls,
                              !.answered = (m = Answer)],
                  <<Response(m)>> \o update, "response", "catch")

ModelAnswers ==
  /\ run.at = "model"
  /\ UNCHANGED <<disk, kernel, mem, known, effect>>
  /\ \/ Goto("catch") /\ UNCHANGED left
     \/ (\E m \in {Answer, None} : Respond(m)) /\ UNCHANGED left
     \/ \E b \in Batches : /\ Respond(Asks(b))
                           /\ left' = [left EXCEPT !.calls = SubSeq(@, Len(b) + 1, Len(@))]

ReadResponse ==
  /\ run.at = "response"
  /\ Others
  /\ \/ Aborted
     \/ run.batch # <<>> /\ (Closed \/ Do(<<Message(Asks(run.batch))>>, "dispatch", "catch"))
     \/ run.answered /\ Do(<<Message(Answer)>>, "spoken", "catch")
     \/ /\ run.batch = <<>> /\ ~run.answered
        /\ Do(<<Adapter(kernel.step.adapterBefore), StepCompleted("completed")>>, "after", "catch")

Spoken ==
  /\ run.at = "spoken"
  /\ Others
  /\ Closed \/ Aborted \/ Do(<<StepCompleted("completed")>>, "after", "catch")

-----------------------------------------------------------------------------
(* A round's tools.  executeTool appends tool/call in call order before any *)
(* of them awaits; then the executor runs them side by side.                *)

Dispatch ==
  /\ run.at = "dispatch" /\ Others
  /\ run' = [run EXCEPT !.at = "batch", !.recovering = TRUE,
                        !.call = [c \in Calls |-> IF c \in Range(run.batch) THEN "asked" ELSE @[c]]]

Call(c, from) == run.at = "batch" /\ run.call[c] = from
Becomes(c, state, told) == run' = [run EXCEPT !.call[c] = state, !.told[c] = told]
CallAppend(c, e, ok, told, bad) ==
  /\ UNCHANGED <<mem, known, effect>>
  /\ \/ Appended(e) /\ Becomes(c, ok, told)
     \/ AppendFails(e) /\ Becomes(c, bad, run.told[c])

Ask(c) ==
  /\ Call(c, "asked") /\ \A d \in Range(run.batch) : d < c => run.call[d] # "asked"
  /\ CallAppend(c, ToolCall(c), "called", run.told[c], "thrown")

AllAsked == \A d \in Range(run.batch) : run.call[d] # "asked"

(* Seeded fault: the handler is entered before the intent is on record.     *)
IntendLater(c) ==
  /\ Call(c, "called") /\ AllAsked
  /\ Becomes(c, "started", "unknown") /\ Others

(* The executor's dispatch intent; when it cannot be stored the call is     *)
(* rejected.                                                                *)
Intend(c) ==
  /\ Call(c, "called") /\ AllAsked
  /\ CallAppend(c, ToolStarted(c), "started", "unknown", "refused")

(* Refused before dispatch, or stopped between the intent and the handler.  *)
Refuse(c) ==
  /\ run.at = "batch" /\ run.call[c] \in {"called", "started"} /\ AllAsked
  /\ Becomes(c, "refused", run.told[c]) /\ Others

(* The pipeline breaks before any intent: nothing is recorded.              *)
Break(c) ==
  /\ Call(c, "called") /\ AllAsked
  /\ Becomes(c, "thrown", run.told[c]) /\ Others

RecordRefusal(c) ==
  /\ Call(c, "refused") /\ AllAsked
  /\ CallAppend(c, ToolResult(c, "rejected"), "recorded", "none", "thrown")

Enter(c) ==
  /\ Call(c, "started") /\ AllAsked
  /\ Becomes(c, "running", run.told[c])
  /\ effect' = [effect EXCEPT ![c] = "entered"]
  /\ UNCHANGED <<disk, kernel, mem, known, left>>

Settle(c, outcome) ==
  /\ Call(c, "running")
  /\ Becomes(c, "settled", run.told[c])
  /\ effect' = [effect EXCEPT ![c] = outcome]
  /\ UNCHANGED <<disk, kernel, mem, known, left>>

(* The outcome, or recordUncertainToolResult when the pipeline broke after  *)
(* the intent.                                                              *)
RecordResult(c) ==
  /\ Call(c, "settled")
  /\ \E says \in {effect[c], "unknown"} :
       CallAppend(c, ToolResult(c, says), "recorded", says, "thrown")

BatchSettled ==
  /\ run.at = "batch" /\ Others
  /\ \A c \in Range(run.batch) : Ended(run.call[c])
  /\ IF \E c \in Range(run.batch) : run.call[c] = "thrown" THEN Goto("catch")
     ELSE Do([i \in DOMAIN run.batch |->
                Message(Receipt(run.batch[i], Says(kernel, run.batch[i])))], "answer", "catch")

(* Every call of the round is answered in the history: from here on a       *)
(* failure keeps the round.                                                 *)
Checkpoint ==
  /\ run.at = "answer" /\ Others
  /\ run' = [run EXCEPT !.at = "answered", !.recovering = FALSE,
                        !.checkpoint = [hist |-> kernel.hist, adapter |-> kernel.adapter]]

RoundDone ==
  /\ run.at = "answered"
  /\ Others
  /\ \/ Closed \/ Aborted
     \/ /\ \A c \in Range(run.batch) : run.told[c] # "unknown"
        /\ Do(<<StepCompleted("completed")>>, "round", "catch")

-----------------------------------------------------------------------------
(* After the last round.                                                    *)

Conclude ==
  /\ run.at = "after"
  /\ Others
  /\ \/ ~run.answered /\ (Closed \/ Aborted)
     \/ IF run.answered \/ run.checkpoint # None THEN Goto("complete")
        ELSE Do(<<Replaced(run.before, "turn_without_assistant_rolled_back"),
                  Adapter(run.adapterBefore)>>, "complete", "catch")

Complete ==
  /\ run.at = "complete"
  /\ Others
  /\ Aborted \/ Do(<<TurnEnded("completed")>>, "committed", "catch")

Committed ==
  /\ run.at = "committed"
  /\ run' = [run EXCEPT !.at = "done", !.terminal = TRUE]
  /\ IF run.answered \/ run.checkpoint # None THEN TryProject ELSE UNCHANGED <<mem, known>>
  /\ UNCHANGED <<disk, kernel, effect, left>>

(* Seeded fault: the step is left open.                                     *)
TerminateInStep(outcome) ==
  <<Replaced(run.before, "turn_failed"), Adapter(run.adapterBefore), TurnEnded(outcome)>>

(* Seeded fault: the continuation is left where the turn brought it.        *)
TerminateContinued(outcome) ==
  (IF kernel.step = None THEN <<>> ELSE <<StepCompleted(outcome)>>)
  \o (IF run.checkpoint = None
      THEN <<Replaced(run.before, "turn_failed")>>
      ELSE <<Replaced(run.checkpoint.hist, "turn_failed_partial_effects")>>)
  \o <<TurnEnded(outcome)>>

(* Seeded fault: a failed turn is rolled back whatever its tools have done. *)
TerminateWhole(outcome) ==
  (IF kernel.step = None THEN <<>> ELSE <<StepCompleted(outcome)>>)
  \o <<Replaced(run.before, "turn_failed"), Adapter(run.adapterBefore), TurnEnded(outcome)>>

(* terminateTurn.  activeStepId is set exactly while the kernel has a step. *)
Terminate(outcome) ==
  LET kept == IF run.checkpoint = None
              THEN [hist |-> run.before, adapter |-> run.adapterBefore] ELSE run.checkpoint
      reason == IF run.checkpoint = None THEN "turn_failed" ELSE "turn_failed_partial_effects"
  IN (IF kernel.step = None THEN <<>> ELSE <<StepCompleted(outcome)>>)
     \o <<Replaced(kept.hist, reason), Adapter(kept.adapter), TurnEnded(outcome)>>

Unfinished == run.started /\ ~run.terminal /\ ~run.recovering

(* Seeded fault: calls whose result was lost go without a receipt.          *)
CatchSilently ==
  /\ run.at = "catch" /\ Others
  /\ IF run.recovering
     THEN run' = Script([run EXCEPT !.told = [c \in Calls |->
                           IF run.call[c] = "recorded" THEN @[c] ELSE "none"]],
                        RecoveryPlan(kernel), "mended", "told")
     ELSE IF Unfinished THEN Do(Terminate("failed"), "terminated", "finally")
     ELSE Goto("told")

(* The catch block: mend an interrupted batch, or terminate the turn.       *)
Catch ==
  /\ run.at = "catch" /\ Others
  /\ IF run.recovering
     THEN run' = Script([run EXCEPT !.told = [c \in Calls |->
                           IF @[c] = "none" \/ run.call[c] = "recorded" THEN @[c] ELSE "unknown"]],
                        RecoveryPlan(kernel), "mended", "told")
     ELSE IF Unfinished THEN Do(Terminate("failed"), "terminated", "finally")
     ELSE Goto("told")

Mended ==
  /\ run.at = "mended"
  /\ run' = [run EXCEPT !.at = "told", !.recovering = FALSE, !.terminal = TRUE]
  /\ IF \E c \in Calls : run.told[c] # "none" THEN TryProject ELSE UNCHANGED <<mem, known>>
  /\ UNCHANGED <<disk, kernel, effect, left>>

Terminated ==
  /\ run.at = "terminated"
  /\ run' = [run EXCEPT !.at = "told", !.terminal = TRUE]
  /\ IF run.checkpoint # None THEN TryProject ELSE UNCHANGED <<mem, known>>
  /\ UNCHANGED <<disk, kernel, effect, left>>

(* The finally block tries once more what the catch block could not do.     *)
Finally ==
  /\ run.at = "finally" /\ Others
  /\ Do(Terminate("failed"), "terminated", "told")

(* return(): only the finally blocks run.                                   *)
Close ==
  /\ run.at = "close" /\ Others
  /\ Do(Terminate("interrupted"), "terminated", "ended")

(* "done": the result reaches the caller; "told": a RunExecutionError does,  *)
(* with its receipts; then the turn is released.                             *)
Return ==
  /\ run.at \in {"done", "told", "ended"} /\ Others
  /\ run' = Idle

-----------------------------------------------------------------------------
(* resetNow, deleteThreadNow, ingestExternalMessage, destroy.  The store is *)
(* cleared before the journal, so that a crash between them loses nothing.  *)

ResetTo(t) == Begin("keep", t)
KeepThread ==
  /\ run.at = "keep"
  /\ UNCHANGED <<disk, kernel, effect, left>>
  /\ IF run.to = kernel.thread \/ kernel.hist = <<>> THEN Goto("clear") /\ UNCHANGED <<mem, known>>
     ELSE IF Fits(kernel.thread, kernel.hist)
     THEN Project(kernel.thread, kernel.hist) /\ Goto("clear")
     ELSE Goto("ended") /\ UNCHANGED <<mem, known>>
ClearThread ==
  /\ run.at = "clear"
  /\ UNCHANGED <<disk, kernel, effect, left>>
  /\ IF Fits(run.to, <<>>) THEN Project(run.to, <<>>) /\ Do(<<Reset(run.to)>>, "ended", "ended")
     ELSE Goto("ended") /\ UNCHANGED <<mem, known>>

Delete(t) == Begin("delete", t)
DeleteThread ==
  /\ run.at = "delete"
  /\ mem' = [mem EXCEPT ![run.to] = None]
  /\ known' = [known EXCEPT ![run.to] = IF mem[run.to] = None THEN @ ELSE None]
  /\ IF run.to # kernel.thread THEN Goto("ended")
     ELSE \E t \in left.threads : /\ mem'[t] = None  \* a random id: nothing is stored under it
                             /\ Do(<<Reset(t)>>, "ended", "ended")
  /\ UNCHANGED <<disk, kernel, effect, left>>

Ingest == Begin("ingest", None)
IngestMessage ==
  /\ run.at = "ingest" /\ Others
  /\ IF ExternalText \in kernel.external THEN Goto("ended")
     ELSE Do(<<External(User(ExternalText))>>, "ended", "ended")

Destroy == Begin("destroy", None)
DestroySession ==
  /\ run.at = "destroy" /\ Others
  /\ IF kernel.dead THEN Goto("ended") ELSE Do(<<Destroyed>>, "ended", "ended")

-----------------------------------------------------------------------------
(* The process: the constructor recovers the journal, then brings journal   *)
(* and conversation store together; a crash loses all but disk and mem.     *)

Open ==
  /\ run.at = "down"
  /\ kernel' = disk
  /\ run' = Script(Idle, RecoveryPlan(disk), "import", "unopened")
  /\ UNCHANGED <<disk, mem, known, effect, left>>

Import ==
  /\ run.at = "import"
  /\ UNCHANGED <<disk, kernel, effect, left>>
  /\ LET prior == mem[kernel.thread] IN
     IF kernel.count = 1
     THEN /\ known' = IF prior = None THEN known ELSE [known EXCEPT ![kernel.thread] = prior]
          /\ UNCHANGED mem
          /\ IF MessagesOf(prior) = <<>> THEN Goto("idle")
             ELSE Do(<<Replaced(prior, "conversation_memory_imported")>>, "idle", "unopened")
     ELSE IF kernel.hist = <<>> THEN Goto("idle") /\ UNCHANGED <<mem, known>>
     ELSE IF Fits(kernel.thread, kernel.hist) THEN Project(kernel.thread, kernel.hist) /\ Goto("idle")
     ELSE Goto("diverged") /\ UNCHANGED <<mem, known>>

(* The constructor threw: there is no agent.                                *)
Unopened ==
  /\ run.at \in {"unopened", "diverged"}
  /\ run' = Down /\ kernel' = None
  /\ known' = [t \in Threads |-> None]
  /\ UNCHANGED <<disk, mem, effect, left>>

Torn == disk.turn # None /\ (disk.turn.mustRoll \/ disk.turn.rolled)

Crash ==
  /\ kernel # None /\ left.crashes > 0
  /\ left' = [left EXCEPT !.crashes = @ - 1]
  /\ torn' = (torn \/ Torn)
  /\ run' = Down /\ kernel' = None
  /\ known' = [t \in Threads |-> None]
  /\ UNCHANGED <<disk, mem, effect>>

(* Another process talks on the same thread through its own agent.          *)
OtherWriter(t) ==
  /\ left.others > 0
  /\ left' = [left EXCEPT !.others = @ - 1]
  /\ mem' = [mem EXCEPT ![t] = MessagesOf(@) \o <<User(OtherText), Answer>>]
  /\ UNCHANGED <<disk, kernel, run, known, effect>>

Turn ==
  \/ SwitchThread \/ ApplyBudget \/ OpenTheTurn \/ TheUserSays \/ NextRound \/ PrepareRequest
  \/ ModelAnswers \/ ReadResponse \/ Spoken \/ Dispatch \/ BatchSettled \/ Checkpoint
  \/ RoundDone \/ Conclude \/ Complete \/ Committed \/ Catch \/ Mended \/ Terminated
  \/ Finally \/ Close \/ Return

Batch ==
  \E c \in Calls :
    \/ Ask(c) \/ Intend(c) \/ Refuse(c) \/ Break(c) \/ RecordRefusal(c) \/ Enter(c)
    \/ (\E o \in {"done", "failed", "unknown"} : Settle(c, o)) \/ RecordResult(c)

Step ==
  \/ ScriptStep \/ Turn \/ Batch
  \/ (\E t \in left.threads : Chat(t) \/ ResetTo(t) \/ Delete(t) \/ OtherWriter(t))
  \/ Ingest \/ Destroy
  \/ KeepThread \/ ClearThread \/ DeleteThread \/ IngestMessage \/ DestroySession
  \/ Open \/ Import \/ Unopened

Next == (Step /\ UNCHANGED torn) \/ Crash

Spec == Init /\ [][Next]_vars

(* The agent's own steps and its process manager's restart happen; so do    *)
(* the answers of providers and handlers, which the code bounds by deadlines *)
(* and abort signals.                                                        *)
FairSpec == Spec /\ WF_vars((ScriptStep \/ Turn \/ Batch \/ Open \/ Import \/ Unopened) /\ UNCHANGED torn)
=============================================================================
