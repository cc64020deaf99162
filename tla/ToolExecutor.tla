---------------------------- MODULE ToolExecutor ----------------------------
(***************************************************************************)
(* ToolExecutor.invoke of src/framework/executor.ts: one execution         *)
(* boundary in front of every tool handler.  An invocation records its     *)
(* intent in every journal sink, is authorized by every policy, waits for  *)
(* a reservation of the scheduler, is authorized again, records that it is *)
(* admitted and that it starts, is authorized a third time, and only then  *)
(* enters the handler.  Whatever happens it ends in finish, which persists *)
(* a receipt, tells the observers and answers the caller.                  *)
(*                                                                         *)
(* The code between two awaits is one action.  Policies, sinks, observers, *)
(* signals, deadlines and the tool catalog change or fail at any await.    *)
(* The scheduler is the reservation that ToolScheduler's SlotAccounting    *)
(* describes.  Nested invocations are those of ToolScheduler's RunChild.   *)
(***************************************************************************)
EXTENDS ExecutionJournal, FiniteSets

CONSTANTS Invocations,  \* calls of invoke
          Sinks,        \* the executor's journal and the caller's lifecycle
          Policies,     \* uniquePolicies, in the order they are asked
          MaxParallel,  \* of the scheduler
          MaxRefs,      \* bounds the authority a policy issues
          MaxFaults,    \* bounds the calls of a sink or a policy that throw
          Nothing       \* no answer yet

ASSUME ExecutorAssumption ==
  /\ IsFiniteSet(Invocations)
  /\ Sinks \in Seq(STRING) /\ Policies \in Seq(STRING) /\ Policies # <<>>
  /\ MaxParallel \in Nat \ {0} /\ MaxRefs \in Nat \ {0} /\ MaxFaults \in Nat
  /\ Nothing \notin Outcomes \cup [outcome : Outcomes, phase : Phases]

VARIABLES
  pc,            \* where each invocation stands
  stage,         \* which authorization it is in, or which catch block is next
  at,            \* the sink, policy or observer it is calling
  mode,          \* its execution mode
  journalState,  \* the last event all sinks have recorded
  phase,         \* receipt.phase; receipt.startedAt is set unless not_started
  outcome,       \* receipt.executionOutcome
  asked,         \* the references the policies gave in this authorization
  denied,        \* a policy did not allow
  receiptRefs,   \* receipt.authorityGrantRefs
  entered,       \* handlerEntered
  upset,         \* an observer of this finish threw
  heard,         \* the outcome each observer heard last
  told,          \* what the caller was told
  slots,         \* the invocations that hold a reservation
  log,           \* per sink, the events stored for each invocation
  aborted, expired,  \* the invocations whose signal or deadline is over
  stale,         \* the invocations whose tool was replaced
  grant,         \* per policy, the authority it stands for now
  lapsed,        \* authority that has expired
  revoked,       \* per invocation, the receipt's authority gone at its start
  faults         \* calls that threw so far

receipt == <<journalState, phase, outcome, receiptRefs>>
world   == <<aborted, expired, stale, grant, lapsed>>
vars == <<pc, stage, at, mode, receipt, asked, denied, entered, upset, heard, told,
          slots, log, world, revoked, faults>>

PolicyIds == 1..Len(Policies)
SinkIds   == 1..Len(Sinks)
Refs      == PolicyIds \X (1..MaxRefs)

Init ==
  /\ pc = [i \in Invocations |-> "idle"] /\ stage = [i \in Invocations |-> "early"]
  /\ at = [i \in Invocations |-> 1]
  /\ mode \in [Invocations -> {"parallel-safe", "exclusive"}]
  /\ journalState = [i \in Invocations |-> "none"]
  /\ phase = [i \in Invocations |-> "not_started"] /\ outcome = [i \in Invocations |-> "failed"]
  /\ asked = [i \in Invocations |-> {}] /\ denied = [i \in Invocations |-> FALSE]
  /\ receiptRefs = [i \in Invocations |-> {}]
  /\ entered = [i \in Invocations |-> FALSE] /\ upset = [i \in Invocations |-> FALSE]
  /\ heard = [i \in Invocations |-> [s \in SinkIds |-> Nothing]]
  /\ told = [i \in Invocations |-> Nothing]
  /\ slots = {}
  /\ log = [s \in SinkIds |-> [i \in Invocations |-> <<>>]]
  /\ aborted = {} /\ expired = {} /\ stale = {}
  /\ grant = [p \in PolicyIds |-> [ref |-> 1, ok |-> TRUE]] /\ lapsed = {}
  /\ revoked = [i \in Invocations |-> {}]
  /\ faults = 0

At(i, label)   == pc[i] = label
Goto(i, label) == pc' = [pc EXCEPT ![i] = label]

\* interruption() or checkCapability() stops the invocation here.
Interrupted(i) == i \in aborted \cup expired
Stopped(i)     == Interrupted(i) \/ i \in stale
Valid(r)       == grant[r[1]] = [ref |-> r[2], ok |-> TRUE] /\ r \notin lapsed

-----------------------------------------------------------------------------
(* finish.                                                                 *)

\* Up to the first await of finish: the receipt is final, and is persisted
\* unless persist is FALSE or nothing was requested.
Finish(i, st, ph, out, persist) ==
  /\ phase'   = [phase EXCEPT ![i] = ph]
  /\ outcome' = [outcome EXCEPT ![i] = out]
  /\ stage'   = [stage EXCEPT ![i] = st]
  /\ at'      = [at EXCEPT ![i] = 1]
  /\ upset'   = [upset EXCEPT ![i] = FALSE]
  /\ Goto(i, IF persist /\ journalState[i] # "none" THEN "settling" ELSE "observing")

\* reject.
Reject(i, st) == Finish(i, st, "not_started", "failed", TRUE)

\* Seeded fault: the inner catch block answers without a second finish.
RaiseUnheard(i) ==
  IF entered[i]
  THEN /\ told' = [told EXCEPT ![i] = [outcome |-> "unknown", phase |-> "started"]]
       /\ Goto(i, "returned") /\ UNCHANGED <<phase, outcome, stage, at, upset>>
  ELSE Goto(i, "threw") /\ UNCHANGED <<phase, outcome, stage, at, upset, told>>

\* Seeded fault: the inner catch block treats every error as a rejection.
RaiseAsRejected(i) ==
  /\ CASE stage[i] \in {"slot", "final"}  -> Reject(i, "outer")
       [] stage[i] \in {"early", "outer"} -> Goto(i, "threw") /\ UNCHANGED <<phase, outcome, stage, at, upset>>
  /\ UNCHANGED told

\* An error leaves the code of this stage: the inner catch block, inside the
\* reservation, the outer one, or the caller takes it.
Raise(i) ==
  /\ CASE stage[i] \in {"slot", "final"} /\ entered[i] -> Finish(i, "inner", "started", "unknown", FALSE)
       [] stage[i] = "inner"                           -> Finish(i, "outer", "started", "unknown", FALSE)
       [] stage[i] \in {"slot", "final"} /\ ~entered[i] -> Reject(i, "outer")
       [] stage[i] \in {"early", "outer"} -> Goto(i, "threw") /\ UNCHANGED <<phase, outcome, stage, at, upset>>
  /\ UNCHANGED told

Return(i) ==
  /\ told' = [told EXCEPT ![i] = [outcome |-> outcome[i], phase |-> phase[i]]]
  /\ Goto(i, "returned")
  /\ UNCHANGED <<phase, outcome, stage, at, upset>>

-----------------------------------------------------------------------------
(* record: one sink after the other, each awaited.                         *)

Recording == {"requesting", "admitting", "starting", "settling"}

EventType(i) ==
  CASE pc[i] = "requesting" -> "requested"
    [] pc[i] = "admitting"  -> "admitted"
    [] pc[i] = "starting"   -> "started"
    [] pc[i] = "settling"   -> IF journalState[i] = "requested" THEN "rejected" ELSE "settled"

EventOf(i) == Event(EventType(i), phase[i], outcome[i])
Accepts(i) == ValidNext(log[at[i]][i], EventOf(i))
Store(i)   == log' = [log EXCEPT ![at[i]][i] = Append(@, EventOf(i))]

\* Seeded fault: the state advances when the first sink has recorded.
RecordedEarly(i) ==
  /\ journalState' = [journalState EXCEPT ![i] = IF pc[i] = "settling" THEN @ ELSE EventType(i)]
  /\ at' = [at EXCEPT ![i] = 1]
  /\ revoked' = revoked
  /\ stage' = IF pc[i] = "starting" THEN [stage EXCEPT ![i] = "final"] ELSE stage
  /\ Goto(i, CASE pc[i] = "requesting" -> "screening" [] pc[i] = "admitting" -> "admitted"
               [] pc[i] = "starting" -> "authorizing" [] pc[i] = "settling" -> "observing")

\* The sink has recorded: on to the next sink, or past the record.
Recorded(i) ==
  IF at[i] < Len(Sinks)
  THEN /\ at' = [at EXCEPT ![i] = @ + 1]
       /\ UNCHANGED <<pc, stage, journalState, revoked>>
  ELSE /\ at' = [at EXCEPT ![i] = 1]
       /\ journalState' = [journalState EXCEPT ![i] = IF pc[i] = "settling" THEN @ ELSE EventType(i)]
       /\ stage' = IF pc[i] = "starting" THEN [stage EXCEPT ![i] = "final"] ELSE stage
       /\ revoked' = IF pc[i] = "starting"
                     THEN [revoked EXCEPT ![i] = {r \in receiptRefs[i] : ~Valid(r)}] ELSE revoked
       /\ Goto(i, CASE pc[i] = "requesting" -> "screening"
                    [] pc[i] = "admitting"  -> "admitted"
                    [] pc[i] = "starting"   -> "authorizing"
                    [] pc[i] = "settling"   -> "observing")

\* Seeded fault: finish answers what it could not persist.
RecordThrowsQuietly(i) ==
  /\ CASE pc[i] = "requesting" -> Reject(i, "early")
       [] pc[i] \in {"admitting", "starting"} -> Reject(i, "outer")
       [] pc[i] = "settling" ->
            at' = [at EXCEPT ![i] = 1] /\ Goto(i, "observing") /\ UNCHANGED <<phase, outcome, stage, upset>>
  /\ UNCHANGED <<journalState, revoked>>

\* Seeded fault: a sink that throws does not keep the next one from its turn.
RecordThrowsOnward(i) ==
  /\ outcome' = [outcome EXCEPT ![i] = IF phase[i] = "not_started" THEN @ ELSE "unknown"]
  /\ IF at[i] < Len(Sinks) THEN at' = [at EXCEPT ![i] = @ + 1] /\ UNCHANGED pc
                           ELSE at' = [at EXCEPT ![i] = 1] /\ Goto(i, "observing")
  /\ UNCHANGED <<phase, stage, upset, journalState, revoked>>

\* record throws.  finish catches it itself, and takes back what it was about
\* to say when the handler may have had an effect.
RecordThrows(i) ==
  /\ CASE pc[i] = "requesting" -> Reject(i, "early")
       [] pc[i] \in {"admitting", "starting"} -> Reject(i, "outer")
       [] pc[i] = "settling" ->
            /\ phase'   = [phase EXCEPT ![i] = IF @ = "not_started" THEN @ ELSE "started"]
            /\ outcome' = [outcome EXCEPT ![i] = IF phase[i] = "not_started" THEN @ ELSE "unknown"]
            /\ at' = [at EXCEPT ![i] = 1] /\ Goto(i, "observing")
            /\ UNCHANGED <<stage, upset>>
  /\ UNCHANGED <<journalState, revoked>>

\* The sink stores the event and returns; or throws although it is stored;
\* or throws, and always does when the event is not valid.  Without a sink
\* there is nothing to wait for.
RecordStep(i) ==
  /\ pc[i] \in Recording
  /\ \/ Sinks = <<>> /\ Recorded(i) /\ UNCHANGED <<phase, outcome, upset, log, faults>>
     \/ /\ Sinks # <<>>
        /\ \/ Accepts(i) /\ Store(i) /\ Recorded(i) /\ UNCHANGED <<phase, outcome, upset, faults>>
           \/ Accepts(i) /\ faults < MaxFaults /\ faults' = faults + 1
              /\ (Store(i) \/ UNCHANGED log) /\ RecordThrows(i)
           \/ ~Accepts(i) /\ RecordThrows(i) /\ UNCHANGED <<log, faults>>
  /\ UNCHANGED <<mode, receiptRefs, asked, denied, entered, heard, told, slots, world>>

-----------------------------------------------------------------------------
(* Admission.                                                              *)

\* invoke is called.  Parameters that are no JSON object are refused before
\* anything is recorded.
Call(i) ==
  /\ At(i, "idle")
  /\ \/ Goto(i, "requesting") /\ UNCHANGED <<stage, at, phase, outcome, upset>>
     \/ Reject(i, "early")
  /\ UNCHANGED <<mode, journalState, receiptRefs, asked, denied, entered, heard, told, slots, log,
                 world, revoked, faults>>

\* The next policy is asked from the start of uniquePolicies.
Ask(i) ==
  /\ Goto(i, "authorizing") /\ asked' = [asked EXCEPT ![i] = {}]
  /\ UNCHANGED <<stage, at, phase, outcome, upset>>

\* After "requested": an unknown tool or invalid arguments are refused, then
\* a signal, a deadline or a replaced tool.
Screen(i) ==
  /\ At(i, "screening")
  /\ \/ Reject(i, "early") /\ UNCHANGED asked
     \/ ~Stopped(i) /\ Ask(i)
  /\ UNCHANGED <<mode, journalState, receiptRefs, denied, entered, heard, told, slots, log,
                 world, revoked, faults>>

\* authorize: one policy answers.  One that does not allow ends the round.
Authorize(i) ==
  /\ At(i, "authorizing")
  /\ LET r == <<at[i], grant[at[i]].ref>>
     IN IF Valid(r)
        THEN /\ asked' = [asked EXCEPT ![i] = @ \cup {r}] /\ UNCHANGED denied
             /\ at' = [at EXCEPT ![i] = IF at[i] < Len(Policies) THEN @ + 1 ELSE 1]
             /\ IF at[i] < Len(Policies) THEN UNCHANGED pc ELSE Goto(i, "decided")
        ELSE /\ denied' = [denied EXCEPT ![i] = TRUE]
             /\ at' = [at EXCEPT ![i] = 1] /\ Goto(i, "decided") /\ UNCHANGED asked
  /\ UNCHANGED <<stage, mode, receipt, entered, upset, heard, told, slots, log, world,
                 revoked, faults>>

\* A policy throws: the outer catch block rejects.
PolicyThrows(i) ==
  /\ At(i, "authorizing") /\ faults < MaxFaults /\ faults' = faults + 1
  /\ Reject(i, "outer")
  /\ UNCHANGED <<mode, journalState, receiptRefs, asked, denied, entered, heard, told, slots, log,
                 world, revoked>>

\* The end of authorize: a policy denied, or what one gave has expired since.
Denied(i) == denied[i] \/ asked[i] \cap lapsed # {}

\* The first decision: deny, or queue for a reservation.
DecideEarly(i) ==
  /\ At(i, "decided") /\ stage[i] = "early"
  /\ IF Denied(i) THEN Reject(i, "early")
                  ELSE Goto(i, "queued") /\ UNCHANGED <<stage, at, phase, outcome, upset>>
  /\ UNCHANGED <<mode, journalState, receiptRefs, asked, denied, entered, heard, told, slots, log,
                 world, revoked, faults>>

\* Seeded fault: a reader is admitted beside a writer.
AdmitBesideWriter(i) ==
  /\ At(i, "queued") /\ ~Interrupted(i)
  /\ mode[i] = "parallel-safe" \/ slots = {}
  /\ Cardinality(slots) < MaxParallel
  /\ slots' = slots \cup {i}
  /\ stage' = [stage EXCEPT ![i] = "slot"] /\ Goto(i, "dispatching")
  /\ UNCHANGED <<at, mode, receipt, asked, denied, entered, upset, heard, told, log, world,
                 revoked, faults>>

\* The scheduler starts the operation: a writer is alone, readers are capped.
Admit(i) ==
  /\ At(i, "queued") /\ ~Interrupted(i)
  /\ \A j \in slots : mode[i] = "parallel-safe" /\ mode[j] = "parallel-safe"
  /\ Cardinality(slots) < MaxParallel
  /\ slots' = slots \cup {i}
  /\ stage' = [stage EXCEPT ![i] = "slot"] /\ Goto(i, "dispatching")
  /\ UNCHANGED <<at, mode, receipt, asked, denied, entered, upset, heard, told, log, world,
                 revoked, faults>>

\* The scheduler refuses an entry whose signal or deadline is over.
Drop(i) ==
  /\ At(i, "queued") /\ Interrupted(i)
  /\ Reject(i, "outer")
  /\ UNCHANGED <<mode, journalState, receiptRefs, asked, denied, entered, heard, told, slots, log,
                 world, revoked, faults>>

\* dispatch: look again, and ask the policies again.
Dispatch(i) ==
  /\ At(i, "dispatching")
  /\ IF Stopped(i) THEN Reject(i, "slot") /\ UNCHANGED asked ELSE Ask(i)
  /\ UNCHANGED <<mode, journalState, receiptRefs, denied, entered, heard, told, slots, log,
                 world, revoked, faults>>

\* The second decision: deny, or record the admission.
DecideInSlot(i) ==
  /\ At(i, "decided") /\ stage[i] = "slot"
  /\ IF Denied(i)
     THEN Reject(i, "slot") /\ UNCHANGED receiptRefs
     ELSE /\ receiptRefs' = [receiptRefs EXCEPT ![i] = asked[i]]
          /\ Goto(i, "admitting") /\ UNCHANGED <<stage, at, phase, outcome, upset>>
  /\ UNCHANGED <<mode, journalState, asked, denied, entered, heard, told, slots, log,
                 world, revoked, faults>>

\* finalStop, then the intent: the receipt says "started" and is recorded.
Intend(i) ==
  /\ At(i, "admitted")
  /\ IF Interrupted(i) \/ receiptRefs[i] \cap lapsed # {}
     THEN Reject(i, "slot") /\ UNCHANGED asked
     ELSE /\ phase' = [phase EXCEPT ![i] = "started"] /\ outcome' = [outcome EXCEPT ![i] = "unknown"]
          /\ asked' = [asked EXCEPT ![i] = {}]
          /\ Goto(i, "starting") /\ UNCHANGED <<stage, at, upset>>
  /\ UNCHANGED <<mode, journalState, receiptRefs, denied, entered, heard, told, slots, log,
                 world, revoked, faults>>

\* Seeded fault: the third decision is not compared with the receipt.
AuthorityLostUnbound(i) == Denied(i)

\* The third decision denies, names other authority, or is expired by now.
AuthorityLost(i) ==
  Denied(i) \/ asked[i] # receiptRefs[i] \/ receiptRefs[i] \cap lapsed # {}

\* The last check and, with no await between, the call of the handler.
Enter(i) ==
  /\ At(i, "decided") /\ stage[i] = "final"
  /\ IF AuthorityLost(i) \/ Stopped(i)
     THEN Reject(i, "final") /\ UNCHANGED entered
     ELSE /\ entered' = [entered EXCEPT ![i] = TRUE]
          /\ Goto(i, "running") /\ UNCHANGED <<stage, at, phase, outcome, upset>>
  /\ UNCHANGED <<mode, journalState, receiptRefs, asked, denied, heard, told, slots, log,
                 world, revoked, faults>>

\* The handler returns, or throws, or returns invalid output: unknown.
HandlerEnds(i) ==
  /\ At(i, "running")
  /\ \E out \in Outcomes : Finish(i, "final", "settled", out, TRUE)
  /\ UNCHANGED <<mode, journalState, receiptRefs, asked, denied, entered, heard, told, slots, log,
                 world, revoked, faults>>

-----------------------------------------------------------------------------
(* The end of finish, and the end of the reservation.                      *)

\* One observer hears the execution; one that throws is remembered.
Hear(i) ==
  /\ At(i, "observing") /\ at[i] <= Len(Sinks)
  /\ heard' = [heard EXCEPT ![i][at[i]] = outcome[i]]
  /\ at' = [at EXCEPT ![i] = @ + 1]
  /\ \/ UNCHANGED <<upset, faults>>
     \/ faults < MaxFaults /\ faults' = faults + 1 /\ upset' = [upset EXCEPT ![i] = TRUE]
  /\ UNCHANGED <<pc, stage, mode, receipt, asked, denied, entered, told, slots, log, world, revoked>>

EndFinish(i) ==
  /\ At(i, "observing") /\ at[i] > Len(Sinks)
  /\ IF upset[i] THEN Raise(i) ELSE Return(i)
  /\ UNCHANGED <<mode, journalState, receiptRefs, asked, denied, entered, heard, slots, log,
                 world, revoked, faults>>

\* Seeded fault: an operation that throws keeps its reservation.
ReleaseIfReturned(i) ==
  /\ i \in slots /\ pc[i] = "returned" /\ stage[i] # "outer"
  /\ slots' = slots \ {i}
  /\ UNCHANGED <<pc, stage, at, mode, receipt, asked, denied, entered, upset, heard, told, log,
                 world, revoked, faults>>

\* The operation is over: the finally block of the scheduler.
Release(i) ==
  /\ i \in slots /\ (pc[i] \in {"returned", "threw"} \/ stage[i] = "outer")
  /\ slots' = slots \ {i}
  /\ UNCHANGED <<pc, stage, at, mode, receipt, asked, denied, entered, upset, heard, told, log,
                 world, revoked, faults>>

-----------------------------------------------------------------------------
(* The world around the executor.                                          *)

inside == <<pc, stage, at, mode, receipt, asked, denied, entered, upset, heard, told,
            slots, log, revoked, faults>>
Over(i) == pc[i] \in {"returned", "threw"}

Abort(i) ==
  /\ ~Over(i) /\ i \notin aborted /\ aborted' = aborted \cup {i}
  /\ UNCHANGED <<inside, expired, stale, grant, lapsed>>
DeadlinePasses(i) ==
  /\ ~Over(i) /\ i \notin expired /\ expired' = expired \cup {i}
  /\ UNCHANGED <<inside, aborted, stale, grant, lapsed>>
\* Another tool is registered under the name.
ReplaceTool ==
  /\ stale' = {i \in Invocations : pc[i] # "idle"} /\ stale' # stale
  /\ UNCHANGED <<inside, aborted, expired, grant, lapsed>>
Revoke(p) ==
  /\ grant[p].ok /\ grant' = [grant EXCEPT ![p].ok = FALSE]
  /\ UNCHANGED <<inside, aborted, expired, stale, lapsed>>
Reissue(p) ==
  /\ grant[p].ref < MaxRefs /\ grant' = [grant EXCEPT ![p] = [ref |-> @.ref + 1, ok |-> TRUE]]
  /\ UNCHANGED <<inside, aborted, expired, stale, lapsed>>
Lapse(r) ==
  /\ r[2] <= grant[r[1]].ref /\ r \notin lapsed /\ lapsed' = lapsed \cup {r}
  /\ UNCHANGED <<inside, aborted, expired, stale, grant>>

Step(i) ==
  \/ Call(i) \/ RecordStep(i) \/ Screen(i) \/ Authorize(i) \/ PolicyThrows(i)
  \/ DecideEarly(i) \/ Admit(i) \/ Drop(i) \/ Dispatch(i) \/ DecideInSlot(i)
  \/ Intend(i) \/ Enter(i) \/ HandlerEnds(i) \/ Hear(i) \/ EndFinish(i) \/ Release(i)

World ==
  \/ \E i \in Invocations : Abort(i) \/ DeadlinePasses(i)
  \/ ReplaceTool
  \/ \E p \in PolicyIds : Revoke(p) \/ Reissue(p)
  \/ \E r \in Refs : Lapse(r)

Next == (\E i \in Invocations : Step(i)) \/ World

Spec == Init /\ [][Next]_vars

-----------------------------------------------------------------------------
(* Properties.                                                             *)

\* Before a handler is entered its intent is in every journal, so no crash at
\* any point leaves an effect that a recovery calls "not_started".
EffectHasIntent ==
  \A i \in Invocations : entered[i] => \A s \in SinkIds : Has(log[s][i], "started")

\* Where a journal says that nothing started, whether by a stored settlement
\* or rejection or by what recover makes of an execution cut short, it is so.
NotStartedIsTrue ==
  \A i \in Invocations, s \in SinkIds :
    \/ Recovered(log[s][i]) = "not_started"
    \/ Final(log[s][i]) /\ log[s][i][Len(log[s][i])].phase = "not_started"
    => ~entered[i]

\* A definite answer about a handler that ran is in every journal, word for
\* word; where a journal may not know, the caller is told "unknown".  And a
\* caller told that nothing started is told the truth.
AnswerIsOnRecord ==
  \A i \in Invocations : told[i] # Nothing =>
    /\ told[i].phase = "not_started" <=> ~entered[i]
    /\ entered[i] /\ told[i].outcome # "unknown" =>
         \A s \in SinkIds : log[s][i][Len(log[s][i])] = Event("settled", "settled", told[i].outcome)

\* Two journals of one execution never settle on different outcomes.
JournalsAgree ==
  \A i \in Invocations : \A s, t \in SinkIds :
    Final(log[s][i]) /\ Final(log[t][i]) =>
      log[s][i][Len(log[s][i])].outcome = log[t][i][Len(log[t][i])].outcome

\* When invoke answers, every observer has heard that very outcome last.
ObserversAgree ==
  \A i \in Invocations : told[i] # Nothing => \A s \in SinkIds : heard[i][s] = told[i].outcome

\* What the caller, the journals and the observers are told about an execution
\* is true of it, and the same (executor.ts 137-183).
ToldIsTrue == NotStartedIsTrue /\ AnswerIsOnRecord /\ JournalsAgree /\ ObserversAgree

\* No handler starts next to or after an exclusive one whose observers have
\* not heard of it: its uncertainty is known before its reservation is free.
HeardFirst ==
  \A i, j \in Invocations :
    i # j /\ entered[i] /\ ~entered[j] /\ entered'[j] /\ "exclusive" \in {mode[i], mode[j]} =>
      \A s \in SinkIds : heard[i][s] # Nothing
ObservedBeforeNext == [][HeardFirst]_vars

\* A handler is entered only with the authority its receipt names, all of
\* which was still good once the intent to start had become durable, by a
\* call that nothing has stopped.
Covered ==
  \A i \in Invocations : ~entered[i] /\ entered'[i] =>
    /\ revoked[i] = {} /\ receiptRefs[i] \cap lapsed = {}
    /\ \A p \in PolicyIds : \E n \in 1..MaxRefs : <<p, n>> \in receiptRefs[i]
    /\ ~Stopped(i)
EnteredUnderReceipt == [][Covered]_vars

\* Whatever throws, some call that is not done with can go on: none waits for
\* a slot that nobody will give back.
Pending(i) == pc[i] # "idle" /\ (~Over(i) \/ i \in slots)
SomeoneGoes ==
  (\E i \in Invocations : Pending(i)) => \E i \in Invocations : Pending(i) /\ ENABLED Step(i)
=============================================================================
