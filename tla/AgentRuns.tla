------------------------------ MODULE AgentRuns ------------------------------
(***************************************************************************)
(* Agents, crews and workflow steps: src/src/framework/agents.ts, and the     *)
(* same loop in workflows.ts.  A run asks the model, executes the calls of    *)
(* the answer at once, waits for all of them, records them and asks again;    *)
(* what it did goes into its record however it ends (runs.ts).  A crew runs    *)
(* members one after another, all at once, or in repeated passes, and a        *)
(* member may delegate to another agent: the delegate's whole run is then one  *)
(* call of the member's.                                                     *)
(***************************************************************************)
EXTENDS Naturals, Sequences, FiniteSets

CONSTANTS
  Members,        \* the size of the crew
  Rounds,         \* the maxRounds of each agent, the delegate's at 0
  MaxCalls,       \* bound: calls in one answer, for each agent
  MaxIterations,  \* of a Ralph loop
  Modes           \* "sequential", "parallel", "settled" (parallelSettled), "ralph"

Delegate == 0
Slots == 0..Members

VARIABLES
  mode,
  crew,       \* "running", "done" or "failed"
  iteration,
  status,     \* of each run: "idle", "running", "completed", "limit", "failed"
  round,
  batch,      \* the calls of the round under way and how far each is
  receipts,   \* the run's toolCalls
  caller,     \* whose call the delegate's run is: <<run, index>>, or <<>>
  entered,    \* calls whose handler was entered, <<round, index>>
  doubted     \* runs under which the outcome of an effect is unknown

runs == <<status, round, batch, receipts, entered>>
vars == <<mode, crew, iteration, runs, caller, doubted>>

Ended == {"completed", "limit", "failed"}
Settled == {"known", "unknown"}   \* a success and a failure the tool told of are both known

Init ==
  /\ mode \in Modes /\ crew = "running" /\ iteration = 1
  /\ status = [r \in Slots |->
                 IF r = 1 \/ (r > 1 /\ mode \in {"parallel", "settled"}) THEN "running" ELSE "idle"]
  /\ round = [r \in Slots |-> 0]
  /\ batch = [r \in Slots |-> <<>>] /\ receipts = [r \in Slots |-> <<>>]
  /\ entered = [r \in Slots |-> {}]
  /\ caller = <<>> /\ doubted = {}

\* completeRun, failRun: requireRunning, then the one terminal status.
Ends(r, as) == status[r] = "running" /\ status' = [status EXCEPT ![r] = as]

-----------------------------------------------------------------------------
Asking(r) == status[r] = "running" /\ batch[r] = <<>>

(* adapter.chat answers with a text, with calls, or throws.                  *)
Answers(r) ==
  /\ Asking(r) /\ round[r] < Rounds[r]
  /\ round' = [round EXCEPT ![r] = @ + 1]
  /\ Ends(r, "completed")
  /\ UNCHANGED <<mode, crew, iteration, batch, receipts, entered, caller, doubted>>
Calls(r) ==
  /\ Asking(r) /\ round[r] < Rounds[r]
  /\ round' = [round EXCEPT ![r] = @ + 1]
  /\ \E n \in 1..MaxCalls[r] :
       \E kinds \in [1..n -> {"tool"} \union IF r = Delegate THEN {} ELSE {"delegation"}] :
         batch' = [batch EXCEPT ![r] = [i \in 1..n |-> [kind |-> kinds[i], at |-> "queued"]]]
  /\ UNCHANGED <<mode, crew, iteration, status, receipts, entered, caller, doubted>>
AdapterThrows(r) ==
  /\ Asking(r) /\ round[r] < Rounds[r]
  /\ Ends(r, "failed")
  /\ UNCHANGED <<mode, crew, iteration, round, batch, receipts, entered, caller, doubted>>

(* No final answer within maxRounds: the run ends at its limit.  A workflow's  *)
(* llmStep throws besides, which parallelSettled takes for a branch's result.  *)
Limit(r) ==
  /\ Asking(r) /\ round[r] = Rounds[r]
  /\ Ends(r, "limit")
  /\ UNCHANGED <<mode, crew, iteration, round, batch, receipts, entered, caller, doubted>>

(* executeDetailed: the call is refused, or its handler entered.             *)
Moves(r, i, from, to) ==
  /\ i \in 1..Len(batch[r]) /\ batch[r][i].at = from
  /\ batch' = [batch EXCEPT ![r][i].at = to]
Refuse(r, i) ==
  /\ Moves(r, i, "queued", "known")
  /\ UNCHANGED <<mode, crew, iteration, status, round, receipts, entered, caller, doubted>>
Enter(r, i) ==
  /\ Moves(r, i, "queued", "entered")
  /\ entered' = [entered EXCEPT ![r] = @ \union {<<round[r], i>>}]
  /\ IF batch[r][i].kind = "delegation"
     THEN /\ status[Delegate] = "idle"
          /\ status' = [status EXCEPT ![Delegate] = "running"] /\ caller' = <<r, i>>
     ELSE UNCHANGED <<status, caller>>
  /\ UNCHANGED <<mode, crew, iteration, round, receipts, doubted>>

(* A handler that throws, or answers what it must not, may have acted.        *)
Under(r) == {r} \union IF r = Delegate /\ caller # <<>> THEN {caller[1]} ELSE {}
Settle(r, i) ==
  /\ i \in 1..Len(batch[r]) /\ batch[r][i].kind = "tool"
  /\ \E outcome \in Settled :
       /\ Moves(r, i, "entered", outcome)
       /\ doubted' = IF outcome = "unknown" THEN doubted \union Under(r) ELSE doubted
  /\ UNCHANGED <<mode, crew, iteration, status, round, receipts, entered, caller>>

Forgotten(r) ==
  /\ round' = [round EXCEPT ![r] = 0] /\ receipts' = [receipts EXCEPT ![r] = <<>>]
  /\ entered' = [entered EXCEPT ![r] = {}]

(* Seeded fault: a delegate that failed is an ordinary failure of the tool.   *)
DelegateFailsPlainly ==
  /\ status[Delegate] \in Ended /\ caller # <<>> /\ caller' = <<>>
  /\ Moves(caller[1], caller[2], "entered", "known")
  /\ status' = [status EXCEPT ![Delegate] = "idle"] /\ Forgotten(Delegate)
  /\ doubted' = doubted \ {Delegate}
  /\ UNCHANGED <<mode, crew, iteration>>

(* createDelegationTool's handler: it returns when the delegate's run does,   *)
(* and throws when that throws.                                              *)
DelegateEnds ==
  /\ status[Delegate] \in Ended /\ caller # <<>> /\ caller' = <<>>
  /\ Moves(caller[1], caller[2], "entered", IF status[Delegate] = "failed" THEN "unknown" ELSE "known")
  /\ status' = [status EXCEPT ![Delegate] = "idle"] /\ Forgotten(Delegate)
  /\ doubted' = doubted \ {Delegate}
  /\ UNCHANGED <<mode, crew, iteration>>

Records(r) == [i \in 1..Len(batch[r]) |-> <<round[r], i>>]
InDoubt(r) == \E i \in 1..Len(batch[r]) : batch[r][i].at = "unknown"

(* Seeded fault: Promise.all: one unknown outcome ends the wait.              *)
GatherEarly(r) ==
  /\ status[r] = "running" /\ batch[r] # <<>>
  /\ InDoubt(r) \/ \A i \in 1..Len(batch[r]) : batch[r][i].at \in Settled
  /\ receipts' = [receipts EXCEPT ![r] =
                    @ \o SelectSeq(Records(r), LAMBDA x : batch[r][x[2]].at \in Settled)]
  /\ batch' = [batch EXCEPT ![r] = <<>>]
  /\ status' = [status EXCEPT ![r] = IF InDoubt(r) THEN "failed" ELSE @]
  /\ UNCHANGED <<mode, crew, iteration, round, entered, caller, doubted>>

(* Promise.allSettled, the receipts in call order, and an unknown outcome      *)
(* fails the run.                                                            *)
Gather(r) ==
  /\ status[r] = "running" /\ batch[r] # <<>>
  /\ \A i \in 1..Len(batch[r]) : batch[r][i].at \in Settled
  /\ receipts' = [receipts EXCEPT ![r] = @ \o Records(r)]
  /\ batch' = [batch EXCEPT ![r] = <<>>]
  /\ status' = [status EXCEPT ![r] = IF InDoubt(r) THEN "failed" ELSE @]
  /\ UNCHANGED <<mode, crew, iteration, round, entered, caller, doubted>>

-----------------------------------------------------------------------------
(* runCrew, runTaskCrew, runRalph and the workflow combinators.              *)
Advance ==
  /\ crew = "running" /\ mode \in {"sequential", "ralph"}
  /\ \E r \in 1..(Members - 1) :
       /\ status[r] \in Ended \ {"failed"} /\ status[r + 1] = "idle"
       /\ status' = [status EXCEPT ![r + 1] = "running"]
  /\ UNCHANGED <<mode, crew, iteration, round, batch, receipts, entered, caller, doubted>>
(* Another pass: the members start again with an empty conversation.          *)
Repeat ==
  /\ crew = "running" /\ mode = "ralph" /\ iteration < MaxIterations
  /\ status[Members] \in Ended \ {"failed"}
  /\ iteration' = iteration + 1
  /\ status' = [r \in Slots |-> IF r = 1 THEN "running" ELSE "idle"]
  /\ round' = [r \in Slots |-> 0] /\ receipts' = [r \in Slots |-> <<>>]
  /\ entered' = [r \in Slots |-> {}]
  /\ UNCHANGED <<mode, crew, batch, caller, doubted>>
Finish ==
  /\ crew = "running" /\ crew' = "done"
  /\ \A r \in 1..Members : status[r] \in (IF mode = "settled" THEN Ended ELSE Ended \ {"failed"})
  /\ UNCHANGED <<mode, iteration, runs, caller, doubted>>
(* The first failure is the crew's; in a parallel crew the others run on.      *)
Rejected ==
  /\ crew = "running" /\ mode # "settled" /\ crew' = "failed"
  /\ \E r \in 1..Members : status[r] = "failed"
  /\ UNCHANGED <<mode, iteration, runs, caller, doubted>>

Next ==
  \/ DelegateEnds \/ Advance \/ Repeat \/ Finish \/ Rejected
  \/ \E r \in Slots :
       \/ Answers(r) \/ Calls(r) \/ AdapterThrows(r) \/ Limit(r) \/ Gather(r)
       \/ \E i \in 1..MaxCalls[r] : Refuse(r, i) \/ Enter(r, i) \/ Settle(r, i)

Spec == Init /\ [][Next]_vars

-----------------------------------------------------------------------------
(* Whichever way a run ends, its record lists every call whose handler was      *)
(* entered, in call order - also those that settled after another's outcome     *)
(* was lost (agents.ts 365-367).                                              *)
RecordsTellAll ==
  \A r \in Slots : status[r] \in Ended =>
    LET told == {receipts[r][i] : i \in 1..Len(receipts[r])}
        before(c, d) == c[1] < d[1] \/ (c[1] = d[1] /\ c[2] < d[2])
    IN /\ entered[r] \subseteq told
       /\ \A i, j \in 1..Len(receipts[r]) : i < j => before(receipts[r][i], receipts[r][j])

(* No run, and no crew but one that settles, is reported a success over an      *)
(* effect whose outcome is unknown, at any depth of delegation.                *)
NoDoubtUnderSuccess ==
  /\ \A r \in Slots : status[r] \in {"completed", "limit"} => r \notin doubted
  /\ crew = "done" /\ mode # "settled" => doubted = {}
=============================================================================
