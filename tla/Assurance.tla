------------------------------ MODULE Assurance ------------------------------
(***************************************************************************)
(* The separate records of src/src/framework/runs.ts: a run and its one       *)
(* ending, the claim of an outcome, the attempts to verify it, the assurance  *)
(* they give under a policy, and the decision that a task is fulfilled.       *)
(* Records are never changed; whoever decides may use any of them, old ones   *)
(* too.                                                                      *)
(***************************************************************************)
EXTENDS Naturals, FiniteSets

CONSTANTS
  Runs,        \* each is one execution attempt at a task
  Tasks,
  Methods,     \* kinds of verification
  Coverage,    \* what a policy may require to be covered
  Policies,    \* [methods, coverage, independent]
  MaxAttempts, MaxBundles, MaxDecisions  \* bounds: the records of each kind

VARIABLES
  status,    \* of each run
  task,      \* the task its manifest names
  claimed,   \* the runs whose outcome is claimed
  attempts,  \* verification attempts: [claim, method, status, independent, coverage]
  bundles,   \* assurance bundles: [claim, policy, decision, rests: the attempts]
  decisions  \* fulfilment decisions: [task, claim, bundle, status]

vars == <<status, task, claimed, attempts, bundles, decisions>>

Init ==
  /\ status = [r \in Runs |-> "running"]
  /\ task \in [Runs -> Tasks]
  /\ claimed = {} /\ attempts = {} /\ bundles = {} /\ decisions = {}

(* Seeded fault: requireRunning is not asked.                                *)
EndAgain(r, to) ==
  /\ status' = [status EXCEPT ![r] = to]
  /\ UNCHANGED <<task, claimed, attempts, bundles, decisions>>

(* completeRun, failRun, cancelRun: only a running run ends.                 *)
End(r, to) ==
  /\ status[r] = "running" /\ status' = [status EXCEPT ![r] = to]
  /\ UNCHANGED <<task, claimed, attempts, bundles, decisions>>

(* createOutcomeClaim.                                                       *)
Claim(r) ==
  /\ status[r] = "completed" /\ claimed' = claimed \union {r}
  /\ UNCHANGED <<status, task, attempts, bundles, decisions>>

(* A verifier records an attempt at the claim of a run.                      *)
Attempt(r, method, result, independent, coverage) ==
  /\ r \in claimed /\ Cardinality(attempts) < MaxAttempts
  /\ attempts' = attempts \union
       {[claim |-> r, method |-> method, status |-> result,
         independent |-> independent, coverage |-> coverage]}
  /\ UNCHANGED <<status, task, claimed, bundles, decisions>>

-----------------------------------------------------------------------------
(* evaluateAssurance.                                                        *)
Passed(relevant) == {a \in relevant : a.status = "passed"}
FailedRequired(policy, relevant) ==
  {m \in policy.methods : \E a \in relevant : a.method = m /\ a.status = "failed"}
Missing(policy, relevant) ==
  \/ \E m \in policy.methods : \A a \in Passed(relevant) : a.method # m
  \/ \E c \in policy.coverage : \A a \in Passed(relevant) : c \notin a.coverage
  \/ policy.independent /\ \A a \in Passed(relevant) : ~a.independent

(* Seeded fault: a pass makes up for a failure of the same method.           *)
LenientDecision(policy, relevant) ==
  IF Missing(policy, relevant)
  THEN IF FailedRequired(policy, relevant) # {} THEN "unsatisfied" ELSE "incomplete"
  ELSE "satisfied"

Decision(policy, relevant) ==
  IF FailedRequired(policy, relevant) # {} THEN "unsatisfied"
  ELSE IF Missing(policy, relevant) THEN "incomplete" ELSE "satisfied"

(* Seeded fault: attempts at other claims count.                             *)
AnyAttempts(r) == attempts

Relevant(r) == {a \in attempts : a.claim = r}

Evaluate(r, policy) ==
  /\ r \in claimed /\ Cardinality(bundles) < MaxBundles
  /\ bundles' = bundles \union
       {[claim |-> r, policy |-> policy, decision |-> Decision(policy, Relevant(r)),
         rests |-> Relevant(r)]}
  /\ UNCHANGED <<status, task, claimed, attempts, decisions>>

(* decideFulfillment: whoever decides may say less than the assurance gives,   *)
(* never more.                                                               *)
Decide(t, r, bundle, said) ==
  /\ r \in claimed /\ task[r] = t /\ bundle.claim = r
  /\ Cardinality(decisions) < MaxDecisions
  /\ said = "fulfilled" => bundle.decision = "satisfied"
  /\ decisions' = decisions \union {[task |-> t, claim |-> r, bundle |-> bundle, status |-> said]}
  /\ UNCHANGED <<status, task, claimed, attempts, bundles>>

Endings == {"completed", "limit_reached", "failed", "cancelled"}
Results == {"passed", "failed", "inconclusive"}
Fulfilments == {"fulfilled", "unfulfilled", "undetermined"}

Next ==
  \E r \in Runs :
    \/ \E to \in Endings : End(r, to)
    \/ Claim(r)
    \/ \E m \in Methods, result \in Results, independent \in BOOLEAN, c \in SUBSET Coverage :
         Attempt(r, m, result, independent, c)
    \/ \E p \in Policies : Evaluate(r, p)
    \/ \E t \in Tasks, b \in bundles, said \in Fulfilments : Decide(t, r, b, said)

Spec == Init /\ [][Next]_vars

-----------------------------------------------------------------------------
(* Whatever was decided, tried or evaluated since: what is called fulfilled    *)
(* is the task of a run that completed, and every method its policy asks for   *)
(* passed on that very claim, while none had failed.                         *)
FulfilledIsEarned ==
  \A d \in decisions : d.status = "fulfilled" =>
    /\ status[d.claim] = "completed" /\ task[d.claim] = d.task
    /\ \A m \in d.bundle.policy.methods :
         /\ \E a \in attempts : a.claim = d.claim /\ a.method = m /\ a.status = "passed"
         /\ \A a \in d.bundle.rests : a.method = m => a.status # "failed"

(* More attempts never turn a failure into success, nor success into doubt:    *)
(* a later evaluation of the same claim under the same policy either agrees    *)
(* or has seen a failure, or what was missing.                               *)
VerdictsOnlySettle ==
  \A b, c \in bundles : (b.claim = c.claim /\ b.policy = c.policy /\ b.rests \subseteq c.rests) =>
    /\ b.decision = "unsatisfied" => c.decision = "unsatisfied"
    /\ b.decision = "satisfied" => c.decision # "incomplete"

Earned == FulfilledIsEarned /\ VerdictsOnlySettle
=============================================================================
