---------------------------- MODULE WorkRecovery ----------------------------
(***************************************************************************)
(* WorkAttempt with crashes and src/framework/work/attempt-recovery.ts:    *)
(* a controller that restarts on the journal of a dead one, and            *)
(* reconcile(), which holds both mutexes through its stages.               *)
(***************************************************************************)
EXTENDS WorkAttempt

CONSTANT MaxCrashes

\* validateRecoveredAttempt.
Revived(s) ==
  [s EXCEPT !.status =
     IF s.inflight # {} \/ s.runs # {} \/ StartedOps(s) # {} THEN "reconciliation_required" ELSE @]

\* The process dies and another one starts on what is durable.
Crash ==
  /\ used.crash < MaxCrashes /\ Spend("crash")
  /\ st' = Revived(saved)
  /\ pc' = [o \in Ops |-> IF pc[o] = Over \/ (o \in Calls /\ ~At(o, "idle")) THEN Over ELSE Idle]
  /\ admissions' = <<>> /\ lifecycle' = <<>> /\ slot' = None
  /\ UNCHANGED <<saved, world, exec, proof, granted, approved>>

CallReconcile ==
  /\ At("reconcile", "idle") /\ st # Absent
  /\ used.reconcile < MaxReconciles /\ Spend("reconcile")
  /\ admissions' = Queue(admissions, "reconcile") /\ Goto("reconcile", <<"admission">>)
  /\ UNCHANGED <<attempt, world, calls, lifecycle, granted, approved>>

-----------------------------------------------------------------------------
(* Saved calls.                                                            *)

\* recoverStepCalls: an intent that may have run without a result stays.
WithStepsAnswered(s) ==
  [s EXCEPT !.inflight = {}, !.unknown = @ \cup {c \in s.inflight : exec[c] = "unknown"}]
WithSteps(s) ==
  [s EXCEPT !.inflight = {c \in @ : exec[c] = "started"},
            !.unknown  = @ \cup {c \in s.inflight : exec[c] \in {"started", "unknown"}}]

\* recoverVerificationCalls: a known result becomes evidence again.
WithRuns(s) ==
  LET known == {v \in s.runs : exec[v] = "known"} IN
  {[s EXCEPT !.runs     = {v \in @ : exec[v] \in {"started", "unknown"}},
             !.unknown  = @ \cup {v \in s.runs : exec[v] = "unknown"},
             !.evidence = e] : e \in IF known = {} THEN {s.evidence} ELSE {proof[v] : v \in known}}

RecoverCalls ==
  /\ At("reconcile", "lifecycle") /\ Holds(lifecycle, "reconcile") /\ Launched
  /\ \/ /\ Inflight = {} /\ granted /\ ~Stopping
        /\ \E s \in WithRuns(WithSteps(st)) :
             \/ s = st /\ Goto("reconcile", <<"recovered">>) /\ UNCHANGED <<attempt, mutexes>>
             \/ s # st /\ ~Closed /\ Persist(s) /\ Goto("reconcile", <<"recovered">>) /\ UNCHANGED mutexes
             \/ s # st /\ Closed /\ Persist(s) /\ Return("reconcile") /\ Goto("reconcile", Idle)
     \/ ~(Inflight = {} /\ granted /\ ~Stopping) /\ Throw("reconcile")
  /\ UNCHANGED <<world, calls, env>>

-----------------------------------------------------------------------------
(* Backend operations.                                                     *)

CheckOperations ==
  /\ At("reconcile", "recovered")
  /\ \/ granted /\ Goto("reconcile", <<"operations">>) /\ UNCHANGED <<attempt, mutexes>>
     \/ ~granted /\ Throw("reconcile")
  /\ UNCHANGED <<world, calls, env>>

\* The backend has a receipt under the key, or proves there is none.
ReconcileOperation(key) ==
  /\ At("reconcile", "operations") /\ key \in StartedOps(st) /\ ~Stopping
  /\ st' = IF key \in backend.receipts THEN Receipted(key) ELSE WithOp(st, key, "absent")
  /\ IF st.ops[key] = "started" /\ ~Closed
     THEN saved' = st' /\ UNCHANGED <<pc, mutexes>>
     ELSE \* the journal takes no settlement without a start, and none at the end
          UNCHANGED saved /\ Return("reconcile") /\ Goto("reconcile", Idle)
  /\ UNCHANGED <<world, calls, env>>

\* The question is not answered: reconcile() throws.
Unanswered ==
  /\ At("reconcile", "operations") /\ StartedOps(st) # {}
  /\ IF Stopping THEN UNCHANGED used ELSE Faulty /\ Spend("fault")
  /\ Throw("reconcile")
  /\ UNCHANGED <<world, calls, granted, approved>>

EndOperations ==
  /\ At("reconcile", "operations") /\ StartedOps(st) = {}
  /\ Goto("reconcile", <<"effects">>)
  /\ UNCHANGED <<attempt, world, calls, mutexes, env>>

-----------------------------------------------------------------------------
(* Unknown effects: reconcileEffect reads back, it never repeats.          *)

Unsure == st.unknown \cap Steps

\* A readback can only confirm what has happened; otherwise it is inconclusive.
ReconcileEffects ==
  /\ At("reconcile", "effects")
  /\ \/ Unsure = {} /\ Goto("reconcile", <<"restore">>) /\ UNCHANGED <<attempt, mutexes>>
     \/ /\ Unsure # {} /\ granted /\ Fresh({"running"}) /\ ~Stopping
        /\ \E verified \in SUBSET (Unsure \cap done) :
             Persist([st EXCEPT !.unknown = @ \ verified, !.inflight = @ \ verified,
                                !.resolved = @ \cup verified])
        /\ Goto("reconcile", <<"restore">>) /\ UNCHANGED mutexes
     \/ Unsure # {} /\ ~(granted /\ Fresh({"running"}) /\ ~Stopping) /\ Throw("reconcile")
  /\ UNCHANGED <<world, calls, env>>

-----------------------------------------------------------------------------
(* restoreLifecycle.                                                       *)

Resolved        == ~Draining(st) /\ StartedOps(st) = {}
HasReceipt(k)   == \E key \in DOMAIN st.ops : key[1] = k /\ st.ops[key] = "receipt"
TerminalKind    == [released |-> "release", needs_review |-> "review", blocked |-> "block"]
NeverOpened     == ~st.lease /\ ~HasReceipt("open")
ReopensReleased == Resolved /\ backend.status \in {"ready", "released"}
Reopens         == Resolved /\ backend.status \in {"ready", "released"} /\ NeverOpened
AdoptsEnded     == Resolved /\ backend.status \in DOMAIN TerminalKind
Adopts          == Resolved /\ backend.status \in DOMAIN TerminalKind /\ HasReceipt(TerminalKind[backend.status])
Restoring       == At("reconcile", "restore")

Reopen ==
  /\ Restoring /\ Reopens
  /\ \/ granted /\ Claimable(backend) /\ Begin("reconcile", st, NextKey("open"))
     \/ ~(granted /\ Claimable(backend)) /\ Throw("reconcile")
  /\ UNCHANGED <<world, calls, env>>

Restart ==
  /\ Restoring /\ Resolved /\ backend.status = "claimed"
  /\ \/ granted /\ Fresh({"claimed"}) /\ Begin("reconcile", st, NextKey("start"))
     \/ ~(granted /\ Fresh({"claimed"})) /\ Throw("reconcile")
  /\ UNCHANGED <<world, calls, env>>

\* The attempt's own receipt proves how it ended.
Adopt ==
  /\ Restoring /\ Adopts
  /\ Persist([st EXCEPT !.status = backend.status])
  /\ Return("reconcile") /\ Goto("reconcile", Idle)
  /\ UNCHANGED <<world, calls, env>>

AdoptCompletion ==
  /\ Restoring /\ backend.status = "completed"
  /\ \/ /\ HasReceipt("complete") /\ ~Draining(st) /\ Proven /\ ~Closed
        /\ Persist([st EXCEPT !.status = "completed"])
        /\ Return("reconcile") /\ Goto("reconcile", Idle)
     \/ ~(HasReceipt("complete") /\ ~Draining(st) /\ Proven /\ ~Closed) /\ Throw("reconcile")
  /\ UNCHANGED <<world, calls, env>>

\* None of these: the lease is confirmed and the attempt goes on, or nothing changes.
Proceed ==
  /\ Restoring /\ ~Reopens /\ ~Adopts
  /\ backend.status # "completed" /\ ~(Resolved /\ backend.status = "claimed")
  /\ IF Resolved THEN Goto("reconcile", <<"confirm">>) /\ UNCHANGED <<attempt, mutexes>>
                 ELSE Throw("reconcile")
  /\ UNCHANGED <<world, calls, env>>

\* Evidence the backend does not have.
Uncovered == st.evidence # None /\ backend.coverage # st.evidence
OwnKey    == <<"evidence", st.evidence.id>>

\* Ownership is confirmed.
Resume ==
  /\ Persist([st EXCEPT !.renewalFailed = FALSE,
                        !.status = IF st.evidence = None THEN "running" ELSE "verifying"])
  /\ Return("reconcile") /\ Goto("reconcile", Idle)

Confirm ==
  /\ At("reconcile", "confirm")
  /\ \/ ~Active /\ Throw("reconcile")
     \/ /\ Active /\ Uncovered /\ OwnKey \in DOMAIN st.ops /\ st.ops[OwnKey] = "receipt"
        /\ Persist([st EXCEPT !.status = "blocked"]) /\ Return("reconcile") /\ Goto("reconcile", Idle)
     \/ /\ Active /\ Uncovered /\ ~(OwnKey \in DOMAIN st.ops /\ st.ops[OwnKey] = "receipt")
        /\ Begin("reconcile", st, OwnKey)
     \/ Active /\ ~Uncovered /\ Resume
  /\ UNCHANGED <<world, calls, env>>

\* The receipt of what reconcile() dispatched, and where it goes on.
Onward == [open |-> <<"restore">>, start |-> <<"confirm">>, evidence |-> <<"covered">>]
Redone ==
  /\ At("reconcile", "answered")
  /\ Persist(Receipted(pc["reconcile"][2])) /\ Goto("reconcile", Onward[pc["reconcile"][2][1]])
  /\ UNCHANGED <<world, calls, mutexes, env>>

Covered == At("reconcile", "covered") /\ Resume /\ UNCHANGED <<world, calls, env>>

ReconcileGoes ==
  \/ Nest("reconcile") \/ RecoverCalls \/ CheckOperations \/ Unanswered \/ EndOperations \/ ReconcileEffects
  \/ Reopen \/ Restart \/ Adopt \/ AdoptCompletion \/ Proceed \/ Confirm \/ Redone \/ Covered \/ Backend("reconcile")
  \/ \E key \in DOMAIN st.ops : ReconcileOperation(key)

\* A call that has begun goes on.
Goes ==
  \/ ShutdownGoes \/ StartGoes \/ RenewGoes \/ FinishGoes \/ ReconcileGoes
  \/ (\E s \in Steps : StepGoes(s)) \/ \E v \in Verifs : VerifyGoes(v)

Next == Controller \/ CallReconcile \/ ReconcileGoes \/ Environment \/ Crash
Spec == Init /\ [][Next]_vars

-----------------------------------------------------------------------------
Keys == ((DOMAIN Submitted \cup {"heartbeat"}) \X (1..9)) \cup ({"evidence"} \X Verifs)
Proofs == [id : Verifs, epoch : 0..Cardinality(Mutating), passed : BOOLEAN, saw : SUBSET Mutating,
           tree : [wrote : SUBSET Tracked, edits : 0..MaxFaults]]

AttemptOK(s) ==
  /\ DOMAIN s.ops \subseteq Keys /\ \A k \in DOMAIN s.ops : s.ops[k] \in {"started", "refused", "receipt", "absent"}
  /\ s.epoch <= Cardinality(Mutating) /\ s.evidence \in Proofs \cup {None}
  /\ s.inflight \subseteq Steps /\ s.runs \subseteq Verifs /\ s.unknown \subseteq Calls

\* The type invariant: the attempt in memory and on disk, the executor's slot
\* held by a call that runs, and callers in the mutexes.
TypeOK ==
  /\ AttemptOK(st) /\ AttemptOK(saved)
  /\ slot # None => pc[slot][1] \in {"slotted", "entered", "uncertain", "published"}
  /\ done \subseteq Mutating
  /\ exec \in [Calls -> {"none", "started", "known", "unknown", "rejected"}]
  /\ admissions \in Seq(Ops) /\ lifecycle \in Seq(Ops)

\* A started step is in the saved attempt before its handler can run, and stays
\* there through crashes, failed settlements and recovery until its result is
\* known or an independent readback has confirmed it (controller.ts:454 and 580,
\* attempt-recovery.ts:145).
UncertainRemembered ==
  \A s \in Steps : Doubtful(s) => s \in saved.inflight \cup saved.unknown \cup saved.resolved

\* An item is completed on passing evidence that saw every tracked effect, none
\* follows, and no step is in doubt (finish, checkCompletionProof and its fence).
CompletionStands ==
  backend.status = "completed" =>
    /\ backend.coverage.passed
    /\ done \cap Tracked = backend.coverage.saw \cap Tracked
    /\ \A s \in Steps : Doubtful(s) => s \in st.resolved

\* Nor is an operation that the backend has taken, other than the completion itself;
\* what a verification submits later it refuses (finish, checkCompletionProof).
NoUnknownOperation ==
  backend.status = "completed" =>
    \A k \in DOMAIN st.ops : st.ops[k] = "started" => k[1] = "complete" \/ k \notin backend.receipts

\* Whatever replies are lost, and however often it is reconciled, an attempt
\* claims its item at most once (restoreLifecycle).
OneClaim == Cardinality({k \in backend.receipts : k[1] = "open"}) <= 1

\* An attempt ends as its backend says and by an operation of its own; what
\* somebody else did to the item is never adopted (finish, restoreLifecycle).
OwnEnding ==
  \A s \in {st, saved} :
    s.status \in {"completed", "needs_review", "released"} =>
      /\ backend.status = s.status
      /\ \E k \in backend.receipts : k[1] \in DOMAIN Submitted /\ Submitted[k[1]] = s.status

\* What the backend was made to do is what one attempt asked for: one claim, an
\* ending of its own, and no operation in doubt behind a completion.
BackendOperations == OneClaim /\ OwnEnding /\ NoUnknownOperation

\* No handler of a step is entered while another step is in doubt: the observer
\* blocks queued effects before the slot comes free, recovery after a crash
\* (publishUncertainty, AttemptAuthority.policy).
NoEffectPastDoubt ==
  [][\A c \in Steps : At(c, "slotted") /\ pc'[c] = <<"entered">> =>
       \A s \in Steps \ {c} : Doubtful(s) => s \in st.resolved]_vars

\* When shutdown() has returned, and with it the ownership of the journals, this
\* process enters no handler, makes no operation and has no effect, whatever it was
\* called for before; of the attempt it may still write what a call that shutdown()
\* overtook leaves behind: that a verification between its two admissions runs
\* (controller.ts:1165 and 676), and that a call which was admitted but not yet in
\* flight is given up, its policy having refused it (controller.ts:571 and 746).
QuietAfterShutdown ==
  [][pc["shutdown"] = Stopped /\ pc'["shutdown"] = Stopped =>
       /\ done' = done /\ backend'.receipts = backend.receipts
       /\ \A c \in Calls : At(c, "slotted") => pc'[c] # <<"entered">>
       /\ saved' \in {saved, st'}
       /\ \/ st' = st
          \/ \E v \in Verifs : st' \in {[st EXCEPT !.runs = @ \cup {v}], [st EXCEPT !.runs = @ \ {v}]}
          \/ \E s \in Steps : exec[s] = "rejected" /\ st' = [st EXCEPT !.inflight = @ \ {s}]]_vars

\* No two method calls wait for each other's mutex, or for the executor's slot,
\* and no error leaves one waiting for what nobody will give back: some call can
\* always go on (Mutex.run's finally, reconcile, publishUncertainty, fail).
NoCallStuck == (\E o \in Ops : pc[o] \notin {Idle, Over, Stopped}) => ENABLED Goes

\* docs/RUNS.md:107 of the completion gate: "Later writes invalidate that proof."
LaterWritesInvalidate == backend.status = "completed" => done = backend.coverage.saw

\* test-client/run-work-tests.ts:79: "failed renewal stops admissions".
FailedRenewalStopsAdmissions ==
  [][\A s \in Steps : At(s, "checked") /\ st.renewalFailed => pc'[s] # <<"launch">>]_vars
=============================================================================
