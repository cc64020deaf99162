----------------------------- MODULE WorkAttempt -----------------------------
(***************************************************************************)
(* WorkAttemptController of src/framework/work/controller.ts: one attempt  *)
(* at one work item.  Its methods run concurrently in one process and take *)
(* turns through two FIFO mutexes, admissions and lifecycle; each await is *)
(* a point where the others, the backend's world or a crash may intervene, *)
(* so a method is a chain of actions, one per stretch between two awaits.  *)
(* The journal keeps the whole attempt state with every event: `saved`.    *)
(*                                                                         *)
(* The executor is the one ToolExecutor and ToolScheduler specify, reduced *)
(* to: a call waits for the only slot, its start is recorded, its policy   *)
(* decides, the handler runs, the outcome is recorded and observed, and    *)
(* the slot comes free.  WorkRecovery adds reconcile() and crashes.        *)
(***************************************************************************)
EXTENDS Naturals, Sequences, FiniteSets, WorkBackend

CONSTANTS
  Steps,      \* step() calls that may be made
  Mutating,   \* those whose action is not "read"
  Tracked,    \* those whose effect the verification's inputs cover
  Verifs,     \* verify() calls of the one required plan step
  MaxRenews, MaxFinishes, MaxReconciles,  \* bound the other calls
  MaxFaults   \* bounds what goes wrong: lost replies, unsettled calls, lapsed
              \* leases and grants, foreign hands on the item or the workspace

ASSUME WorkAssumption ==
  /\ Mutating \subseteq Steps /\ Tracked \subseteq Mutating /\ IsFiniteSet(Steps)
  /\ Steps \cap Verifs = {} /\ None \notin Steps \cup Verifs
  /\ (Steps \cup Verifs) \cap {"start", "renew", "finish", "reconcile", "shutdown"} = {}

VARIABLES
  st,          \* the attempt state in memory, Absent without an attempt
  saved,       \* the attempt state of the last journal event
  backend,     \* the item at its backend
  exec,        \* execution journal, per call
  proof,       \* evidence a verification call collects
  done,        \* steps whose effect has happened
  edits,       \* edits of the workspace from outside
  slot,        \* the call that holds the executor's reservation
  pc,          \* per method call, where it stands
  admissions,  \* mutex: holder first, then who waits, in order
  lifecycle,
  granted,     \* an execution grant is in force
  approved,    \* a completion grant is in force
  used         \* bounded events that have happened

attempt == <<st, saved>>
world   == <<backend, done, edits>>
calls   == <<exec, proof, slot>>
mutexes == <<admissions, lifecycle>>
env     == <<granted, approved, used>>
vars    == <<attempt, world, calls, pc, mutexes, env>>

Calls == Steps \cup Verifs
Ops   == Calls \cup {"start", "renew", "finish", "reconcile", "shutdown"}

At(o, label) == pc[o][1] = label
Goto(o, to)  == pc' = [pc EXCEPT ![o] = to]
Idle         == <<"idle">>
Over         == <<"over">>
Stopped      == <<"stopped">>
Stopping     == pc["shutdown"] \notin {Idle, Over}
Queue(mutex, o) == Append(mutex, o)
Holds(mutex, o) == mutex # <<>> /\ Head(mutex) = o
Spend(what)     == used' = [used EXCEPT ![what] = @ + 1]
Faulty          == used.fault < MaxFaults

\* After a completion the journal takes nothing more, and who persists throws.
Closed     == saved.status = "completed"
Persist(s) == st' = s /\ saved' = IF Closed THEN saved ELSE s

\* What a subject fingerprint of the workspace sees.
Tree == [wrote |-> done \cap Tracked, edits |-> edits]

Prepared == [status |-> "prepared", epoch |-> 0, evidence |-> None, inflight |-> {},
             runs |-> {}, unknown |-> {}, resolved |-> {}, ops |-> <<>>, lease |-> FALSE, renewalFailed |-> FALSE]
Absent   == [Prepared EXCEPT !.status = "absent"]

\* Operations without a result; "refused": the journal has no such start.
Undecided == {"started", "refused"}
StartedOpsButEvidence(s) == {k \in DOMAIN s.ops : s.ops[k] \in Undecided /\ k[1] # "evidence"}
StartedOps(s) == {k \in DOMAIN s.ops : s.ops[k] \in Undecided}
Draining(s)   == s.inflight # {} \/ s.runs # {} \/ s.unknown # {}
Inflight      == {c \in Calls : pc[c][1] \in {"queued", "slotted", "entered", "uncertain", "published"}}
Working       == {"running", "verifying"}

\* A call whose handler may have run without a result anybody knows: its result
\* is unknown, or the execution journal did not take it.
Doubtful(c) == exec[c] \in {"started", "unknown"}

\* AttemptAuthority.fresh: the item is in one of these states and ours.
Fresh(states) == backend.status \in states /\ st.lease /\ Owned(backend)
Active        == Fresh({"running", "completed"})

\* Nobody makes the calls of `never`; `renews` renewals are used up.
InitWith(never, renews) ==
  /\ st = Absent /\ saved = Absent
  /\ backend = Untouched /\ done = {} /\ edits = 0
  /\ exec = [c \in Calls |-> "none"] /\ proof = [v \in Verifs |-> None] /\ slot = None
  /\ pc = [o \in Ops |-> IF o \in never THEN Over ELSE Idle]
  /\ admissions = <<>> /\ lifecycle = <<>>
  /\ granted = TRUE /\ approved \in BOOLEAN
  /\ used = [renew |-> renews, finish |-> 0, reconcile |-> 0, fault |-> 0, crash |-> 0]
Init == InitWith({"shutdown"}, 0)

-----------------------------------------------------------------------------
(* backendOperation: record the operation, dispatch it, record its receipt *)
(* or that its outcome is unknown.                                         *)

\* The key of the next operation of a kind.
NextKey(kind) == <<kind, Cardinality({k \in DOMAIN st.ops : k[1] = kind}) + 1>>
WithOp(s, key, status) ==
  [s EXCEPT !.ops = [k \in DOMAIN s.ops \cup {key} |-> IF k = key THEN status ELSE s.ops[k]]]

\* Whoever waits is next.
Left(mutex, o) == IF Holds(mutex, o) THEN Tail(mutex) ELSE mutex
Return(o) == admissions' = Left(admissions, o) /\ lifecycle' = Left(lifecycle, o)

\* A method throws without a change of state.
Throw(o) == Return(o) /\ Goto(o, IF o \in Calls THEN Over ELSE Idle) /\ UNCHANGED attempt

Intend(o, s, key) ==
  Persist(WithOp(s, key, "started")) /\ Goto(o, <<"dispatch", key>>) /\ UNCHANGED mutexes

Begin(o, s, key) ==
  \/ ~Stopping /\ Intend(o, s, key)
  \/ Stopping /\ Throw(o)

EvidenceOf(key) == IF key[1] = "evidence" THEN proof[key[2]] ELSE None

\* checkCompletionProof, its synchronous part: what it calls the subjects.
SubjectsAtEpoch   == st.evidence.epoch = st.epoch
SubjectsUnchanged == st.evidence.tree = Tree /\ st.evidence.epoch = st.epoch

\* What is rechecked where renew() and finish() dispatch.
Fence(key) ==
  /\ key[1] \in {"heartbeat", "complete", "review"} => granted
  /\ key[1] \in {"complete", "review"} => ~Stopping
  /\ key[1] = "complete" => approved /\ SubjectsUnchanged

\* The item after the backend took an operation, or recognised its key.
Taken(key) ==
  IF key \in backend.receipts THEN {backend}
  ELSE IF Legal(backend, key[1]) THEN {After(backend, key, EvidenceOf(key))} ELSE {}

\* The backend takes the operation; its reply may be lost.
Dispatch(o) ==
  /\ At(o, "dispatch")
  /\ LET key == pc[o][2] IN
     \/ /\ Fence(key)
        /\ backend' \in Taken(key)
        /\ \/ Goto(o, <<"answered", key>>) /\ UNCHANGED used
           \/ Faulty /\ Spend("fault") /\ Goto(o, <<"failed", key>>)
     \/ /\ Fence(key) => Taken(key) = {}
        /\ Goto(o, <<"failed", key>>) /\ UNCHANGED <<backend, used>>
     \/ Faulty /\ Spend("fault") /\ Goto(o, <<"failed", key>>) /\ UNCHANGED backend
  /\ UNCHANGED <<attempt, done, edits, calls, mutexes, granted, approved>>

Receipted(key) ==
  [WithOp(st, key, "receipt") EXCEPT !.lease = @ \/ key[1] = "open"]

FailsInside(o) ==
  /\ At(o, "failed")
  /\ Persist([st EXCEPT !.status = "reconciliation_required",
                        !.renewalFailed = @ \/ o = "renew"])
  /\ Goto(o, IF o \in Calls THEN Over ELSE Idle)
  /\ UNCHANGED <<world, calls, mutexes, env>>

\* The catch block, and renew's; the caller gets the error.
Fails(o) ==
  /\ At(o, "failed")
  /\ Persist([st EXCEPT !.status = "reconciliation_required",
                        !.renewalFailed = @ \/ o = "renew"])
  /\ Return(o)
  /\ Goto(o, IF o \in Calls THEN Over ELSE Idle)
  /\ UNCHANGED <<world, calls, env>>

-----------------------------------------------------------------------------
(* start(): admissions, then lifecycle within it.                          *)

CallStart ==
  /\ At("start", "idle") /\ st = Absent
  /\ admissions' = Queue(admissions, "start") /\ Goto("start", <<"admission">>)
  /\ UNCHANGED <<attempt, world, calls, lifecycle, env>>

Prepare ==
  /\ At("start", "admission") /\ Holds(admissions, "start")
  /\ \/ /\ Claimable(backend) /\ granted /\ ~Stopping
        /\ st' = [Prepared EXCEPT !.status = "claiming"] /\ saved' = Prepared
        /\ lifecycle' = Queue(lifecycle, "start") /\ Goto("start", <<"claim">>)
        /\ UNCHANGED admissions
     \/ ~(Claimable(backend) /\ granted /\ ~Stopping) /\ Throw("start")
  /\ UNCHANGED <<world, calls, env>>

Claim ==
  /\ At("start", "claim") /\ Holds(lifecycle, "start")
  /\ Begin("start", st, NextKey("open"))
  /\ UNCHANGED <<world, calls, env>>

Claimed ==
  /\ At("start", "answered") /\ pc["start"][2][1] = "open"
  /\ Persist(Receipted(pc["start"][2])) /\ Goto("start", <<"claimed">>)
  /\ UNCHANGED <<world, calls, mutexes, env>>

Starting ==
  /\ At("start", "claimed")
  /\ \/ Fresh({"claimed"}) /\ granted /\ Begin("start", st, NextKey("start"))
     \/ ~(Fresh({"claimed"}) /\ granted) /\ Throw("start")
  /\ UNCHANGED <<world, calls, env>>

Started ==
  /\ At("start", "answered") /\ pc["start"][2][1] = "start"
  /\ Persist(Receipted(pc["start"][2])) /\ Goto("start", <<"started">>)
  /\ UNCHANGED <<world, calls, mutexes, env>>

Running ==
  /\ At("start", "started")
  /\ Persist([st EXCEPT !.status = "running"]) /\ Return("start") /\ Goto("start", Idle)
  /\ UNCHANGED <<world, calls, env>>

-----------------------------------------------------------------------------
(* step(): admission, the executor, settlement.                            *)

CallStep(s) ==
  /\ s \in Steps /\ At(s, "idle") /\ st # Absent /\ ~Stopping
  /\ admissions' = Queue(admissions, s) /\ Goto(s, <<"admission">>)
  /\ UNCHANGED <<attempt, world, calls, lifecycle, env>>

\* Up to the reservations: state, freeze, grant, fresh lease.
Admissible(s) ==
  /\ ~Stopping /\ st.status \in Working
  /\ st.status = "verifying" => st.inflight = {} /\ (s \in Mutating => Inflight = {})
  /\ granted /\ Active /\ ~st.renewalFailed

CheckStep(s) ==
  /\ At(s, "admission") /\ Holds(admissions, s)
  /\ \/ Admissible(s) /\ UNCHANGED <<attempt, mutexes>> /\ Goto(s, <<"checked">>)
     \/ ~Admissible(s) /\ Throw(s)
  /\ UNCHANGED <<world, calls, env>>

\* After the reservations: count, invalidate, record the intent, execute.
AdmitStep(s) ==
  /\ At(s, "checked")
  /\ \/ /\ granted /\ ~Stopping
        /\ Persist([st EXCEPT
             !.inflight = @ \cup {s},
             !.epoch    = IF s \in Mutating THEN @ + 1 ELSE @,
             !.evidence = IF s \in Mutating THEN None ELSE @,
             !.status   = IF s \in Mutating THEN "running" ELSE @])
        /\ Return(s) /\ Goto(s, <<"launch">>)
     \/ ~(granted /\ ~Stopping) /\ Throw(s)
  /\ UNCHANGED <<world, calls, env>>

\* The mutex wakes who waits for it before it returns to its caller, and only the
\* caller counts the call as in flight; so who is next does not see it yet.
Launch(c) ==
  /\ At(c, "launch") /\ Goto(c, <<"queued">>)
  /\ UNCHANGED <<attempt, world, calls, mutexes, env>>

\* Seen by who has awaited another mutex since.
Launched == \A c \in Calls : ~At(c, "launch")

\* The policies of steps and verifications, as they stand before the handler.
AcceptedOnGrant(c) == granted /\ Fresh({"running"})
AcceptedWhileStopping(c) ==
  /\ st.status \in Working /\ st.unknown = {} /\ ~st.renewalFailed
  /\ granted /\ Fresh({"running"})
Accepted(c) ==
  /\ ~Stopping /\ st.status \in Working /\ st.unknown = {} /\ ~st.renewalFailed
  /\ granted /\ Fresh({"running"})

\* The reservation when a call gives up its own.
FreedByNobody(c) == slot
Freed(c) == IF slot = c THEN None ELSE slot

\* The slot is taken and the start of the call recorded.
TakeSlot(c) ==
  /\ At(c, "queued") /\ slot = None
  /\ slot' = c /\ exec' = [exec EXCEPT ![c] = "started"] /\ Goto(c, <<"slotted">>)
  /\ UNCHANGED <<attempt, world, proof, mutexes, env>>

Denied(c) ==
  /\ At(c, "queued") \/ At(c, "slotted")
  /\ ~Accepted(c)
  /\ slot' = Freed(c)
  /\ exec' = [exec EXCEPT ![c] = "rejected"]
  /\ IF c \in Steps
     THEN admissions' = Queue(admissions, c) /\ Goto(c, <<"settle">>) /\ UNCHANGED attempt
     ELSE \* verify() gives its run up without the mutex
          Persist([st EXCEPT !.runs = @ \ {c}]) /\ Goto(c, Over) /\ UNCHANGED admissions
  /\ UNCHANGED <<world, proof, lifecycle, env>>

Enter(c) ==
  /\ At(c, "slotted") /\ Accepted(c)
  /\ Goto(c, <<"entered">>)
  /\ proof' = IF c \in Steps THEN proof
              ELSE [proof EXCEPT ![c] = [id |-> c, epoch |-> st.epoch, tree |-> Tree,
                                         saw |-> done, passed |-> FALSE]]
  /\ UNCHANGED <<attempt, world, exec, slot, mutexes, env>>

Effect(s) ==
  /\ s \in Mutating /\ At(s, "entered") /\ s \notin done
  /\ done' = done \cup {s}
  /\ UNCHANGED <<attempt, backend, edits, calls, pc, mutexes, env>>

\* A known outcome is stored; the slot comes free.
Settle(c) ==
  /\ At(c, "entered")
  /\ exec' = [exec EXCEPT ![c] = "known"] /\ slot' = Freed(c)
  /\ admissions' = Queue(admissions, c)
  /\ IF c \in Steps
     THEN Goto(c, <<"settle">>) /\ UNCHANGED proof
     ELSE /\ Goto(c, <<"store">>)
          /\ \E ok \in BOOLEAN :
               proof' = [proof EXCEPT ![c].passed =
                           ok /\ proof[c].epoch = st.epoch /\ proof[c].tree = Tree]
  /\ UNCHANGED <<attempt, world, lifecycle, env>>

\* An unknown outcome, which the journal may or may not have taken: step()'s
\* observer publishes it before the slot comes free.
UncertainStep(s) ==
  /\ s \in Steps /\ At(s, "entered") /\ Faulty /\ Spend("fault")
  /\ exec' \in {[exec EXCEPT ![s] = "unknown"], exec}
  /\ admissions' = Queue(admissions, s) /\ Goto(s, <<"uncertain">>)
  /\ UNCHANGED <<attempt, world, proof, slot, lifecycle, granted, approved>>

\* verify() has no observer.
UncertainRun(v) ==
  /\ v \in Verifs /\ At(v, "entered") /\ Faulty /\ Spend("fault")
  /\ slot' = Freed(v) /\ exec' \in {[exec EXCEPT ![v] = "unknown"], exec}
  /\ admissions' = Queue(admissions, v) /\ Goto(v, <<"doubt">>)
  /\ UNCHANGED <<attempt, world, proof, lifecycle, granted, approved>>

\* publishUncertainty, while the call still has the slot.
Publish(s) ==
  /\ s \in Steps /\ At(s, "uncertain") /\ Holds(admissions, s)
  /\ Persist([st EXCEPT !.status = "reconciliation_required", !.unknown = @ \cup {s}])
  /\ admissions' = Tail(admissions) /\ Goto(s, <<"published">>)
  /\ UNCHANGED <<world, calls, lifecycle, env>>

\* The executor answers that the outcome is unknown, be it stored or not.
Published(s) ==
  /\ s \in Steps /\ At(s, "published")
  /\ slot' = Freed(s) /\ admissions' = Queue(admissions, s) /\ Goto(s, <<"settle">>)
  /\ UNCHANGED <<attempt, world, exec, proof, lifecycle, env>>

SettleStep(s) ==
  /\ s \in Steps /\ At(s, "settle") /\ Holds(admissions, s)
  /\ Persist([st EXCEPT !.inflight = @ \ {s},
                        !.status  = IF Doubtful(s) THEN "reconciliation_required" ELSE @,
                        !.unknown = IF Doubtful(s) THEN @ \cup {s} ELSE @])
  /\ Return(s) /\ Goto(s, Over)
  /\ UNCHANGED <<world, calls, env>>

-----------------------------------------------------------------------------
(* verify(): two admissions, the executor, the evidence, its submission.   *)

CallVerify(v) ==
  /\ v \in Verifs /\ At(v, "idle") /\ st # Absent /\ ~Stopping
  /\ admissions' = Queue(admissions, v) /\ Goto(v, <<"admission">>)
  /\ UNCHANGED <<attempt, world, calls, lifecycle, env>>

Drained == ~Stopping /\ st.status \in Working /\ st.inflight = {} /\ st.unknown = {} /\ Inflight = {}

CheckVerify(v) ==
  /\ v \in Verifs /\ At(v, "admission") /\ Holds(admissions, v)
  /\ \/ Drained /\ UNCHANGED <<attempt, mutexes>> /\ Goto(v, <<"checked">>)
     \/ ~Drained /\ Throw(v)
  /\ UNCHANGED <<world, calls, env>>

\* Grant and lease are current: the intent, and the way to the second admission.
AdmitVerify(v) ==
  /\ v \in Verifs /\ At(v, "checked")
  /\ \/ /\ granted /\ Active
        /\ Persist([st EXCEPT !.status = "verifying"])
        /\ admissions' = Queue(Tail(admissions), v) /\ Goto(v, <<"register">>) /\ UNCHANGED lifecycle
     \/ ~(granted /\ Active) /\ Throw(v)
  /\ UNCHANGED <<world, calls, env>>

RegisterRun(v) ==
  /\ At(v, "register") /\ Holds(admissions, v)
  /\ Return(v)
  /\ \/ /\ granted /\ Persist([st EXCEPT !.runs = @ \cup {v}])
        /\ Goto(v, IF Closed THEN Over ELSE <<"launch">>)
     \/ ~granted /\ UNCHANGED attempt /\ Goto(v, Over)
  /\ UNCHANGED <<world, calls, env>>

StoreEvidence(v) ==
  /\ At(v, "store") /\ Holds(admissions, v)
  /\ Persist([st EXCEPT !.evidence = proof[v] , !.runs = @ \ {v}])
  /\ Return(v) /\ Goto(v, IF Closed THEN Over ELSE <<"stored">>)
  /\ UNCHANGED <<world, calls, env>>

\* finish() may have been woken and be ahead.
AwaitSubmit(v) ==
  /\ At(v, "stored")
  /\ lifecycle' = Queue(lifecycle, v) /\ Goto(v, <<"submit">>)
  /\ UNCHANGED <<attempt, world, calls, admissions, env>>

DoubtRun(v) ==
  /\ At(v, "doubt") /\ Holds(admissions, v)
  /\ Persist([st EXCEPT !.status = "reconciliation_required", !.unknown = @ \cup {v}])
  /\ Return(v) /\ Goto(v, Over)
  /\ UNCHANGED <<world, calls, env>>

\* The journal refuses an operation it knows: reconcile() was faster.
Submit(v) ==
  /\ At(v, "submit") /\ Holds(lifecycle, v)
  /\ LET key == <<"evidence", v>> IN
     \/ granted /\ Active /\ key \notin DOMAIN st.ops /\ Begin(v, st, key)
     \/ /\ granted /\ Active /\ key \in DOMAIN st.ops /\ ~Stopping
        /\ st' = WithOp(st, key, "refused") /\ UNCHANGED saved /\ Return(v) /\ Goto(v, Over)
     \/ (~(granted /\ Active) \/ (key \in DOMAIN st.ops /\ Stopping)) /\ Throw(v)
  /\ UNCHANGED <<world, calls, env>>

SubmittedEvidence(v) ==
  /\ v \in Verifs /\ At(v, "answered")
  /\ Persist(Receipted(pc[v][2])) /\ Return(v) /\ Goto(v, Over)
  /\ UNCHANGED <<world, calls, env>>

-----------------------------------------------------------------------------
(* renew(): lifecycle only.                                                *)

CallRenew ==
  /\ At("renew", "idle") /\ st # Absent /\ used.renew < MaxRenews /\ Spend("renew")
  /\ StartedOps(st) \cap ({"heartbeat"} \X Nat) = {}   \* its timer is stopped
  /\ lifecycle' = Queue(lifecycle, "renew") /\ Goto("renew", <<"lifecycle">>)
  /\ UNCHANGED <<attempt, world, calls, admissions, granted, approved>>

CheckRenew ==
  /\ At("renew", "lifecycle") /\ Holds(lifecycle, "renew")
  /\ IF st.status \in Working /\ ~Stopping
     THEN Goto("renew", <<"checked">>) /\ UNCHANGED <<attempt, mutexes>>
     ELSE Throw("renew")
  /\ UNCHANGED <<world, calls, env>>

\* The grant and the lease are read; the heartbeat, or renewal has failed.
Heartbeat ==
  /\ At("renew", "checked")
  /\ \/ granted /\ Active /\ Intend("renew", st, NextKey("heartbeat"))
     \/ ~(granted /\ Active) /\ Goto("renew", <<"failed", None>>) /\ UNCHANGED <<attempt, mutexes>>
  /\ UNCHANGED <<world, calls, env>>

Renewed ==
  /\ At("renew", "answered")
  /\ Persist(Receipted(pc["renew"][2])) /\ Return("renew") /\ Goto("renew", Idle)
  /\ UNCHANGED <<world, calls, env>>

-----------------------------------------------------------------------------
(* finish(): both mutexes.                                                 *)

CallFinish ==
  /\ At("finish", "idle") /\ st # Absent /\ used.finish < MaxFinishes /\ Spend("finish")
  /\ admissions' = Queue(admissions, "finish") /\ Goto("finish", <<"admission">>)
  /\ UNCHANGED <<attempt, world, calls, lifecycle, granted, approved>>

\* The inner mutex of finish() and reconcile().
Nest(o) ==
  /\ o \in {"finish", "reconcile"} /\ At(o, "admission") /\ Holds(admissions, o)
  /\ lifecycle' = Queue(lifecycle, o) /\ Goto(o, <<"lifecycle">>)
  /\ UNCHANGED <<attempt, world, calls, admissions, env>>

\* Which disposition may be finalized now.
Finalizable(disposition) ==
  /\ ~Stopping /\ st.status \in Working \cup (IF disposition = "release" THEN {"blocked", "reconciliation_required"} ELSE {})
  /\ Inflight = {} /\ ~Draining(st) /\ StartedOps(st) = {}
  /\ granted
  /\ IF disposition = "release" THEN st.lease /\ backend.held ELSE Active

Finalize ==
  /\ At("finish", "lifecycle") /\ Holds(lifecycle, "finish") /\ Launched
  /\ \E disposition \in {"complete", "review", "release"} :
       \/ /\ Finalizable(disposition)
          /\ Persist([st EXCEPT !.status = "finalizing"])
          /\ Goto("finish", <<"finalizing", disposition>>) /\ UNCHANGED mutexes
       \/ ~Finalizable(disposition) /\ Throw("finish")
  /\ UNCHANGED <<world, calls, env>>

\* checkProof(): the completion grant, the lease and the current evidence.
Proven ==
  /\ approved /\ Active /\ ~Draining(st)
  /\ \A k \in StartedOps(st) : k[1] = "complete"
  /\ st.evidence # None /\ st.evidence.passed /\ backend.coverage = st.evidence
  /\ SubjectsUnchanged

\* A completion without proof becomes a review.
Dispose ==
  /\ At("finish", "finalizing")
  /\ LET asked == pc["finish"][2]
         kind  == IF asked = "complete" /\ ~Proven THEN "review" ELSE asked
     IN Begin("finish", st, NextKey(kind))
  /\ UNCHANGED <<world, calls, env>>

Disposed ==
  /\ At("finish", "answered")
  /\ Persist(Receipted(pc["finish"][2])) /\ Goto("finish", <<"readback", pc["finish"][2]>>)
  /\ UNCHANGED <<world, calls, mutexes, env>>

\* The item is read back, and a completion proved once more.
Readback ==
  /\ At("finish", "readback")
  /\ LET kind     == pc["finish"][2][1]
         expected == Submitted[kind]
         assured  == backend.status = expected /\ (kind = "complete" => Proven)
     IN Persist([st EXCEPT !.status = IF assured THEN expected ELSE "reconciliation_required"])
  /\ Return("finish") /\ Goto("finish", Idle)
  /\ UNCHANGED <<world, calls, env>>

-----------------------------------------------------------------------------
(* shutdown(): no more admissions, then what is in flight, then each mutex  *)
(* once; then the ownership of the journals is given up.                   *)

CallShutdown ==
  /\ At("shutdown", "idle") /\ Goto("shutdown", <<"drain", Inflight>>)
  /\ UNCHANGED <<attempt, world, calls, mutexes, env>>

DrainCalls ==
  /\ At("shutdown", "drain") /\ pc["shutdown"][2] \cap Inflight = {}
  /\ admissions' = Queue(admissions, "shutdown") /\ Goto("shutdown", <<"admission">>)
  /\ UNCHANGED <<attempt, world, calls, lifecycle, env>>

\* Seeded fault: the lifecycle is not waited for.
DrainAdmissionsOnly ==
  /\ At("shutdown", "admission") /\ Holds(admissions, "shutdown")
  /\ admissions' = Tail(admissions) /\ Goto("shutdown", Stopped)
  /\ UNCHANGED <<attempt, world, calls, lifecycle, env>>

DrainAdmissions ==
  /\ At("shutdown", "admission") /\ Holds(admissions, "shutdown")
  /\ admissions' = Tail(admissions) /\ Goto("shutdown", <<"admitted">>)
  /\ UNCHANGED <<attempt, world, calls, lifecycle, env>>

AwaitLifecycle ==
  /\ At("shutdown", "admitted")
  /\ lifecycle' = Queue(lifecycle, "shutdown") /\ Goto("shutdown", <<"lifecycle">>)
  /\ UNCHANGED <<attempt, world, calls, admissions, env>>

GiveUp ==
  /\ At("shutdown", "lifecycle") /\ Holds(lifecycle, "shutdown")
  /\ lifecycle' = Tail(lifecycle) /\ Goto("shutdown", Stopped)
  /\ UNCHANGED <<attempt, world, calls, admissions, env>>

-----------------------------------------------------------------------------
(* What happens around the controller.                                     *)

Expire ==
  /\ Faulty /\ Spend("fault") /\ backend.live /\ backend' = [backend EXCEPT !.live = FALSE]
  /\ UNCHANGED <<attempt, done, edits, calls, pc, mutexes, granted, approved>>

\* Somebody else settles or takes over the item at its backend.
Foreign ==
  /\ Faulty /\ Spend("fault") /\ backend.status \in {"claimed", "running"}
  /\ backend' \in {[backend EXCEPT !.status = "needs_review"],
                   [backend EXCEPT !.status = "released", !.held = FALSE, !.live = FALSE]}
  /\ UNCHANGED <<attempt, done, edits, calls, pc, mutexes, granted, approved>>

Revoke ==
  /\ Faulty /\ Spend("fault")
  /\ \/ granted /\ granted' = FALSE /\ approved' = FALSE
     \/ approved /\ approved' = FALSE /\ UNCHANGED granted
  /\ UNCHANGED <<attempt, world, calls, pc, mutexes>>

Edit ==
  /\ Faulty /\ Spend("fault") /\ edits' = edits + 1
  /\ UNCHANGED <<attempt, backend, done, calls, pc, mutexes, granted, approved>>

\* What continues a call that was made.
Backend(o)   == Dispatch(o) \/ Fails(o)
Execute(c)   == Launch(c) \/ TakeSlot(c) \/ Denied(c) \/ Enter(c) \/ Settle(c)
StartGoes    == Prepare \/ Claim \/ Claimed \/ Starting \/ Started \/ Running \/ Backend("start")
StepGoes(s)  == CheckStep(s) \/ AdmitStep(s) \/ Execute(s) \/ UncertainStep(s) \/ Publish(s)
                   \/ Published(s) \/ SettleStep(s)
VerifyGoes(v) == CheckVerify(v) \/ AdmitVerify(v) \/ RegisterRun(v) \/ Execute(v) \/ UncertainRun(v) \/ DoubtRun(v)
                   \/ StoreEvidence(v) \/ AwaitSubmit(v) \/ Submit(v) \/ SubmittedEvidence(v) \/ Backend(v)
RenewGoes    == CheckRenew \/ Heartbeat \/ Renewed \/ Backend("renew")
FinishGoes   == Nest("finish") \/ Finalize \/ Dispose \/ Disposed \/ Readback \/ Backend("finish")
ShutdownGoes == DrainCalls \/ DrainAdmissions \/ AwaitLifecycle \/ GiveUp

Controller ==
  \/ CallShutdown \/ ShutdownGoes
  \/ CallStart \/ StartGoes \/ CallRenew \/ RenewGoes \/ CallFinish \/ FinishGoes
  \/ \E s \in Steps : CallStep(s) \/ StepGoes(s) \/ Effect(s)
  \/ \E v \in Verifs : CallVerify(v) \/ VerifyGoes(v)
Environment == Expire \/ Foreign \/ Revoke \/ Edit
=============================================================================
