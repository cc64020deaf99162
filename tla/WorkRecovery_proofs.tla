-------------------------- MODULE WorkRecovery_proofs --------------------------
(***************************************************************************)
(* What an attempt may have done is remembered, and what it is completed on   *)
(* stands, whatever fails, is lost or dies - for any steps, verifications and *)
(* bounds.                                                                   *)
(*                                                                         *)
(* Four things carry it.  Exclusive: whoever is past a queue has the mutex,   *)
(* so that what was checked there still holds when it is used.  Remembered: a *)
(* step that is on its way to a handler, or in doubt, is on record, in memory *)
(* and on disk.  Ended: nothing that could put a completed item back to work  *)
(* is under way.  Recovered: whoever may put the attempt to work has seen the *)
(* steps that a crash left behind.                                           *)
(*                                                                         *)
(* On these rests what the backend was made to do: the record of every         *)
(* operation tells what became of it (Ledger), what the backend took is in      *)
(* order (Orderly), and an operation under way is its method's alone.          *)
(* And shutdown() leaves nobody running: who ran is waited for (Awaited), who    *)
(* settles is ahead of it in the queue (InLine) or was refused its handler      *)
(* (Late), and nobody else comes past a mutex any more (Past).                *)
(***************************************************************************)
EXTENDS WorkRecovery, SequenceTheorems, FiniteSetTheorems, TLAPS

(* Whichever calls are never made and renewals used up: the runs' Inits too.   *)
AnyInit == \E never \in SUBSET Ops, renews \in Nat : InitWith(never, renews)
AnySpec == AnyInit /\ [][Next]_vars

Fields ==
  {"status", "epoch", "evidence", "inflight", "runs", "unknown", "resolved", "ops", "lease", "renewalFailed"}
Shapes ==
  /\ DOMAIN pc = Ops /\ DOMAIN exec = Calls /\ DOMAIN proof = Verifs
  /\ admissions \in Seq(Ops) /\ lifecycle \in Seq(Ops)
  /\ DOMAIN st = Fields /\ DOMAIN saved = Fields
  /\ DOMAIN backend = {"status", "held", "live", "coverage", "receipts"}

-----------------------------------------------------------------------------
(* Who has a mutex.                                                          *)
Outside == {"idle", "over", "admission"}
InAdmissions(o) ==
  \/ o \in Calls /\ At(o, "checked")
  \/ o \in {"start", "finish", "reconcile"} /\ pc[o][1] \notin Outside
InLifecycle(o) ==
  \/ o \in Verifs /\ pc[o][1] \in {"dispatch", "answered", "failed"}
  \/ o = "start" /\ pc[o][1] \notin Outside \cup {"claim"}
  \/ o \in {"finish", "reconcile"} /\ pc[o][1] \notin Outside \cup {"lifecycle"}
  \/ o = "renew" /\ pc[o][1] \notin {"idle", "over", "lifecycle"}
Exclusive ==
  \A o \in Ops :
    /\ InAdmissions(o) => Holds(admissions, o)
    /\ InLifecycle(o) => Holds(lifecycle, o)

(* Which operations a method is in the middle of.                            *)
Kinds(o) ==
  CASE o = "start" -> {"open", "start"}
    [] o = "renew" -> {"heartbeat"}
    [] o = "finish" -> {"complete", "review", "release"}
    [] o = "reconcile" -> {"open", "start", "evidence"}
    [] OTHER -> {"evidence"}
KeyedAt(o) ==
  /\ pc[o][1] \in {"dispatch", "answered", "readback"} =>
       /\ pc[o][2][1] \in Kinds(o)
       /\ pc[o][2][1] = "evidence" => pc[o][2][2] \in Verifs
  /\ o = "finish" /\ At(o, "finalizing") => pc[o][2] \in Kinds(o)
Keyed == \A o \in Ops : KeyedAt(o)

(* Before start() there is no attempt, and nothing is called on it.           *)
Begins ==
  /\ At("start", "admission") => st.status = "absent"
  /\ st.status = "absent" => saved.status = "absent"
  /\ saved.status = "absent" =>
       /\ st = Absent /\ saved = Absent
       /\ pc["start"][1] \in Outside
       /\ \A o \in Ops \ {"start", "shutdown"} : pc[o][1] \in {"idle", "over"}

-----------------------------------------------------------------------------
Busy == {"launch", "queued", "slotted", "entered", "uncertain", "published"}
Noted(s) == s.inflight \cup s.unknown \cup s.resolved
Remembered ==
  \A s \in Steps :
    /\ Doubtful(s) \/ pc[s][1] \in Busy => s \in Noted(st) /\ s \in Noted(saved)
    /\ At(s, "published") => s \in st.unknown \cup st.resolved

(* Whose next steps put the attempt to work.                                  *)
Resuming(o) ==
  \/ o \in Calls /\ At(o, "checked")
  \/ o = "start" /\ pc[o][1] \notin Outside
  \/ o = "reconcile" /\ pc[o][1] \in {"dispatch", "answered", "confirm", "covered"}
Ended ==
  /\ "completed" \in {st.status, saved.status} => backend.status = "completed"
  /\ backend.status = "completed" =>
       /\ st.status \notin Working /\ saved.status \notin Working
       /\ \A o \in Ops : ~Resuming(o)
       /\ \A s \in Steps : pc[s][1] \notin Busy
  /\ st.resolved = saved.resolved

(* finish() has found nothing under way, and keeps it so.                     *)
Finalizing ==
  /\ pc["finish"][1] \in {"finalizing", "dispatch", "answered", "failed", "readback"} =>
       st.status \notin Working /\ saved.status \notin Working
  /\ pc["finish"][1] \in {"finalizing", "dispatch"} =>
       (\A c \in Calls : pc[c][1] \notin Busy) /\ st.inflight = {} /\ st.unknown = {}
  /\ At("finish", "dispatch") /\ pc["finish"][2][1] = "complete" => backend.coverage = st.evidence

(* Evidence says what the tracked effects were.                               *)
Seen(p)  == p.id \in Verifs /\ p.tree.wrote = p.saw \cap Tracked
Evidenced ==
  /\ \A p \in {st.evidence, saved.evidence, backend.coverage} : p # None => Seen(p)
  /\ \A v \in Verifs :
       /\ proof[v] # None => Seen(proof[v])
       /\ At(v, "entered") => Seen(proof[v]) /\ DOMAIN proof[v] = {"id", "epoch", "tree", "saw", "passed"}
  /\ st.runs \subseteq Verifs /\ saved.runs \subseteq Verifs

(* A step in doubt that nobody is to publish.                                 *)
Slotted == {"slotted", "entered", "uncertain", "published"}
Lost(s) == Doubtful(s) /\ pc[s][1] \notin Slotted /\ s \notin st.unknown \cup st.resolved
Recovered ==
  /\ \A c \in Calls : pc[c][1] \in Slotted => slot = c
  /\ st.status \in Working \/ (\E o \in Ops : Resuming(o)) => \A s \in Steps : ~Lost(s)

IInv ==
  /\ Shapes /\ Exclusive /\ Keyed /\ Begins /\ Remembered /\ Ended /\ Finalizing
  /\ Evidenced /\ CompletionStands /\ Recovered

-----------------------------------------------------------------------------
(* Queues: who waits does not disturb the holder, and who leaves is the holder. *)
LEMMA QueueIs ==
  ASSUME NEW m \in Seq(Ops), NEW o \in Ops
  PROVE  /\ Queue(m, o) \in Seq(Ops) /\ Left(m, o) \in Seq(Ops)
         /\ \A q \in Ops : Holds(m, q) => Holds(Queue(m, o), q)
         /\ \A q \in Ops : q # o /\ Holds(m, q) => Left(m, o) = m
         /\ Holds(m, o) => /\ Tail(m) \in Seq(Ops) /\ Queue(Tail(m), o) \in Seq(Ops)
                           /\ Left(m, o) = Tail(m)
                           /\ \A q \in Ops : Holds(m, q) => q = o
<1>1. Append(m, o) \in Seq(Ops) /\ (m # <<>> => Append(m, o) # <<>> /\ Head(Append(m, o)) = Head(m))
  BY AppendProperties
<1>2. m # <<>> => Tail(m) \in Seq(Ops)
  BY HeadTailProperties
<1>3. m # <<>> => Append(Tail(m), o) \in Seq(Ops)
  BY <1>2, AppendProperties
<1> QED BY <1>1, <1>2, <1>3 DEF Queue, Left, Holds

(* What a step of method o does to the mutexes and to its own place.           *)
Placed(o) ==
  /\ DOMAIN pc' = Ops /\ \A q \in Ops \ {o} : pc'[q] = pc[q]
  /\ admissions' \in Seq(Ops) /\ lifecycle' \in Seq(Ops)
  /\ \A q \in Ops \ {o} : /\ Holds(admissions, q) => Holds(admissions', q)
                          /\ Holds(lifecycle, q) => Holds(lifecycle', q)
  /\ InAdmissions(o)' => Holds(admissions', o)
  /\ InLifecycle(o)' => Holds(lifecycle', o)
  /\ KeyedAt(o)'

LEMMA PlacedKeeps ==
  ASSUME Shapes, Exclusive, Keyed, NEW o \in Ops, Placed(o)
  PROVE  Exclusive' /\ Keyed'
<1>1. ASSUME NEW q \in Ops PROVE (InAdmissions(q) => Holds(admissions, q))' /\ (InLifecycle(q) => Holds(lifecycle, q))'
                                 /\ KeyedAt(q)'
  <2>1. CASE q = o
    BY <2>1 DEF Placed, Holds
  <2>2. CASE q # o
    <3>1. pc'[q] = pc[q]
      BY <2>2 DEF Placed
    <3>2. (InAdmissions(q)' <=> InAdmissions(q)) /\ (InLifecycle(q)' <=> InLifecycle(q)) /\ (KeyedAt(q)' <=> KeyedAt(q))
      BY <3>1 DEF InAdmissions, InLifecycle, KeyedAt, At
    <3> QED BY <2>2, <3>2 DEF Placed, Exclusive, Keyed, Holds
  <2> QED BY <2>1, <2>2
<1> QED BY <1>1 DEF Exclusive, Keyed

-----------------------------------------------------------------------------
(* A step of a method that keeps of the attempt what it owes.                  *)
NoneLost == \A s \in Steps : ~Lost(s)
Saves(o) ==
  /\ DOMAIN st' = Fields /\ (saved' = saved \/ saved' = st')
  /\ st'.status # "absent" /\ (st'.status = "completed" => backend.status = "completed")
  /\ st'.status \in Working => st.status \in Working \/ Resuming(o)
  /\ \A s \in Steps : s \in Noted(st) /\ (Doubtful(s) \/ pc[s][1] \in Busy) => s \in Noted(st')
  /\ st.unknown \cup st.resolved \subseteq st'.unknown \cup st'.resolved
  /\ st'.resolved = st.resolved \/ (st.resolved \subseteq st'.resolved /\ saved' = st')
  /\ (st'.evidence # None => Seen(st'.evidence)) /\ st'.runs \subseteq Verifs
Leaves(o) ==
  /\ st'.inflight \subseteq st.inflight /\ st'.unknown \subseteq st.unknown /\ st'.evidence = st.evidence
  /\ o \in Calls => pc'[o][1] \notin {"launch", "queued"}
MethodStep(o) ==
  /\ Placed(o) /\ UNCHANGED <<backend, exec, proof, slot, done>>
  /\ saved.status # "absent" /\ (UNCHANGED attempt \/ Saves(o))
  /\ o = "start" => pc'[o][1] # "admission"
  /\ o \in Calls => pc[o][1] \notin Slotted /\ pc'[o][1] \notin Slotted
  /\ o \in Steps => pc'[o][1] \notin {"launch", "queued"}
  /\ Resuming(o)' => Resuming(o) \/ (backend.status # "completed" /\ NoneLost)
  /\ Holds(admissions, o) \/ Leaves(o)
  /\ o = "finish" => Finalizing'

LEMMA OpsAre ==
  /\ Calls = Steps \cup Verifs /\ Steps \subseteq Ops /\ Verifs \subseteq Ops /\ Calls \subseteq Ops
  /\ {"start", "renew", "finish", "reconcile", "shutdown"} \subseteq Ops
  /\ \A c \in Calls : c \notin {"start", "renew", "finish", "reconcile", "shutdown"} /\ c # None
  /\ \A c \in Steps : c \notin Verifs
BY WorkAssumption DEF Ops, Calls

(* What others do leaves where a method is, and what it is up to.              *)
LEMMA Elsewhere ==
  ASSUME NEW q, pc'[q] = pc[q]
  PROVE  (Resuming(q)' <=> Resuming(q)) /\ \A x : At(q, x)' <=> At(q, x)
BY DEF Resuming, At

(* A handler is entered by leave of its policy only.                         *)
Enters == \A c \in Calls : At(c, "slotted") /\ pc'[c] = <<"entered">> => Accepted(c)

LEMMA MethodKeeps ==
  ASSUME IInv, NEW o \in Ops, MethodStep(o)
  PROVE  IInv' /\ Enters
<1> USE OpsAre
<1>1. /\ Shapes /\ Exclusive /\ Keyed /\ Begins /\ Remembered /\ Ended /\ Finalizing
      /\ Evidenced /\ CompletionStands /\ Recovered
  BY DEF IInv
<1>2. /\ Placed(o) /\ backend' = backend /\ exec' = exec /\ proof' = proof /\ slot' = slot /\ done' = done
      /\ saved.status # "absent" /\ (UNCHANGED attempt \/ Saves(o))
  BY DEF MethodStep
<1>3. \A q \in Ops : q # o => pc'[q] = pc[q] /\ (Resuming(q)' <=> Resuming(q))
  BY <1>2, Elsewhere DEF Placed
<1>4. st.status # "absent" /\ st'.status # "absent" /\ saved'.status # "absent"
  BY <1>1, <1>2 DEF Begins, Saves, attempt
<1>5. /\ \A s \in Steps : s \in Noted(st) /\ (Doubtful(s) \/ pc[s][1] \in Busy) => s \in Noted(st')
      /\ st.resolved \subseteq st'.resolved /\ saved'.resolved = st'.resolved
      /\ st.unknown \cup st.resolved \subseteq st'.unknown \cup st'.resolved
      /\ saved' = saved \/ saved' = st'
  BY <1>1, <1>2 DEF Saves, attempt, Ended
<1>6. \A s \in Steps : Doubtful(s)' <=> Doubtful(s)
  BY <1>2 DEF Doubtful
<1>7. \A s \in Steps : Lost(s)' => Lost(s)
  <2> SUFFICES ASSUME NEW s \in Steps, Lost(s)' PROVE Lost(s)
    OBVIOUS
  <2>1. CASE s = o
    BY <1>5, <1>6, <2>1 DEF Lost, MethodStep
  <2>2. CASE s # o
    BY <1>3, <1>5, <1>6, <2>2 DEF Lost
  <2> QED BY <2>1, <2>2
<1>8. Resuming(o) /\ o # "finish" => Holds(admissions, o) /\ o \in Calls \cup {"start", "reconcile"}
  BY <1>1 DEF Exclusive, InAdmissions, Resuming, Outside
<1>a. Shapes'
  BY <1>1, <1>2 DEF Shapes, Placed, Saves, attempt
<1>b. Exclusive' /\ Keyed'
  BY <1>1, <1>2, PlacedKeeps
<1>c. Begins'
  BY <1>1, <1>3, <1>4 DEF Begins, At, MethodStep
<1>d. Remembered'
  <2> SUFFICES ASSUME NEW s \in Steps
               PROVE  /\ Doubtful(s)' \/ pc'[s][1] \in Busy => s \in Noted(st') /\ s \in Noted(saved')
                      /\ pc'[s][1] = "published" => s \in st'.unknown \cup st'.resolved
    BY DEF Remembered, At
  <2>1. Doubtful(s)' \/ pc'[s][1] \in Busy => Doubtful(s) \/ pc[s][1] \in Busy
    BY <1>3, <1>6 DEF MethodStep, Busy, Slotted
  <2>2. pc'[s][1] = "published" => s \in st'.unknown \cup st'.resolved
    BY <1>1, <1>3, <1>5 DEF Remembered, At, MethodStep, Slotted
  <2> QED BY <1>1, <1>5, <2>1, <2>2 DEF Remembered
<1>e. Ended'
  <2>1. "completed" \in {st'.status, saved'.status} => backend'.status = "completed"
    BY <1>1, <1>2 DEF Ended, Saves, attempt
  <2>2. ASSUME backend.status = "completed"
        PROVE  /\ st'.status \notin Working /\ saved'.status \notin Working
               /\ \A q \in Ops : ~Resuming(q)'
               /\ \A s \in Steps : pc'[s][1] \notin Busy
    <3>1. st'.status \notin Working /\ saved'.status \notin Working
      BY <1>1, <1>2, <2>2 DEF Ended, Saves, attempt
    <3>2. \A q \in Ops : ~Resuming(q)'
      BY <1>1, <1>3, <2>2 DEF Ended, MethodStep
    <3>3. \A s \in Steps : pc'[s][1] \notin Busy
      BY <1>1, <1>3, <2>2 DEF Ended, MethodStep, Busy, Slotted
    <3> QED BY <3>1, <3>2, <3>3
  <2> QED BY <1>2, <1>5, <2>1, <2>2 DEF Ended
<1>f. Finalizing'
  <2>1. CASE o = "finish"
    BY <2>1 DEF MethodStep
  <2>2. CASE o # "finish"
    <3>1. pc'["finish"] = pc["finish"]
      BY <1>3, <2>2
    <3>2. InAdmissions("finish") => ~Holds(admissions, o) /\ ~Resuming(o)
      BY <1>1, <1>8, <2>2 DEF Exclusive, Holds
    <3>3. pc["finish"][1] \in {"finalizing", "dispatch", "answered", "failed", "readback"} => InAdmissions("finish")
      BY DEF InAdmissions, Outside
    <3>4. InAdmissions("finish") =>
            (st.status \notin Working /\ saved.status \notin Working
              => st'.status \notin Working /\ saved'.status \notin Working)
      BY <1>2, <3>2 DEF Saves, attempt
    <3>5. InAdmissions("finish") => Leaves(o)
      BY <3>2 DEF MethodStep
    <3>6. Leaves(o) /\ (\A c \in Calls : pc[c][1] \notin Busy) => \A c \in Calls : pc'[c][1] \notin Busy
      BY <1>3 DEF Busy, Leaves, MethodStep, Slotted
    <3> QED BY <1>1, <1>2, <3>1, <3>3, <3>4, <3>5, <3>6 DEF Finalizing, Leaves, At
  <2> QED BY <2>1, <2>2
<1>g. Evidenced'
  <2>1. /\ st'.evidence # None => Seen(st'.evidence)
        /\ saved'.evidence # None => Seen(saved'.evidence)
        /\ st'.runs \subseteq Verifs /\ saved'.runs \subseteq Verifs
    BY <1>1, <1>2 DEF Saves, attempt, Evidenced
  <2>2. \A v \in Verifs : At(v, "entered")' => At(v, "entered")
    BY <1>3 DEF MethodStep, At, Slotted
  <2> QED BY <1>1, <1>2, <2>1, <2>2 DEF Evidenced, Seen
<1>h. CompletionStands'
  BY <1>1, <1>2, <1>5, <1>6 DEF CompletionStands
<1>i. Recovered'
  <2>1. \A c \in Calls : pc'[c][1] \in Slotted => slot' = c
    BY <1>1, <1>2, <1>3 DEF Recovered, MethodStep
  <2>2. (\E q \in Ops : Resuming(q)') => NoneLost
    BY <1>1, <1>3 DEF Recovered, MethodStep, NoneLost
  <2>3. st'.status \in Working => NoneLost
    BY <1>1, <1>2 DEF Recovered, Saves, attempt, NoneLost
  <2> QED BY <1>7, <2>1, <2>2, <2>3 DEF Recovered, NoneLost
<1>j. Enters
  BY <1>3 DEF Enters, MethodStep, At, Slotted
<1> QED BY <1>a, <1>b, <1>c, <1>d, <1>e, <1>f, <1>g, <1>h, <1>i, <1>j DEF IInv

(* finish() of one disposition.                                              *)
FinalizesAs(d) ==
  /\ At("finish", "lifecycle") /\ Holds(lifecycle, "finish") /\ Launched
  /\ \/ /\ Finalizable(d)
        /\ Persist([st EXCEPT !.status = "finalizing"])
        /\ Goto("finish", <<"finalizing", d>>) /\ UNCHANGED mutexes
     \/ ~Finalizable(d) /\ Throw("finish")
  /\ UNCHANGED <<world, calls, env>>
DisposesAs(kind) ==
  /\ At("finish", "finalizing") /\ kind \in {"complete", "review", "release"}
  /\ kind = "complete" => Proven
  /\ Begin("finish", st, NextKey(kind))
  /\ UNCHANGED <<world, calls, env>>

-----------------------------------------------------------------------------
(* The steps of the methods.                                                 *)
QueuesKept(o) ==
  /\ admissions' \in Seq(Ops) /\ lifecycle' \in Seq(Ops)
  /\ \A q \in Ops \ {o} : /\ Holds(admissions, q) => Holds(admissions', q)
                          /\ Holds(lifecycle, q) => Holds(lifecycle', q)

LEMMA Gone ==
  ASSUME Shapes, NEW o \in Ops, NEW to, Goto(o, to)
  PROVE  DOMAIN pc' = Ops /\ pc'[o] = to /\ \A q \in Ops \ {o} : pc'[q] = pc[q]
BY DEF Goto, Shapes

(* Of one mutex.                                                             *)
Next1(m, o) == {m, Queue(m, o), Left(m, o)} \cup (IF Holds(m, o) THEN {Tail(m), Queue(Tail(m), o)} ELSE {})
LEMMA KeptByOne ==
  ASSUME NEW m \in Seq(Ops), NEW o \in Ops, NEW n \in Next1(m, o)
  PROVE  n \in Seq(Ops) /\ \A q \in Ops \ {o} : Holds(m, q) => Holds(n, q)
<1>1. /\ Queue(m, o) \in Seq(Ops) /\ Left(m, o) \in Seq(Ops)
      /\ \A q \in Ops : Holds(m, q) => Holds(Queue(m, o), q)
      /\ \A q \in Ops : q # o /\ Holds(m, q) => Left(m, o) = m
      /\ Holds(m, o) => /\ Tail(m) \in Seq(Ops) /\ Queue(Tail(m), o) \in Seq(Ops)
                        /\ \A q \in Ops : Holds(m, q) => q = o
  BY QueueIs
<1>2. CASE n = m
  BY <1>2
<1>3. CASE n = Queue(m, o)
  BY <1>1, <1>3
<1>4. CASE n = Left(m, o)
  BY <1>1, <1>4
<1>5. CASE Holds(m, o) /\ n \in {Tail(m), Queue(Tail(m), o)}
  BY <1>1, <1>5
<1> QED BY <1>2, <1>3, <1>4, <1>5 DEF Next1

LEMMA Kept ==
  ASSUME Shapes, NEW o \in Ops, admissions' \in Next1(admissions, o), lifecycle' \in Next1(lifecycle, o)
  PROVE  QueuesKept(o)
<1>1. admissions \in Seq(Ops) /\ lifecycle \in Seq(Ops)
  BY DEF Shapes
<1>2. admissions' \in Seq(Ops) /\ \A q \in Ops \ {o} : Holds(admissions, q) => Holds(admissions', q)
  BY <1>1, KeptByOne
<1>3. lifecycle' \in Seq(Ops) /\ \A q \in Ops \ {o} : Holds(lifecycle, q) => Holds(lifecycle', q)
  BY <1>1, KeptByOne
<1> QED BY <1>2, <1>3 DEF QueuesKept

LEMMA PlacedIs ==
  ASSUME Shapes, NEW o \in Ops, NEW to, Goto(o, to),
         admissions' \in Next1(admissions, o), lifecycle' \in Next1(lifecycle, o),
         InAdmissions(o)' => Holds(admissions', o), InLifecycle(o)' => Holds(lifecycle', o), KeyedAt(o)'
  PROVE  Placed(o) /\ pc'[o] = to /\ \A q \in Ops \ {o} : pc'[q] = pc[q]
BY Gone, Kept DEF Placed, QueuesKept

LEMMA AwayIs ==
  ASSUME NEW o, pc'[o][1] \in {"idle", "over"}
  PROVE  ~InAdmissions(o)' /\ ~InLifecycle(o)' /\ KeyedAt(o)' /\ ~Resuming(o)'
BY DEF InAdmissions, InLifecycle, KeyedAt, Resuming, At, Outside

(* A method that throws.                                                     *)
LEMMA ThrowStep ==
  ASSUME IInv, NEW o \in Ops \ {"shutdown"}, Throw(o), UNCHANGED <<backend, exec, proof, slot, done>>,
         saved.status # "absent", pc[o][1] \notin Slotted
  PROVE  MethodStep(o)
<1> USE OpsAre
<1>1. Shapes
  BY DEF IInv
<1> DEFINE to == IF o \in Calls THEN Over ELSE Idle
<1>2. /\ Goto(o, to) /\ attempt' = attempt /\ to \in {<<"idle">>, <<"over">>}
      /\ admissions' = Left(admissions, o) /\ lifecycle' = Left(lifecycle, o)
  BY DEF Throw, Return, Idle, Over
<1> HIDE DEF to
<1>3. pc'[o] = to /\ pc'[o][1] \in {"idle", "over"}
  BY <1>1, <1>2, Gone
<1>4. Placed(o)
  BY <1>1, <1>2, <1>3, AwayIs, PlacedIs DEF Next1
<1>5. o = "finish" => Finalizing'
  BY <1>3 DEF Finalizing, At
<1> QED BY <1>2, <1>3, <1>4, <1>5, AwayIs DEF MethodStep, Leaves, Slotted, attempt

LEMMA EvidenceSeen ==
  ASSUME Evidenced
  PROVE  /\ st.evidence # None => Seen(st.evidence)
         /\ \A v \in Verifs : proof[v] # None => Seen(proof[v])
BY DEF Evidenced

(* A method that saves what it did.                                          *)
LEMMA SavesIs ==
  ASSUME IInv, NEW o, NEW s, Persist(s) \/ (st' = s /\ saved' = saved), DOMAIN s = Fields,
         s.status \in {st.status, "verifying", "running"} \/ s.status \notin Working,
         s.status = st.status \/ s.status \notin Working \/ Resuming(o) \/ st.status \in Working,
         s.status # "absent", s.status = "completed" => backend.status = "completed",
         \A x \in Steps : x \in Noted(st) /\ (Doubtful(x) \/ pc[x][1] \in Busy) => x \in Noted(s), st.unknown \subseteq s.unknown, s.resolved = st.resolved,
         s.evidence # None => Seen(s.evidence), s.runs \subseteq Verifs
  PROVE  Saves(o)
<1>1. st' = s /\ saved' \in {saved, s}
  BY DEF Persist
<1> QED BY <1>1 DEF Saves

LEMMA CallStepStep ==
  ASSUME IInv, NEW s \in Steps, CallStep(s)
  PROVE  MethodStep(s)
<1> USE OpsAre
<1>1. /\ Shapes /\ Exclusive /\ Begins /\ Ended /\ Evidenced /\ Recovered /\ Finalizing /\ Keyed /\ Remembered
      /\ s \in Ops \ {"shutdown"} /\ pc[s][1] \notin Slotted /\ UNCHANGED <<backend, exec, proof, slot, done>>
  BY DEF IInv, CallStep, At, Slotted, calls, world
<1>2. saved.status # "absent"
  BY <1>1 DEF CallStep, Begins, At, Outside, Absent
<1>3. /\ Goto(s, <<"admission">>) /\ admissions' = Queue(admissions, s) /\ lifecycle' = lifecycle
      /\ attempt' = attempt
  BY <1>1 DEF CallStep, mutexes, attempt, Begin, Intend, Resume, At
<1>4. pc'[s] = <<"admission">>
  BY <1>1, <1>3, Gone
<1>5. /\ InAdmissions(s)' => Holds(admissions', s)
      /\ InLifecycle(s)' => Holds(lifecycle', s)
      /\ KeyedAt(s)'
  BY <1>1, <1>3, <1>4 DEF CallStep, InAdmissions, InLifecycle, Keyed, KeyedAt, Kinds, Outside, At, Exclusive, Return, Idle, Over
<1>6. Placed(s)
  BY <1>1, <1>3, <1>5, PlacedIs DEF Next1, Return
<1>7. UNCHANGED attempt
  BY <1>3
<1>8. Resuming(s)' => Resuming(s) \/ (backend.status # "completed" /\ NoneLost)
  BY <1>1, <1>3, <1>4 DEF CallStep, Resuming, At, Outside, NoneLost, Recovered, Ended, Idle, Over
<1>9. Holds(admissions, s) \/ Leaves(s)
  BY <1>1, <1>3, <1>4 DEF CallStep, Leaves, Exclusive, InAdmissions, Outside, At, Persist, Receipted, WithOp, Shapes, Fields, attempt, Idle, Over
<1> QED BY <1>1, <1>2, <1>3, <1>4, <1>6, <1>7, <1>8, <1>9 DEF MethodStep, Slotted, Idle, Over

LEMMA CheckStepStep ==
  ASSUME IInv, NEW s \in Steps, CheckStep(s)
  PROVE  MethodStep(s)
<1> USE OpsAre
<1>1. /\ Shapes /\ Exclusive /\ Begins /\ Ended /\ Evidenced /\ Recovered /\ Finalizing /\ Keyed /\ Remembered
      /\ s \in Ops \ {"shutdown"} /\ pc[s][1] \notin Slotted /\ UNCHANGED <<backend, exec, proof, slot, done>>
  BY DEF IInv, CheckStep, Admissible, At, Slotted, calls, world
<1>2. saved.status # "absent"
  BY <1>1 DEF CheckStep, Admissible, Begins, At, Outside, Absent
<1>3. CASE Admissible(s) /\ ~Throw(s)
  <2>1. /\ Goto(s, <<"checked">>) /\ UNCHANGED <<admissions, lifecycle>>
        /\ attempt' = attempt /\ st.status \in Working
    BY <1>3, <1>1 DEF CheckStep, Admissible, mutexes, attempt, Begin, Intend, Resume, At
  <2>2. pc'[s] = <<"checked">>
    BY <1>1, <2>1, Gone
  <2>3. /\ InAdmissions(s)' => Holds(admissions', s)
        /\ InLifecycle(s)' => Holds(lifecycle', s)
        /\ KeyedAt(s)'
    BY <1>1, <1>3, <2>1, <2>2 DEF CheckStep, Admissible, InAdmissions, InLifecycle, Keyed, KeyedAt, Kinds, Outside, At, Exclusive, Return, Idle, Over
  <2>4. Placed(s)
    BY <1>1, <2>1, <2>3, PlacedIs DEF Next1, Return
  <2>5. UNCHANGED attempt
    BY <2>1
  <2>6. Resuming(s)' => Resuming(s) \/ (backend.status # "completed" /\ NoneLost)
    BY <1>1, <1>3, <2>1, <2>2 DEF CheckStep, Admissible, Resuming, At, Outside, NoneLost, Recovered, Ended, Idle, Over
  <2>7. Holds(admissions, s) \/ Leaves(s)
    BY <1>1, <1>3, <2>1, <2>2 DEF CheckStep, Admissible, Leaves, Exclusive, InAdmissions, Outside, At, Persist, Receipted, WithOp, Shapes, Fields, attempt, Idle, Over
  <2> QED BY <1>1, <1>2, <2>1, <2>2, <2>4, <2>5, <2>6, <2>7 DEF MethodStep, Slotted, Idle, Over
<1>4. CASE Throw(s)
  <2>1. Throw(s)
    BY <1>4 DEF CheckStep, Admissible
  <2> QED BY <1>1, <1>2, <2>1, ThrowStep
<1> QED BY <1>3, <1>4 DEF CheckStep, Admissible

LEMMA CallVerifyStep ==
  ASSUME IInv, NEW v \in Verifs, CallVerify(v)
  PROVE  MethodStep(v)
<1> USE OpsAre
<1>1. /\ Shapes /\ Exclusive /\ Begins /\ Ended /\ Evidenced /\ Recovered /\ Finalizing /\ Keyed /\ Remembered
      /\ v \in Ops \ {"shutdown"} /\ pc[v][1] \notin Slotted /\ UNCHANGED <<backend, exec, proof, slot, done>>
  BY DEF IInv, CallVerify, At, Slotted, calls, world
<1>2. saved.status # "absent"
  BY <1>1 DEF CallVerify, Begins, At, Outside, Absent
<1>3. /\ Goto(v, <<"admission">>) /\ admissions' = Queue(admissions, v) /\ lifecycle' = lifecycle
      /\ attempt' = attempt
  BY <1>1 DEF CallVerify, mutexes, attempt, Begin, Intend, Resume, At
<1>4. pc'[v] = <<"admission">>
  BY <1>1, <1>3, Gone
<1>5. /\ InAdmissions(v)' => Holds(admissions', v)
      /\ InLifecycle(v)' => Holds(lifecycle', v)
      /\ KeyedAt(v)'
  BY <1>1, <1>3, <1>4 DEF CallVerify, InAdmissions, InLifecycle, Keyed, KeyedAt, Kinds, Outside, At, Exclusive, Return, Idle, Over
<1>6. Placed(v)
  BY <1>1, <1>3, <1>5, PlacedIs DEF Next1, Return
<1>7. UNCHANGED attempt
  BY <1>3
<1>8. Resuming(v)' => Resuming(v) \/ (backend.status # "completed" /\ NoneLost)
  BY <1>1, <1>3, <1>4 DEF CallVerify, Resuming, At, Outside, NoneLost, Recovered, Ended, Idle, Over
<1>9. Holds(admissions, v) \/ Leaves(v)
  BY <1>1, <1>3, <1>4 DEF CallVerify, Leaves, Exclusive, InAdmissions, Outside, At, Persist, Receipted, WithOp, Shapes, Fields, attempt, Idle, Over
<1> QED BY <1>1, <1>2, <1>3, <1>4, <1>6, <1>7, <1>8, <1>9 DEF MethodStep, Slotted, Idle, Over

LEMMA CheckVerifyStep ==
  ASSUME IInv, NEW v \in Verifs, CheckVerify(v)
  PROVE  MethodStep(v)
<1> USE OpsAre
<1>1. /\ Shapes /\ Exclusive /\ Begins /\ Ended /\ Evidenced /\ Recovered /\ Finalizing /\ Keyed /\ Remembered
      /\ v \in Ops \ {"shutdown"} /\ pc[v][1] \notin Slotted /\ UNCHANGED <<backend, exec, proof, slot, done>>
  BY DEF IInv, CheckVerify, Drained, At, Slotted, calls, world
<1>2. saved.status # "absent"
  BY <1>1 DEF CheckVerify, Drained, Begins, At, Outside, Absent
<1>3. CASE Drained /\ ~Throw(v)
  <2>1. /\ Goto(v, <<"checked">>) /\ UNCHANGED <<admissions, lifecycle>>
        /\ attempt' = attempt /\ st.status \in Working
    BY <1>3, <1>1 DEF CheckVerify, Drained, mutexes, attempt, Begin, Intend, Resume, At
  <2>2. pc'[v] = <<"checked">>
    BY <1>1, <2>1, Gone
  <2>3. /\ InAdmissions(v)' => Holds(admissions', v)
        /\ InLifecycle(v)' => Holds(lifecycle', v)
        /\ KeyedAt(v)'
    BY <1>1, <1>3, <2>1, <2>2 DEF CheckVerify, Drained, InAdmissions, InLifecycle, Keyed, KeyedAt, Kinds, Outside, At, Exclusive, Return, Idle, Over
  <2>4. Placed(v)
    BY <1>1, <2>1, <2>3, PlacedIs DEF Next1, Return
  <2>5. UNCHANGED attempt
    BY <2>1
  <2>6. Resuming(v)' => Resuming(v) \/ (backend.status # "completed" /\ NoneLost)
    BY <1>1, <1>3, <2>1, <2>2 DEF CheckVerify, Drained, Resuming, At, Outside, NoneLost, Recovered, Ended, Idle, Over
  <2>7. Holds(admissions, v) \/ Leaves(v)
    BY <1>1, <1>3, <2>1, <2>2 DEF CheckVerify, Drained, Leaves, Exclusive, InAdmissions, Outside, At, Persist, Receipted, WithOp, Shapes, Fields, attempt, Idle, Over
  <2> QED BY <1>1, <1>2, <2>1, <2>2, <2>4, <2>5, <2>6, <2>7 DEF MethodStep, Slotted, Idle, Over
<1>4. CASE Throw(v)
  <2>1. Throw(v)
    BY <1>4 DEF CheckVerify, Drained
  <2> QED BY <1>1, <1>2, <2>1, ThrowStep
<1> QED BY <1>3, <1>4 DEF CheckVerify, Drained

LEMMA AdmitVerifyStep ==
  ASSUME IInv, NEW v \in Verifs, AdmitVerify(v)
  PROVE  MethodStep(v)
<1> USE OpsAre
<1>1. /\ Shapes /\ Exclusive /\ Begins /\ Ended /\ Evidenced /\ Recovered /\ Finalizing /\ Keyed /\ Remembered
      /\ v \in Ops \ {"shutdown"} /\ pc[v][1] \notin Slotted /\ UNCHANGED <<backend, exec, proof, slot, done>>
  BY DEF IInv, AdmitVerify, At, Slotted, calls, world
<1>2. saved.status # "absent"
  BY <1>1 DEF AdmitVerify, Begins, At, Outside, Absent
<1>3. CASE ~Throw(v)
  <2>1. /\ Goto(v, <<"register">>) /\ admissions' = Queue(Tail(admissions), v) /\ lifecycle' = lifecycle
        /\ Persist([st EXCEPT !.status = "verifying"]) /\ Holds(admissions, v)
    BY <1>3, <1>1 DEF AdmitVerify, mutexes, attempt, Begin, Intend, Resume, At, Exclusive, InAdmissions
  <2>2. pc'[v] = <<"register">>
    BY <1>1, <2>1, Gone
  <2>3. /\ InAdmissions(v)' => Holds(admissions', v)
        /\ InLifecycle(v)' => Holds(lifecycle', v)
        /\ KeyedAt(v)'
    BY <1>1, <1>3, <2>1, <2>2 DEF AdmitVerify, InAdmissions, InLifecycle, Keyed, KeyedAt, Kinds, Outside, At, Exclusive, Return, Idle, Over
  <2>4. Placed(v)
    BY <1>1, <2>1, <2>3, PlacedIs DEF Next1, Return
  <2>5. Saves(v)
    <3> DEFINE s == [st EXCEPT !.status = "verifying"]
    <3>1. /\ Persist(s) \/ (st' = s /\ saved' = saved)
          /\ DOMAIN s = Fields /\ s.resolved = st.resolved /\ st.unknown \subseteq s.unknown
          /\ Noted(st) \subseteq Noted(s) /\ s.runs \subseteq Verifs
      BY <1>1, <2>1 DEF Shapes, Fields, Noted, WithOp, Receipted, Evidenced
    <3>2. /\ s.status = st.status \/ s.status \notin Working \/ Resuming(v) \/ st.status \in Working
          /\ s.status \in {st.status, "verifying", "running"} \/ s.status \notin Working
          /\ s.status # "absent" /\ (s.status = "completed" => backend.status = "completed")
      BY <1>1, <1>2, <1>3, <2>1 DEF AdmitVerify, Shapes, Fields, WithOp, Receipted, Working, Resuming, Outside, At, Begins, Ended
    <3>3. s.evidence # None => Seen(s.evidence)
      BY <1>1, <2>1, EvidenceSeen DEF Shapes, Fields, WithOp, Receipted
    <3> HIDE DEF s
    <3> QED BY <3>1, <3>2, <3>3, SavesIs
  <2>6. Resuming(v)' => Resuming(v) \/ (backend.status # "completed" /\ NoneLost)
    BY <1>1, <1>3, <2>1, <2>2 DEF AdmitVerify, Resuming, At, Outside, NoneLost, Recovered, Ended, Idle, Over
  <2>7. Holds(admissions, v) \/ Leaves(v)
    BY <1>1, <1>3, <2>1, <2>2 DEF AdmitVerify, Leaves, Exclusive, InAdmissions, Outside, At, Persist, Receipted, WithOp, Shapes, Fields, attempt, Idle, Over
  <2> QED BY <1>1, <1>2, <2>1, <2>2, <2>4, <2>5, <2>6, <2>7 DEF MethodStep, Slotted, Idle, Over
<1>4. CASE Throw(v)
  <2>1. Throw(v)
    BY <1>4 DEF AdmitVerify
  <2> QED BY <1>1, <1>2, <2>1, ThrowStep
<1> QED BY <1>3, <1>4 DEF AdmitVerify

LEMMA RegisterRunStep ==
  ASSUME IInv, NEW v \in Verifs, RegisterRun(v)
  PROVE  MethodStep(v)
<1> USE OpsAre
<1>1. /\ Shapes /\ Exclusive /\ Begins /\ Ended /\ Evidenced /\ Recovered /\ Finalizing /\ Keyed /\ Remembered
      /\ v \in Ops \ {"shutdown"} /\ pc[v][1] \notin Slotted /\ UNCHANGED <<backend, exec, proof, slot, done>>
  BY DEF IInv, RegisterRun, At, Slotted, calls, world
<1>2. saved.status # "absent"
  BY <1>1 DEF RegisterRun, Begins, At, Outside, Absent
<1>3. CASE granted /\ ~Closed
  <2>1. /\ Goto(v, <<"launch">>) /\ Return(v)
        /\ Persist([st EXCEPT !.runs = @ \cup {v}])
    BY <1>3, <1>1 DEF RegisterRun, mutexes, attempt, Begin, Intend, Resume, At
  <2>2. pc'[v] = <<"launch">>
    BY <1>1, <2>1, Gone
  <2>3. /\ InAdmissions(v)' => Holds(admissions', v)
        /\ InLifecycle(v)' => Holds(lifecycle', v)
        /\ KeyedAt(v)'
    BY <1>1, <1>3, <2>1, <2>2 DEF RegisterRun, InAdmissions, InLifecycle, Keyed, KeyedAt, Kinds, Outside, At, Exclusive, Return, Idle, Over
  <2>4. Placed(v)
    BY <1>1, <2>1, <2>3, PlacedIs DEF Next1, Return
  <2>5. Saves(v)
    <3> DEFINE s == [st EXCEPT !.runs = @ \cup {v}]
    <3>1. /\ Persist(s) \/ (st' = s /\ saved' = saved)
          /\ DOMAIN s = Fields /\ s.resolved = st.resolved /\ st.unknown \subseteq s.unknown
          /\ Noted(st) \subseteq Noted(s) /\ s.runs \subseteq Verifs
      BY <1>1, <2>1 DEF Shapes, Fields, Noted, WithOp, Receipted, Evidenced
    <3>2. /\ s.status = st.status \/ s.status \notin Working \/ Resuming(v) \/ st.status \in Working
          /\ s.status \in {st.status, "verifying", "running"} \/ s.status \notin Working
          /\ s.status # "absent" /\ (s.status = "completed" => backend.status = "completed")
      BY <1>1, <1>2, <1>3, <2>1 DEF RegisterRun, Shapes, Fields, WithOp, Receipted, Working, Resuming, Outside, At, Begins, Ended
    <3>3. s.evidence # None => Seen(s.evidence)
      BY <1>1, <2>1, EvidenceSeen DEF Shapes, Fields, WithOp, Receipted
    <3> HIDE DEF s
    <3> QED BY <3>1, <3>2, <3>3, SavesIs
  <2>6. Resuming(v)' => Resuming(v) \/ (backend.status # "completed" /\ NoneLost)
    BY <1>1, <1>3, <2>1, <2>2 DEF RegisterRun, Resuming, At, Outside, NoneLost, Recovered, Ended, Idle, Over
  <2>7. Holds(admissions, v) \/ Leaves(v)
    BY <1>1, <1>3, <2>1, <2>2 DEF RegisterRun, Leaves, Exclusive, InAdmissions, Outside, At, Persist, Receipted, WithOp, Shapes, Fields, attempt, Idle, Over
  <2> QED BY <1>1, <1>2, <2>1, <2>2, <2>4, <2>5, <2>6, <2>7 DEF MethodStep, Slotted, Idle, Over
<1>4. CASE granted /\ Closed
  <2>1. /\ Goto(v, Over) /\ Return(v)
        /\ Persist([st EXCEPT !.runs = @ \cup {v}])
    BY <1>4, <1>1 DEF RegisterRun, mutexes, attempt, Begin, Intend, Resume, At
  <2>2. pc'[v] = Over
    BY <1>1, <2>1, Gone
  <2>3. /\ InAdmissions(v)' => Holds(admissions', v)
        /\ InLifecycle(v)' => Holds(lifecycle', v)
        /\ KeyedAt(v)'
    BY <1>1, <1>4, <2>1, <2>2 DEF RegisterRun, InAdmissions, InLifecycle, Keyed, KeyedAt, Kinds, Outside, At, Exclusive, Return, Idle, Over
  <2>4. Placed(v)
    BY <1>1, <2>1, <2>3, PlacedIs DEF Next1, Return
  <2>5. Saves(v)
    <3> DEFINE s == [st EXCEPT !.runs = @ \cup {v}]
    <3>1. /\ Persist(s) \/ (st' = s /\ saved' = saved)
          /\ DOMAIN s = Fields /\ s.resolved = st.resolved /\ st.unknown \subseteq s.unknown
          /\ Noted(st) \subseteq Noted(s) /\ s.runs \subseteq Verifs
      BY <1>1, <2>1 DEF Shapes, Fields, Noted, WithOp, Receipted, Evidenced
    <3>2. /\ s.status = st.status \/ s.status \notin Working \/ Resuming(v) \/ st.status \in Working
          /\ s.status \in {st.status, "verifying", "running"} \/ s.status \notin Working
          /\ s.status # "absent" /\ (s.status = "completed" => backend.status = "completed")
      BY <1>1, <1>2, <1>4, <2>1 DEF RegisterRun, Shapes, Fields, WithOp, Receipted, Working, Resuming, Outside, At, Begins, Ended
    <3>3. s.evidence # None => Seen(s.evidence)
      BY <1>1, <2>1, EvidenceSeen DEF Shapes, Fields, WithOp, Receipted
    <3> HIDE DEF s
    <3> QED BY <3>1, <3>2, <3>3, SavesIs
  <2>6. Resuming(v)' => Resuming(v) \/ (backend.status # "completed" /\ NoneLost)
    BY <1>1, <1>4, <2>1, <2>2 DEF RegisterRun, Resuming, At, Outside, NoneLost, Recovered, Ended, Idle, Over
  <2>7. Holds(admissions, v) \/ Leaves(v)
    BY <1>1, <1>4, <2>1, <2>2 DEF RegisterRun, Leaves, Exclusive, InAdmissions, Outside, At, Persist, Receipted, WithOp, Shapes, Fields, attempt, Idle, Over
  <2> QED BY <1>1, <1>2, <2>1, <2>2, <2>4, <2>5, <2>6, <2>7 DEF MethodStep, Slotted, Idle, Over
<1>5. CASE ~granted
  <2>1. /\ Goto(v, Over) /\ Return(v)
        /\ attempt' = attempt
    BY <1>5, <1>1 DEF RegisterRun, mutexes, attempt, Begin, Intend, Resume, At
  <2>2. pc'[v] = Over
    BY <1>1, <2>1, Gone
  <2>3. /\ InAdmissions(v)' => Holds(admissions', v)
        /\ InLifecycle(v)' => Holds(lifecycle', v)
        /\ KeyedAt(v)'
    BY <1>1, <1>5, <2>1, <2>2 DEF RegisterRun, InAdmissions, InLifecycle, Keyed, KeyedAt, Kinds, Outside, At, Exclusive, Return, Idle, Over
  <2>4. Placed(v)
    BY <1>1, <2>1, <2>3, PlacedIs DEF Next1, Return
  <2>5. UNCHANGED attempt
    BY <2>1
  <2>6. Resuming(v)' => Resuming(v) \/ (backend.status # "completed" /\ NoneLost)
    BY <1>1, <1>5, <2>1, <2>2 DEF RegisterRun, Resuming, At, Outside, NoneLost, Recovered, Ended, Idle, Over
  <2>7. Holds(admissions, v) \/ Leaves(v)
    BY <1>1, <1>5, <2>1, <2>2 DEF RegisterRun, Leaves, Exclusive, InAdmissions, Outside, At, Persist, Receipted, WithOp, Shapes, Fields, attempt, Idle, Over
  <2> QED BY <1>1, <1>2, <2>1, <2>2, <2>4, <2>5, <2>6, <2>7 DEF MethodStep, Slotted, Idle, Over
<1> QED BY <1>3, <1>4, <1>5 DEF RegisterRun

LEMMA StoreEvidenceStep ==
  ASSUME IInv, NEW v \in Verifs, StoreEvidence(v)
  PROVE  MethodStep(v)
<1> USE OpsAre
<1>1. /\ Shapes /\ Exclusive /\ Begins /\ Ended /\ Evidenced /\ Recovered /\ Finalizing /\ Keyed /\ Remembered
      /\ v \in Ops \ {"shutdown"} /\ pc[v][1] \notin Slotted /\ UNCHANGED <<backend, exec, proof, slot, done>>
  BY DEF IInv, StoreEvidence, At, Slotted, calls, world
<1>2. saved.status # "absent"
  BY <1>1 DEF StoreEvidence, Begins, At, Outside, Absent
<1>3. CASE Closed
  <2>1. /\ Goto(v, Over) /\ Return(v) /\ Holds(admissions, v)
        /\ Persist([st EXCEPT !.evidence = proof[v], !.runs = @ \ {v}])
    BY <1>3, <1>1 DEF StoreEvidence, mutexes, attempt, Begin, Intend, Resume, At
  <2>2. pc'[v] = Over
    BY <1>1, <2>1, Gone
  <2>3. /\ InAdmissions(v)' => Holds(admissions', v)
        /\ InLifecycle(v)' => Holds(lifecycle', v)
        /\ KeyedAt(v)'
    BY <1>1, <1>3, <2>1, <2>2 DEF StoreEvidence, InAdmissions, InLifecycle, Keyed, KeyedAt, Kinds, Outside, At, Exclusive, Return, Idle, Over
  <2>4. Placed(v)
    BY <1>1, <2>1, <2>3, PlacedIs DEF Next1, Return
  <2>5. Saves(v)
    <3> DEFINE s == [st EXCEPT !.evidence = proof[v], !.runs = @ \ {v}]
    <3>1. /\ Persist(s) \/ (st' = s /\ saved' = saved)
          /\ DOMAIN s = Fields /\ s.resolved = st.resolved /\ st.unknown \subseteq s.unknown
          /\ Noted(st) \subseteq Noted(s) /\ s.runs \subseteq Verifs
      BY <1>1, <2>1 DEF Shapes, Fields, Noted, WithOp, Receipted, Evidenced
    <3>2. /\ s.status = st.status \/ s.status \notin Working \/ Resuming(v) \/ st.status \in Working
          /\ s.status \in {st.status, "verifying", "running"} \/ s.status \notin Working
          /\ s.status # "absent" /\ (s.status = "completed" => backend.status = "completed")
      BY <1>1, <1>2, <1>3, <2>1 DEF StoreEvidence, Shapes, Fields, WithOp, Receipted, Working, Resuming, Outside, At, Begins, Ended
    <3>3. s.evidence # None => Seen(s.evidence)
      BY <1>1, <2>1, EvidenceSeen DEF Shapes, Fields, WithOp, Receipted
    <3> HIDE DEF s
    <3> QED BY <3>1, <3>2, <3>3, SavesIs
  <2>6. Resuming(v)' => Resuming(v) \/ (backend.status # "completed" /\ NoneLost)
    BY <1>1, <1>3, <2>1, <2>2 DEF StoreEvidence, Resuming, At, Outside, NoneLost, Recovered, Ended, Idle, Over
  <2>7. Holds(admissions, v) \/ Leaves(v)
    BY <1>1, <1>3, <2>1, <2>2 DEF StoreEvidence, Leaves, Exclusive, InAdmissions, Outside, At, Persist, Receipted, WithOp, Shapes, Fields, attempt, Idle, Over
  <2> QED BY <1>1, <1>2, <2>1, <2>2, <2>4, <2>5, <2>6, <2>7 DEF MethodStep, Slotted, Idle, Over
<1>4. CASE ~Closed
  <2>1. /\ Goto(v, <<"stored">>) /\ Return(v) /\ Holds(admissions, v)
        /\ Persist([st EXCEPT !.evidence = proof[v], !.runs = @ \ {v}])
    BY <1>4, <1>1 DEF StoreEvidence, mutexes, attempt, Begin, Intend, Resume, At
  <2>2. pc'[v] = <<"stored">>
    BY <1>1, <2>1, Gone
  <2>3. /\ InAdmissions(v)' => Holds(admissions', v)
        /\ InLifecycle(v)' => Holds(lifecycle', v)
        /\ KeyedAt(v)'
    BY <1>1, <1>4, <2>1, <2>2 DEF StoreEvidence, InAdmissions, InLifecycle, Keyed, KeyedAt, Kinds, Outside, At, Exclusive, Return, Idle, Over
  <2>4. Placed(v)
    BY <1>1, <2>1, <2>3, PlacedIs DEF Next1, Return
  <2>5. Saves(v)
    <3> DEFINE s == [st EXCEPT !.evidence = proof[v], !.runs = @ \ {v}]
    <3>1. /\ Persist(s) \/ (st' = s /\ saved' = saved)
          /\ DOMAIN s = Fields /\ s.resolved = st.resolved /\ st.unknown \subseteq s.unknown
          /\ Noted(st) \subseteq Noted(s) /\ s.runs \subseteq Verifs
      BY <1>1, <2>1 DEF Shapes, Fields, Noted, WithOp, Receipted, Evidenced
    <3>2. /\ s.status = st.status \/ s.status \notin Working \/ Resuming(v) \/ st.status \in Working
          /\ s.status \in {st.status, "verifying", "running"} \/ s.status \notin Working
          /\ s.status # "absent" /\ (s.status = "completed" => backend.status = "completed")
      BY <1>1, <1>2, <1>4, <2>1 DEF StoreEvidence, Shapes, Fields, WithOp, Receipted, Working, Resuming, Outside, At, Begins, Ended
    <3>3. s.evidence # None => Seen(s.evidence)
      BY <1>1, <2>1, EvidenceSeen DEF Shapes, Fields, WithOp, Receipted
    <3> HIDE DEF s
    <3> QED BY <3>1, <3>2, <3>3, SavesIs
  <2>6. Resuming(v)' => Resuming(v) \/ (backend.status # "completed" /\ NoneLost)
    BY <1>1, <1>4, <2>1, <2>2 DEF StoreEvidence, Resuming, At, Outside, NoneLost, Recovered, Ended, Idle, Over
  <2>7. Holds(admissions, v) \/ Leaves(v)
    BY <1>1, <1>4, <2>1, <2>2 DEF StoreEvidence, Leaves, Exclusive, InAdmissions, Outside, At, Persist, Receipted, WithOp, Shapes, Fields, attempt, Idle, Over
  <2> QED BY <1>1, <1>2, <2>1, <2>2, <2>4, <2>5, <2>6, <2>7 DEF MethodStep, Slotted, Idle, Over
<1> QED BY <1>3, <1>4 DEF StoreEvidence

LEMMA AwaitSubmitStep ==
  ASSUME IInv, NEW v \in Verifs, AwaitSubmit(v)
  PROVE  MethodStep(v)
<1> USE OpsAre
<1>1. /\ Shapes /\ Exclusive /\ Begins /\ Ended /\ Evidenced /\ Recovered /\ Finalizing /\ Keyed /\ Remembered
      /\ v \in Ops \ {"shutdown"} /\ pc[v][1] \notin Slotted /\ UNCHANGED <<backend, exec, proof, slot, done>>
  BY DEF IInv, AwaitSubmit, At, Slotted, calls, world
<1>2. saved.status # "absent"
  BY <1>1 DEF AwaitSubmit, Begins, At, Outside, Absent
<1>3. /\ Goto(v, <<"submit">>) /\ admissions' = admissions /\ lifecycle' = Queue(lifecycle, v)
      /\ attempt' = attempt
  BY <1>1 DEF AwaitSubmit, mutexes, attempt, Begin, Intend, Resume, At
<1>4. pc'[v] = <<"submit">>
  BY <1>1, <1>3, Gone
<1>5. /\ InAdmissions(v)' => Holds(admissions', v)
      /\ InLifecycle(v)' => Holds(lifecycle', v)
      /\ KeyedAt(v)'
  BY <1>1, <1>3, <1>4 DEF AwaitSubmit, InAdmissions, InLifecycle, Keyed, KeyedAt, Kinds, Outside, At, Exclusive, Return, Idle, Over
<1>6. Placed(v)
  BY <1>1, <1>3, <1>5, PlacedIs DEF Next1, Return
<1>7. UNCHANGED attempt
  BY <1>3
<1>8. Resuming(v)' => Resuming(v) \/ (backend.status # "completed" /\ NoneLost)
  BY <1>1, <1>3, <1>4 DEF AwaitSubmit, Resuming, At, Outside, NoneLost, Recovered, Ended, Idle, Over
<1>9. Holds(admissions, v) \/ Leaves(v)
  BY <1>1, <1>3, <1>4 DEF AwaitSubmit, Leaves, Exclusive, InAdmissions, Outside, At, Persist, Receipted, WithOp, Shapes, Fields, attempt, Idle, Over
<1> QED BY <1>1, <1>2, <1>3, <1>4, <1>6, <1>7, <1>8, <1>9 DEF MethodStep, Slotted, Idle, Over

LEMMA DoubtRunStep ==
  ASSUME IInv, NEW v \in Verifs, DoubtRun(v)
  PROVE  MethodStep(v)
<1> USE OpsAre
<1>1. /\ Shapes /\ Exclusive /\ Begins /\ Ended /\ Evidenced /\ Recovered /\ Finalizing /\ Keyed /\ Remembered
      /\ v \in Ops \ {"shutdown"} /\ pc[v][1] \notin Slotted /\ UNCHANGED <<backend, exec, proof, slot, done>>
  BY DEF IInv, DoubtRun, At, Slotted, calls, world
<1>2. saved.status # "absent"
  BY <1>1 DEF DoubtRun, Begins, At, Outside, Absent
<1>3. /\ Goto(v, Over) /\ Return(v)
      /\ Persist([st EXCEPT !.status = "reconciliation_required", !.unknown = @ \cup {v}])
  BY <1>1 DEF DoubtRun, mutexes, attempt, Begin, Intend, Resume, At
<1>4. pc'[v] = Over
  BY <1>1, <1>3, Gone
<1>5. /\ InAdmissions(v)' => Holds(admissions', v)
      /\ InLifecycle(v)' => Holds(lifecycle', v)
      /\ KeyedAt(v)'
  BY <1>1, <1>3, <1>4 DEF DoubtRun, InAdmissions, InLifecycle, Keyed, KeyedAt, Kinds, Outside, At, Exclusive, Return, Idle, Over
<1>6. Placed(v)
  BY <1>1, <1>3, <1>5, PlacedIs DEF Next1, Return
<1>7. Saves(v)
  <2> DEFINE s == [st EXCEPT !.status = "reconciliation_required", !.unknown = @ \cup {v}]
  <2>1. /\ Persist(s) \/ (st' = s /\ saved' = saved)
        /\ DOMAIN s = Fields /\ s.resolved = st.resolved /\ st.unknown \subseteq s.unknown
        /\ Noted(st) \subseteq Noted(s) /\ s.runs \subseteq Verifs
    BY <1>1, <1>3 DEF Shapes, Fields, Noted, WithOp, Receipted, Evidenced
  <2>2. /\ s.status = st.status \/ s.status \notin Working \/ Resuming(v) \/ st.status \in Working
        /\ s.status \in {st.status, "verifying", "running"} \/ s.status \notin Working
        /\ s.status # "absent" /\ (s.status = "completed" => backend.status = "completed")
    BY <1>1, <1>2, <1>3 DEF DoubtRun, Shapes, Fields, WithOp, Receipted, Working, Resuming, Outside, At, Begins, Ended
  <2>3. s.evidence # None => Seen(s.evidence)
    BY <1>1, <1>3, EvidenceSeen DEF Shapes, Fields, WithOp, Receipted
  <2> HIDE DEF s
  <2> QED BY <2>1, <2>2, <2>3, SavesIs
<1>8. Resuming(v)' => Resuming(v) \/ (backend.status # "completed" /\ NoneLost)
  BY <1>1, <1>3, <1>4 DEF DoubtRun, Resuming, At, Outside, NoneLost, Recovered, Ended, Idle, Over
<1>9. Holds(admissions, v) \/ Leaves(v)
  BY <1>1, <1>3, <1>4 DEF DoubtRun, Leaves, Exclusive, InAdmissions, Outside, At, Persist, Receipted, WithOp, Shapes, Fields, attempt, Idle, Over
<1> QED BY <1>1, <1>2, <1>3, <1>4, <1>6, <1>7, <1>8, <1>9 DEF MethodStep, Slotted, Idle, Over

LEMMA SubmitStep ==
  ASSUME IInv, NEW v \in Verifs, Submit(v)
  PROVE  MethodStep(v)
<1> USE OpsAre
<1>1. /\ Shapes /\ Exclusive /\ Begins /\ Ended /\ Evidenced /\ Recovered /\ Finalizing /\ Keyed /\ Remembered
      /\ v \in Ops \ {"shutdown"} /\ pc[v][1] \notin Slotted /\ UNCHANGED <<backend, exec, proof, slot, done>>
  BY DEF IInv, Submit, Begin, At, Slotted, calls, world
<1>2. saved.status # "absent"
  BY <1>1 DEF Submit, Begin, Begins, At, Outside, Absent
<1>3. CASE Intend(v, st, <<"evidence", v>>)
  <2>1. /\ Goto(v, <<"dispatch", <<"evidence", v>>>>) /\ UNCHANGED <<admissions, lifecycle>>
        /\ Persist(WithOp(st, <<"evidence", v>>, "started"))
    BY <1>3, <1>1 DEF Submit, Begin, mutexes, attempt, Begin, Intend, Resume, At
  <2>2. pc'[v] = <<"dispatch", <<"evidence", v>>>>
    BY <1>1, <2>1, Gone
  <2>3. /\ InAdmissions(v)' => Holds(admissions', v)
        /\ InLifecycle(v)' => Holds(lifecycle', v)
        /\ KeyedAt(v)'
    BY <1>1, <1>3, <2>1, <2>2 DEF Submit, Begin, InAdmissions, InLifecycle, Keyed, KeyedAt, Kinds, Outside, At, Exclusive, Return, Idle, Over
  <2>4. Placed(v)
    BY <1>1, <2>1, <2>3, PlacedIs DEF Next1, Return
  <2>5. Saves(v)
    <3> DEFINE s == WithOp(st, <<"evidence", v>>, "started")
    <3>1. /\ Persist(s) \/ (st' = s /\ saved' = saved)
          /\ DOMAIN s = Fields /\ s.resolved = st.resolved /\ st.unknown \subseteq s.unknown
          /\ Noted(st) \subseteq Noted(s) /\ s.runs \subseteq Verifs
      BY <1>1, <2>1 DEF Shapes, Fields, Noted, WithOp, Receipted, Evidenced
    <3>2. /\ s.status = st.status \/ s.status \notin Working \/ Resuming(v) \/ st.status \in Working
          /\ s.status \in {st.status, "verifying", "running"} \/ s.status \notin Working
          /\ s.status # "absent" /\ (s.status = "completed" => backend.status = "completed")
      BY <1>1, <1>2, <1>3, <2>1 DEF Submit, Begin, Shapes, Fields, WithOp, Receipted, Working, Resuming, Outside, At, Begins, Ended
    <3>3. s.evidence # None => Seen(s.evidence)
      BY <1>1, <2>1, EvidenceSeen DEF Shapes, Fields, WithOp, Receipted
    <3> HIDE DEF s
    <3> QED BY <3>1, <3>2, <3>3, SavesIs
  <2>6. Resuming(v)' => Resuming(v) \/ (backend.status # "completed" /\ NoneLost)
    BY <1>1, <1>3, <2>1, <2>2 DEF Submit, Begin, Resuming, At, Outside, NoneLost, Recovered, Ended, Idle, Over
  <2>7. Holds(admissions, v) \/ Leaves(v)
    BY <1>1, <1>3, <2>1, <2>2 DEF Submit, Begin, Leaves, Exclusive, InAdmissions, Outside, At, Persist, Receipted, WithOp, Shapes, Fields, attempt, Idle, Over
  <2> QED BY <1>1, <1>2, <2>1, <2>2, <2>4, <2>5, <2>6, <2>7 DEF MethodStep, Slotted, Idle, Over
<1>4. CASE Throw(v)
  <2>1. Throw(v)
    BY <1>4 DEF Submit, Begin
  <2> QED BY <1>1, <1>2, <2>1, ThrowStep
<1>5. CASE ~Throw(v) /\ ~Intend(v, st, <<"evidence", v>>)
  <2>1. /\ Goto(v, Over) /\ Return(v)
        /\ UNCHANGED saved /\ st' = WithOp(st, <<"evidence", v>>, "refused")
    BY <1>5, <1>1 DEF Submit, Begin, mutexes, attempt, Begin, Intend, Resume, At
  <2>2. pc'[v] = Over
    BY <1>1, <2>1, Gone
  <2>3. /\ InAdmissions(v)' => Holds(admissions', v)
        /\ InLifecycle(v)' => Holds(lifecycle', v)
        /\ KeyedAt(v)'
    BY <1>1, <1>5, <2>1, <2>2 DEF Submit, Begin, InAdmissions, InLifecycle, Keyed, KeyedAt, Kinds, Outside, At, Exclusive, Return, Idle, Over
  <2>4. Placed(v)
    BY <1>1, <2>1, <2>3, PlacedIs DEF Next1, Return
  <2>5. Saves(v)
    <3> DEFINE s == WithOp(st, <<"evidence", v>>, "refused")
    <3>1. /\ Persist(s) \/ (st' = s /\ saved' = saved)
          /\ DOMAIN s = Fields /\ s.resolved = st.resolved /\ st.unknown \subseteq s.unknown
          /\ Noted(st) \subseteq Noted(s) /\ s.runs \subseteq Verifs
      BY <1>1, <2>1 DEF Shapes, Fields, Noted, WithOp, Receipted, Evidenced
    <3>2. /\ s.status = st.status \/ s.status \notin Working \/ Resuming(v) \/ st.status \in Working
          /\ s.status \in {st.status, "verifying", "running"} \/ s.status \notin Working
          /\ s.status # "absent" /\ (s.status = "completed" => backend.status = "completed")
      BY <1>1, <1>2, <1>5, <2>1 DEF Submit, Begin, Shapes, Fields, WithOp, Receipted, Working, Resuming, Outside, At, Begins, Ended
    <3>3. s.evidence # None => Seen(s.evidence)
      BY <1>1, <2>1, EvidenceSeen DEF Shapes, Fields, WithOp, Receipted
    <3> HIDE DEF s
    <3> QED BY <3>1, <3>2, <3>3, SavesIs
  <2>6. Resuming(v)' => Resuming(v) \/ (backend.status # "completed" /\ NoneLost)
    BY <1>1, <1>5, <2>1, <2>2 DEF Submit, Begin, Resuming, At, Outside, NoneLost, Recovered, Ended, Idle, Over
  <2>7. Holds(admissions, v) \/ Leaves(v)
    BY <1>1, <1>5, <2>1, <2>2 DEF Submit, Begin, Leaves, Exclusive, InAdmissions, Outside, At, Persist, Receipted, WithOp, Shapes, Fields, attempt, Idle, Over
  <2> QED BY <1>1, <1>2, <2>1, <2>2, <2>4, <2>5, <2>6, <2>7 DEF MethodStep, Slotted, Idle, Over
<1> QED BY <1>3, <1>4, <1>5 DEF Submit, Begin

LEMMA SubmittedEvidenceStep ==
  ASSUME IInv, NEW v \in Verifs, SubmittedEvidence(v)
  PROVE  MethodStep(v)
<1> USE OpsAre
<1>1. /\ Shapes /\ Exclusive /\ Begins /\ Ended /\ Evidenced /\ Recovered /\ Finalizing /\ Keyed /\ Remembered
      /\ v \in Ops \ {"shutdown"} /\ pc[v][1] \notin Slotted /\ UNCHANGED <<backend, exec, proof, slot, done>>
  BY DEF IInv, SubmittedEvidence, At, Slotted, calls, world
<1>2. saved.status # "absent"
  BY <1>1 DEF SubmittedEvidence, Begins, At, Outside, Absent
<1>3. /\ Goto(v, Over) /\ Return(v)
      /\ Persist(Receipted(pc[v][2]))
  BY <1>1 DEF SubmittedEvidence, mutexes, attempt, Begin, Intend, Resume, At
<1>4. pc'[v] = Over
  BY <1>1, <1>3, Gone
<1>5. /\ InAdmissions(v)' => Holds(admissions', v)
      /\ InLifecycle(v)' => Holds(lifecycle', v)
      /\ KeyedAt(v)'
  BY <1>1, <1>3, <1>4 DEF SubmittedEvidence, InAdmissions, InLifecycle, Keyed, KeyedAt, Kinds, Outside, At, Exclusive, Return, Idle, Over
<1>6. Placed(v)
  BY <1>1, <1>3, <1>5, PlacedIs DEF Next1, Return
<1>7. Saves(v)
  <2> DEFINE s == Receipted(pc[v][2])
  <2>1. /\ Persist(s) \/ (st' = s /\ saved' = saved)
        /\ DOMAIN s = Fields /\ s.resolved = st.resolved /\ st.unknown \subseteq s.unknown
        /\ Noted(st) \subseteq Noted(s) /\ s.runs \subseteq Verifs
    BY <1>1, <1>3 DEF Shapes, Fields, Noted, WithOp, Receipted, Evidenced
  <2>2. /\ s.status = st.status \/ s.status \notin Working \/ Resuming(v) \/ st.status \in Working
        /\ s.status \in {st.status, "verifying", "running"} \/ s.status \notin Working
        /\ s.status # "absent" /\ (s.status = "completed" => backend.status = "completed")
    BY <1>1, <1>2, <1>3 DEF SubmittedEvidence, Shapes, Fields, WithOp, Receipted, Working, Resuming, Outside, At, Begins, Ended
  <2>3. s.evidence # None => Seen(s.evidence)
    BY <1>1, <1>3, EvidenceSeen DEF Shapes, Fields, WithOp, Receipted
  <2> HIDE DEF s
  <2> QED BY <2>1, <2>2, <2>3, SavesIs
<1>8. Resuming(v)' => Resuming(v) \/ (backend.status # "completed" /\ NoneLost)
  BY <1>1, <1>3, <1>4 DEF SubmittedEvidence, Resuming, At, Outside, NoneLost, Recovered, Ended, Idle, Over
<1>9. Holds(admissions, v) \/ Leaves(v)
  BY <1>1, <1>3, <1>4 DEF SubmittedEvidence, Leaves, Exclusive, InAdmissions, Outside, At, Persist, Receipted, WithOp, Shapes, Fields, attempt, Idle, Over
<1> QED BY <1>1, <1>2, <1>3, <1>4, <1>6, <1>7, <1>8, <1>9 DEF MethodStep, Slotted, Idle, Over

LEMMA CallRenewStep ==
  ASSUME IInv, CallRenew
  PROVE  MethodStep("renew")
<1> USE OpsAre
<1>1. /\ Shapes /\ Exclusive /\ Begins /\ Ended /\ Evidenced /\ Recovered /\ Finalizing /\ Keyed /\ Remembered
      /\ "renew" \in Ops \ {"shutdown"} /\ pc["renew"][1] \notin Slotted /\ UNCHANGED <<backend, exec, proof, slot, done>>
  BY DEF IInv, CallRenew, At, Slotted, calls, world
<1>2. saved.status # "absent"
  BY <1>1 DEF CallRenew, Begins, At, Outside, Absent
<1>3. /\ Goto("renew", <<"lifecycle">>) /\ lifecycle' = Queue(lifecycle, "renew") /\ admissions' = admissions
      /\ attempt' = attempt
  BY <1>1 DEF CallRenew, mutexes, attempt, Begin, Intend, Resume, At
<1>4. pc'["renew"] = <<"lifecycle">>
  BY <1>1, <1>3, Gone
<1>5. /\ InAdmissions("renew")' => Holds(admissions', "renew")
      /\ InLifecycle("renew")' => Holds(lifecycle', "renew")
      /\ KeyedAt("renew")'
  BY <1>1, <1>3, <1>4 DEF CallRenew, InAdmissions, InLifecycle, Keyed, KeyedAt, Kinds, Outside, At, Exclusive, Return, Idle, Over
<1>6. Placed("renew")
  BY <1>1, <1>3, <1>5, PlacedIs DEF Next1, Return
<1>7. UNCHANGED attempt
  BY <1>3
<1>8. Resuming("renew")' => Resuming("renew") \/ (backend.status # "completed" /\ NoneLost)
  BY <1>1, <1>3, <1>4 DEF CallRenew, Resuming, At, Outside, NoneLost, Recovered, Ended, Idle, Over
<1>9. Holds(admissions, "renew") \/ Leaves("renew")
  BY <1>1, <1>3, <1>4 DEF CallRenew, Leaves, Exclusive, InAdmissions, Outside, At, Persist, Receipted, WithOp, Shapes, Fields, attempt, Idle, Over
<1> QED BY <1>1, <1>2, <1>3, <1>4, <1>6, <1>7, <1>8, <1>9 DEF MethodStep, Slotted, Idle, Over

LEMMA CheckRenewStep ==
  ASSUME IInv, CheckRenew
  PROVE  MethodStep("renew")
<1> USE OpsAre
<1>1. /\ Shapes /\ Exclusive /\ Begins /\ Ended /\ Evidenced /\ Recovered /\ Finalizing /\ Keyed /\ Remembered
      /\ "renew" \in Ops \ {"shutdown"} /\ pc["renew"][1] \notin Slotted /\ UNCHANGED <<backend, exec, proof, slot, done>>
  BY DEF IInv, CheckRenew, At, Slotted, calls, world
<1>2. saved.status # "absent"
  BY <1>1 DEF CheckRenew, Begins, At, Outside, Absent
<1>3. CASE ~Throw("renew")
  <2>1. /\ Goto("renew", <<"checked">>) /\ UNCHANGED <<admissions, lifecycle>>
        /\ attempt' = attempt
    BY <1>3, <1>1 DEF CheckRenew, mutexes, attempt, Begin, Intend, Resume, At
  <2>2. pc'["renew"] = <<"checked">>
    BY <1>1, <2>1, Gone
  <2>3. /\ InAdmissions("renew")' => Holds(admissions', "renew")
        /\ InLifecycle("renew")' => Holds(lifecycle', "renew")
        /\ KeyedAt("renew")'
    BY <1>1, <1>3, <2>1, <2>2 DEF CheckRenew, InAdmissions, InLifecycle, Keyed, KeyedAt, Kinds, Outside, At, Exclusive, Return, Idle, Over
  <2>4. Placed("renew")
    BY <1>1, <2>1, <2>3, PlacedIs DEF Next1, Return
  <2>5. UNCHANGED attempt
    BY <2>1
  <2>6. Resuming("renew")' => Resuming("renew") \/ (backend.status # "completed" /\ NoneLost)
    BY <1>1, <1>3, <2>1, <2>2 DEF CheckRenew, Resuming, At, Outside, NoneLost, Recovered, Ended, Idle, Over
  <2>7. Holds(admissions, "renew") \/ Leaves("renew")
    BY <1>1, <1>3, <2>1, <2>2 DEF CheckRenew, Leaves, Exclusive, InAdmissions, Outside, At, Persist, Receipted, WithOp, Shapes, Fields, attempt, Idle, Over
  <2> QED BY <1>1, <1>2, <2>1, <2>2, <2>4, <2>5, <2>6, <2>7 DEF MethodStep, Slotted, Idle, Over
<1>4. CASE Throw("renew")
  <2>1. Throw("renew")
    BY <1>4 DEF CheckRenew
  <2> QED BY <1>1, <1>2, <2>1, ThrowStep
<1> QED BY <1>3, <1>4 DEF CheckRenew

LEMMA HeartbeatStep ==
  ASSUME IInv, Heartbeat
  PROVE  MethodStep("renew")
<1> USE OpsAre
<1>1. /\ Shapes /\ Exclusive /\ Begins /\ Ended /\ Evidenced /\ Recovered /\ Finalizing /\ Keyed /\ Remembered
      /\ "renew" \in Ops \ {"shutdown"} /\ pc["renew"][1] \notin Slotted /\ UNCHANGED <<backend, exec, proof, slot, done>>
  BY DEF IInv, Heartbeat, NextKey, At, Slotted, calls, world
<1>2. saved.status # "absent"
  BY <1>1 DEF Heartbeat, NextKey, Begins, At, Outside, Absent
<1>3. CASE Intend("renew", st, NextKey("heartbeat"))
  <2>1. /\ Goto("renew", <<"dispatch", NextKey("heartbeat")>>) /\ UNCHANGED <<admissions, lifecycle>>
        /\ Persist(WithOp(st, NextKey("heartbeat"), "started"))
    BY <1>3, <1>1 DEF Heartbeat, NextKey, mutexes, attempt, Begin, Intend, Resume, At
  <2>2. pc'["renew"] = <<"dispatch", NextKey("heartbeat")>>
    BY <1>1, <2>1, Gone
  <2>3. /\ InAdmissions("renew")' => Holds(admissions', "renew")
        /\ InLifecycle("renew")' => Holds(lifecycle', "renew")
        /\ KeyedAt("renew")'
    BY <1>1, <1>3, <2>1, <2>2 DEF Heartbeat, NextKey, InAdmissions, InLifecycle, Keyed, KeyedAt, Kinds, Outside, At, Exclusive, Return, Idle, Over
  <2>4. Placed("renew")
    BY <1>1, <2>1, <2>3, PlacedIs DEF Next1, Return
  <2>5. Saves("renew")
    <3> DEFINE s == WithOp(st, NextKey("heartbeat"), "started")
    <3>1. /\ Persist(s) \/ (st' = s /\ saved' = saved)
          /\ DOMAIN s = Fields /\ s.resolved = st.resolved /\ st.unknown \subseteq s.unknown
          /\ Noted(st) \subseteq Noted(s) /\ s.runs \subseteq Verifs
      BY <1>1, <2>1 DEF Shapes, Fields, Noted, WithOp, Receipted, Evidenced
    <3>2. /\ s.status = st.status \/ s.status \notin Working \/ Resuming("renew") \/ st.status \in Working
          /\ s.status \in {st.status, "verifying", "running"} \/ s.status \notin Working
          /\ s.status # "absent" /\ (s.status = "completed" => backend.status = "completed")
      BY <1>1, <1>2, <1>3, <2>1 DEF Heartbeat, NextKey, Shapes, Fields, WithOp, Receipted, Working, Resuming, Outside, At, Begins, Ended, NextKey
    <3>3. s.evidence # None => Seen(s.evidence)
      BY <1>1, <2>1, EvidenceSeen DEF Shapes, Fields, WithOp, Receipted
    <3> HIDE DEF s
    <3> QED BY <3>1, <3>2, <3>3, SavesIs
  <2>6. Resuming("renew")' => Resuming("renew") \/ (backend.status # "completed" /\ NoneLost)
    BY <1>1, <1>3, <2>1, <2>2 DEF Heartbeat, NextKey, Resuming, At, Outside, NoneLost, Recovered, Ended, Idle, Over
  <2>7. Holds(admissions, "renew") \/ Leaves("renew")
    BY <1>1, <1>3, <2>1, <2>2 DEF Heartbeat, NextKey, Leaves, Exclusive, InAdmissions, Outside, At, Persist, Receipted, WithOp, Shapes, Fields, attempt, Idle, Over
  <2> QED BY <1>1, <1>2, <2>1, <2>2, <2>4, <2>5, <2>6, <2>7 DEF MethodStep, Slotted, Idle, Over
<1>4. CASE ~Intend("renew", st, NextKey("heartbeat"))
  <2>1. /\ Goto("renew", <<"failed", None>>) /\ UNCHANGED <<admissions, lifecycle>>
        /\ attempt' = attempt
    BY <1>4, <1>1 DEF Heartbeat, NextKey, mutexes, attempt, Begin, Intend, Resume, At
  <2>2. pc'["renew"] = <<"failed", None>>
    BY <1>1, <2>1, Gone
  <2>3. /\ InAdmissions("renew")' => Holds(admissions', "renew")
        /\ InLifecycle("renew")' => Holds(lifecycle', "renew")
        /\ KeyedAt("renew")'
    BY <1>1, <1>4, <2>1, <2>2 DEF Heartbeat, NextKey, InAdmissions, InLifecycle, Keyed, KeyedAt, Kinds, Outside, At, Exclusive, Return, Idle, Over
  <2>4. Placed("renew")
    BY <1>1, <2>1, <2>3, PlacedIs DEF Next1, Return
  <2>5. UNCHANGED attempt
    BY <2>1
  <2>6. Resuming("renew")' => Resuming("renew") \/ (backend.status # "completed" /\ NoneLost)
    BY <1>1, <1>4, <2>1, <2>2 DEF Heartbeat, NextKey, Resuming, At, Outside, NoneLost, Recovered, Ended, Idle, Over
  <2>7. Holds(admissions, "renew") \/ Leaves("renew")
    BY <1>1, <1>4, <2>1, <2>2 DEF Heartbeat, NextKey, Leaves, Exclusive, InAdmissions, Outside, At, Persist, Receipted, WithOp, Shapes, Fields, attempt, Idle, Over
  <2> QED BY <1>1, <1>2, <2>1, <2>2, <2>4, <2>5, <2>6, <2>7 DEF MethodStep, Slotted, Idle, Over
<1> QED BY <1>3, <1>4 DEF Heartbeat, NextKey

LEMMA RenewedStep ==
  ASSUME IInv, Renewed
  PROVE  MethodStep("renew")
<1> USE OpsAre
<1>1. /\ Shapes /\ Exclusive /\ Begins /\ Ended /\ Evidenced /\ Recovered /\ Finalizing /\ Keyed /\ Remembered
      /\ "renew" \in Ops \ {"shutdown"} /\ pc["renew"][1] \notin Slotted /\ UNCHANGED <<backend, exec, proof, slot, done>>
  BY DEF IInv, Renewed, At, Slotted, calls, world
<1>2. saved.status # "absent"
  BY <1>1 DEF Renewed, Begins, At, Outside, Absent
<1>3. /\ Goto("renew", Idle) /\ Return("renew")
      /\ Persist(Receipted(pc["renew"][2]))
  BY <1>1 DEF Renewed, mutexes, attempt, Begin, Intend, Resume, At
<1>4. pc'["renew"] = Idle
  BY <1>1, <1>3, Gone
<1>5. /\ InAdmissions("renew")' => Holds(admissions', "renew")
      /\ InLifecycle("renew")' => Holds(lifecycle', "renew")
      /\ KeyedAt("renew")'
  BY <1>1, <1>3, <1>4 DEF Renewed, InAdmissions, InLifecycle, Keyed, KeyedAt, Kinds, Outside, At, Exclusive, Return, Idle, Over
<1>6. Placed("renew")
  BY <1>1, <1>3, <1>5, PlacedIs DEF Next1, Return
<1>7. Saves("renew")
  <2> DEFINE s == Receipted(pc["renew"][2])
  <2>1. /\ Persist(s) \/ (st' = s /\ saved' = saved)
        /\ DOMAIN s = Fields /\ s.resolved = st.resolved /\ st.unknown \subseteq s.unknown
        /\ Noted(st) \subseteq Noted(s) /\ s.runs \subseteq Verifs
    BY <1>1, <1>3 DEF Shapes, Fields, Noted, WithOp, Receipted, Evidenced
  <2>2. /\ s.status = st.status \/ s.status \notin Working \/ Resuming("renew") \/ st.status \in Working
        /\ s.status \in {st.status, "verifying", "running"} \/ s.status \notin Working
        /\ s.status # "absent" /\ (s.status = "completed" => backend.status = "completed")
    BY <1>1, <1>2, <1>3 DEF Renewed, Shapes, Fields, WithOp, Receipted, Working, Resuming, Outside, At, Begins, Ended
  <2>3. s.evidence # None => Seen(s.evidence)
    BY <1>1, <1>3, EvidenceSeen DEF Shapes, Fields, WithOp, Receipted
  <2> HIDE DEF s
  <2> QED BY <2>1, <2>2, <2>3, SavesIs
<1>8. Resuming("renew")' => Resuming("renew") \/ (backend.status # "completed" /\ NoneLost)
  BY <1>1, <1>3, <1>4 DEF Renewed, Resuming, At, Outside, NoneLost, Recovered, Ended, Idle, Over
<1>9. Holds(admissions, "renew") \/ Leaves("renew")
  BY <1>1, <1>3, <1>4 DEF Renewed, Leaves, Exclusive, InAdmissions, Outside, At, Persist, Receipted, WithOp, Shapes, Fields, attempt, Idle, Over
<1> QED BY <1>1, <1>2, <1>3, <1>4, <1>6, <1>7, <1>8, <1>9 DEF MethodStep, Slotted, Idle, Over

LEMMA CallFinishStep ==
  ASSUME IInv, CallFinish
  PROVE  MethodStep("finish")
<1> USE OpsAre
<1>1. /\ Shapes /\ Exclusive /\ Begins /\ Ended /\ Evidenced /\ Recovered /\ Finalizing /\ Keyed /\ Remembered
      /\ "finish" \in Ops \ {"shutdown"} /\ pc["finish"][1] \notin Slotted /\ UNCHANGED <<backend, exec, proof, slot, done>>
  BY DEF IInv, CallFinish, At, Slotted, calls, world
<1>2. saved.status # "absent"
  BY <1>1 DEF CallFinish, Begins, At, Outside, Absent
<1>3. /\ Goto("finish", <<"admission">>) /\ admissions' = Queue(admissions, "finish") /\ lifecycle' = lifecycle
      /\ attempt' = attempt
  BY <1>1 DEF CallFinish, mutexes, attempt, Begin, Intend, Resume, At
<1>4. pc'["finish"] = <<"admission">>
  BY <1>1, <1>3, Gone
<1>5. /\ InAdmissions("finish")' => Holds(admissions', "finish")
      /\ InLifecycle("finish")' => Holds(lifecycle', "finish")
      /\ KeyedAt("finish")'
  BY <1>1, <1>3, <1>4 DEF CallFinish, InAdmissions, InLifecycle, Keyed, KeyedAt, Kinds, Outside, At, Exclusive, Return, Idle, Over
<1>6. Placed("finish")
  BY <1>1, <1>3, <1>5, PlacedIs DEF Next1, Return
<1>7. UNCHANGED attempt
  BY <1>3
<1>8. Resuming("finish")' => Resuming("finish") \/ (backend.status # "completed" /\ NoneLost)
  BY <1>1, <1>3, <1>4 DEF CallFinish, Resuming, At, Outside, NoneLost, Recovered, Ended, Idle, Over
<1>9. Holds(admissions, "finish") \/ Leaves("finish")
  BY <1>1, <1>3, <1>4 DEF CallFinish, Leaves, Exclusive, InAdmissions, Outside, At, Persist, Receipted, WithOp, Shapes, Fields, attempt, Idle, Over
<1>10. Finalizing'
  BY <1>1, <1>3, <1>4 DEF CallFinish, Finalizing, At, Idle
<1> QED BY <1>1, <1>2, <1>3, <1>4, <1>6, <1>7, <1>8, <1>9, <1>10 DEF MethodStep, Slotted, Idle, Over

LEMMA FinishNestStep ==
  ASSUME IInv, Nest("finish")
  PROVE  MethodStep("finish")
<1> USE OpsAre
<1>1. /\ Shapes /\ Exclusive /\ Begins /\ Ended /\ Evidenced /\ Recovered /\ Finalizing /\ Keyed /\ Remembered
      /\ "finish" \in Ops \ {"shutdown"} /\ pc["finish"][1] \notin Slotted /\ UNCHANGED <<backend, exec, proof, slot, done>>
  BY DEF IInv, Nest, At, Slotted, calls, world
<1>2. saved.status # "absent"
  BY <1>1 DEF Nest, Begins, At, Outside, Absent
<1>3. /\ Goto("finish", <<"lifecycle">>) /\ lifecycle' = Queue(lifecycle, "finish") /\ admissions' = admissions
      /\ attempt' = attempt
  BY <1>1 DEF Nest, mutexes, attempt, Begin, Intend, Resume, At
<1>4. pc'["finish"] = <<"lifecycle">>
  BY <1>1, <1>3, Gone
<1>5. /\ InAdmissions("finish")' => Holds(admissions', "finish")
      /\ InLifecycle("finish")' => Holds(lifecycle', "finish")
      /\ KeyedAt("finish")'
  BY <1>1, <1>3, <1>4 DEF Nest, InAdmissions, InLifecycle, Keyed, KeyedAt, Kinds, Outside, At, Exclusive, Return, Idle, Over
<1>6. Placed("finish")
  BY <1>1, <1>3, <1>5, PlacedIs DEF Next1, Return
<1>7. UNCHANGED attempt
  BY <1>3
<1>8. Resuming("finish")' => Resuming("finish") \/ (backend.status # "completed" /\ NoneLost)
  BY <1>1, <1>3, <1>4 DEF Nest, Resuming, At, Outside, NoneLost, Recovered, Ended, Idle, Over
<1>9. Holds(admissions, "finish") \/ Leaves("finish")
  BY <1>1, <1>3, <1>4 DEF Nest, Leaves, Exclusive, InAdmissions, Outside, At, Persist, Receipted, WithOp, Shapes, Fields, attempt, Idle, Over
<1>10. Finalizing'
  BY <1>1, <1>3, <1>4 DEF Nest, Finalizing, At, Idle
<1> QED BY <1>1, <1>2, <1>3, <1>4, <1>6, <1>7, <1>8, <1>9, <1>10 DEF MethodStep, Slotted, Idle, Over

LEMMA ReconcileNestStep ==
  ASSUME IInv, Nest("reconcile")
  PROVE  MethodStep("reconcile")
<1> USE OpsAre
<1>1. /\ Shapes /\ Exclusive /\ Begins /\ Ended /\ Evidenced /\ Recovered /\ Finalizing /\ Keyed /\ Remembered
      /\ "reconcile" \in Ops \ {"shutdown"} /\ pc["reconcile"][1] \notin Slotted /\ UNCHANGED <<backend, exec, proof, slot, done>>
  BY DEF IInv, Nest, At, Slotted, calls, world
<1>2. saved.status # "absent"
  BY <1>1 DEF Nest, Begins, At, Outside, Absent
<1>3. /\ Goto("reconcile", <<"lifecycle">>) /\ lifecycle' = Queue(lifecycle, "reconcile") /\ admissions' = admissions
      /\ attempt' = attempt
  BY <1>1 DEF Nest, mutexes, attempt, Begin, Intend, Resume, At
<1>4. pc'["reconcile"] = <<"lifecycle">>
  BY <1>1, <1>3, Gone
<1>5. /\ InAdmissions("reconcile")' => Holds(admissions', "reconcile")
      /\ InLifecycle("reconcile")' => Holds(lifecycle', "reconcile")
      /\ KeyedAt("reconcile")'
  BY <1>1, <1>3, <1>4 DEF Nest, InAdmissions, InLifecycle, Keyed, KeyedAt, Kinds, Outside, At, Exclusive, Return, Idle, Over
<1>6. Placed("reconcile")
  BY <1>1, <1>3, <1>5, PlacedIs DEF Next1, Return
<1>7. UNCHANGED attempt
  BY <1>3
<1>8. Resuming("reconcile")' => Resuming("reconcile") \/ (backend.status # "completed" /\ NoneLost)
  BY <1>1, <1>3, <1>4 DEF Nest, Resuming, At, Outside, NoneLost, Recovered, Ended, Idle, Over
<1>9. Holds(admissions, "reconcile") \/ Leaves("reconcile")
  BY <1>1, <1>3, <1>4 DEF Nest, Leaves, Exclusive, InAdmissions, Outside, At, Persist, Receipted, WithOp, Shapes, Fields, attempt, Idle, Over
<1> QED BY <1>1, <1>2, <1>3, <1>4, <1>6, <1>7, <1>8, <1>9 DEF MethodStep, Slotted, Idle, Over

LEMMA FinalizeStep ==
  ASSUME IInv, NEW d \in {"complete", "review", "release"}, FinalizesAs(d)
  PROVE  MethodStep("finish")
<1> USE OpsAre
<1>1. /\ Shapes /\ Exclusive /\ Begins /\ Ended /\ Evidenced /\ Recovered /\ Finalizing /\ Keyed /\ Remembered
      /\ "finish" \in Ops \ {"shutdown"} /\ pc["finish"][1] \notin Slotted /\ UNCHANGED <<backend, exec, proof, slot, done>>
  BY DEF IInv, FinalizesAs, At, Slotted, calls, world
<1>2. saved.status # "absent"
  BY <1>1 DEF FinalizesAs, Begins, At, Outside, Absent
<1>3. CASE ~Throw("finish")
  <2>1. /\ Goto("finish", <<"finalizing", d>>) /\ UNCHANGED <<admissions, lifecycle>>
        /\ Persist([st EXCEPT !.status = "finalizing"]) /\ Finalizable(d)
    BY <1>3, <1>1 DEF FinalizesAs, mutexes, attempt, Begin, Intend, Resume, At
  <2>2. pc'["finish"] = <<"finalizing", d>>
    BY <1>1, <2>1, Gone
  <2>3. /\ InAdmissions("finish")' => Holds(admissions', "finish")
        /\ InLifecycle("finish")' => Holds(lifecycle', "finish")
        /\ KeyedAt("finish")'
    BY <1>1, <1>3, <2>1, <2>2 DEF FinalizesAs, InAdmissions, InLifecycle, Keyed, KeyedAt, Kinds, Outside, At, Exclusive, Return, Idle, Over
  <2>4. Placed("finish")
    BY <1>1, <2>1, <2>3, PlacedIs DEF Next1, Return
  <2>5. Saves("finish")
    <3> DEFINE s == [st EXCEPT !.status = "finalizing"]
    <3>1. /\ Persist(s) \/ (st' = s /\ saved' = saved)
          /\ DOMAIN s = Fields /\ s.resolved = st.resolved /\ st.unknown \subseteq s.unknown
          /\ Noted(st) \subseteq Noted(s) /\ s.runs \subseteq Verifs
      BY <1>1, <2>1 DEF Shapes, Fields, Noted, WithOp, Receipted, Evidenced
    <3>2. /\ s.status = st.status \/ s.status \notin Working \/ Resuming("finish") \/ st.status \in Working
          /\ s.status \in {st.status, "verifying", "running"} \/ s.status \notin Working
          /\ s.status # "absent" /\ (s.status = "completed" => backend.status = "completed")
      BY <1>1, <1>2, <1>3, <2>1 DEF FinalizesAs, Shapes, Fields, WithOp, Receipted, Working, Resuming, Outside, At, Begins, Ended
    <3>3. s.evidence # None => Seen(s.evidence)
      BY <1>1, <2>1, EvidenceSeen DEF Shapes, Fields, WithOp, Receipted
    <3> HIDE DEF s
    <3> QED BY <3>1, <3>2, <3>3, SavesIs
  <2>6. Resuming("finish")' => Resuming("finish") \/ (backend.status # "completed" /\ NoneLost)
    BY <1>1, <1>3, <2>1, <2>2 DEF FinalizesAs, Resuming, At, Outside, NoneLost, Recovered, Ended, Idle, Over
  <2>7. Holds(admissions, "finish") \/ Leaves("finish")
    BY <1>1, <1>3, <2>1, <2>2 DEF FinalizesAs, Leaves, Exclusive, InAdmissions, Outside, At, Persist, Receipted, WithOp, Shapes, Fields, attempt, Idle, Over
  <2>8. Finalizing'
    <3> DEFINE s == [st EXCEPT !.status = "finalizing"]
    <3>1. st' = s /\ saved' \in {saved, s} /\ (saved' = saved => saved'.status \notin Working)
      BY <2>1 DEF Persist, Closed, Working
    <3>2. s.status \notin Working /\ s.inflight = st.inflight /\ s.unknown = st.unknown /\ s.evidence = st.evidence
      BY <1>1 DEF Shapes, Fields, Working
    <3> HIDE DEF s
    <3>3. \A c \in Calls : c # "finish" /\ pc'[c] = pc[c]
      BY <2>4 DEF Placed
    <3>4. (\A c \in Calls : pc[c][1] \notin Busy) /\ st.inflight = {} /\ st.unknown = {}
      BY <2>1 DEF Finalizable, Draining, FinalizesAs, Launched, Inflight, Busy, At
    <3>5. pc'["finish"][1] = "dispatch" /\ pc'["finish"][2][1] = "complete" => backend.coverage = st.evidence
      BY <2>2
    <3>6. backend' = backend
      BY <1>1
    <3> QED BY <3>1, <3>2, <3>3, <3>4, <3>5, <3>6 DEF Finalizing, At
  <2> QED BY <1>1, <1>2, <2>1, <2>2, <2>4, <2>5, <2>6, <2>7, <2>8 DEF MethodStep, Slotted, Idle, Over
<1>4. CASE Throw("finish")
  <2>1. Throw("finish")
    BY <1>4 DEF FinalizesAs
  <2> QED BY <1>1, <1>2, <2>1, ThrowStep
<1> QED BY <1>3, <1>4 DEF FinalizesAs

LEMMA DisposeStep ==
  ASSUME IInv, NEW kind \in {"complete", "review", "release"}, DisposesAs(kind)
  PROVE  MethodStep("finish")
<1> USE OpsAre
<1>1. /\ Shapes /\ Exclusive /\ Begins /\ Ended /\ Evidenced /\ Recovered /\ Finalizing /\ Keyed /\ Remembered
      /\ "finish" \in Ops \ {"shutdown"} /\ pc["finish"][1] \notin Slotted /\ UNCHANGED <<backend, exec, proof, slot, done>>
  BY DEF IInv, DisposesAs, Begin, NextKey, At, Slotted, calls, world
<1>2. saved.status # "absent"
  BY <1>1 DEF DisposesAs, Begin, NextKey, Begins, At, Outside, Absent
<1>3. CASE ~Throw("finish")
  <2>1. /\ Goto("finish", <<"dispatch", NextKey(kind)>>) /\ UNCHANGED <<admissions, lifecycle>>
        /\ Persist(WithOp(st, NextKey(kind), "started"))
    BY <1>3, <1>1 DEF DisposesAs, Begin, NextKey, mutexes, attempt, Begin, Intend, Resume, At
  <2>2. pc'["finish"] = <<"dispatch", NextKey(kind)>>
    BY <1>1, <2>1, Gone
  <2>3. /\ InAdmissions("finish")' => Holds(admissions', "finish")
        /\ InLifecycle("finish")' => Holds(lifecycle', "finish")
        /\ KeyedAt("finish")'
    BY <1>1, <1>3, <2>1, <2>2 DEF DisposesAs, Begin, NextKey, InAdmissions, InLifecycle, Keyed, KeyedAt, Kinds, Outside, At, Exclusive, Return, Idle, Over
  <2>4. Placed("finish")
    BY <1>1, <2>1, <2>3, PlacedIs DEF Next1, Return
  <2>5. Saves("finish")
    <3> DEFINE s == WithOp(st, NextKey(kind), "started")
    <3>1. /\ Persist(s) \/ (st' = s /\ saved' = saved)
          /\ DOMAIN s = Fields /\ s.resolved = st.resolved /\ st.unknown \subseteq s.unknown
          /\ Noted(st) \subseteq Noted(s) /\ s.runs \subseteq Verifs
      BY <1>1, <2>1 DEF Shapes, Fields, Noted, WithOp, Receipted, Evidenced
    <3>2. /\ s.status = st.status \/ s.status \notin Working \/ Resuming("finish") \/ st.status \in Working
          /\ s.status \in {st.status, "verifying", "running"} \/ s.status \notin Working
          /\ s.status # "absent" /\ (s.status = "completed" => backend.status = "completed")
      BY <1>1, <1>2, <1>3, <2>1 DEF DisposesAs, Begin, NextKey, Shapes, Fields, WithOp, Receipted, Working, Resuming, Outside, At, Begins, Ended
    <3>3. s.evidence # None => Seen(s.evidence)
      BY <1>1, <2>1, EvidenceSeen DEF Shapes, Fields, WithOp, Receipted
    <3> HIDE DEF s
    <3> QED BY <3>1, <3>2, <3>3, SavesIs
  <2>6. Resuming("finish")' => Resuming("finish") \/ (backend.status # "completed" /\ NoneLost)
    BY <1>1, <1>3, <2>1, <2>2 DEF DisposesAs, Begin, NextKey, Resuming, At, Outside, NoneLost, Recovered, Ended, Idle, Over
  <2>7. Holds(admissions, "finish") \/ Leaves("finish")
    BY <1>1, <1>3, <2>1, <2>2 DEF DisposesAs, Begin, NextKey, Leaves, Exclusive, InAdmissions, Outside, At, Persist, Receipted, WithOp, Shapes, Fields, attempt, Idle, Over
  <2>8. Finalizing'
    <3> DEFINE s == WithOp(st, NextKey(kind), "started")
    <3>1. st' = s /\ saved' \in {saved, s} /\ (saved' = saved => saved'.status \notin Working)
      BY <1>1, <2>1 DEF Persist, Finalizing, DisposesAs, At
    <3>2. s.status \notin Working /\ s.inflight = st.inflight /\ s.unknown = st.unknown /\ s.evidence = st.evidence
      BY <1>1 DEF Shapes, Fields, WithOp, Finalizing, DisposesAs, At
    <3> HIDE DEF s
    <3>3. \A c \in Calls : c # "finish" /\ pc'[c] = pc[c]
      BY <2>4 DEF Placed
    <3>4. (\A c \in Calls : pc[c][1] \notin Busy) /\ st.inflight = {} /\ st.unknown = {}
      BY <1>1 DEF Finalizing, DisposesAs, At
    <3>5. pc'["finish"][1] = "dispatch" /\ pc'["finish"][2][1] = "complete" => backend.coverage = st.evidence
      BY <2>2 DEF DisposesAs, Proven, NextKey
    <3>6. backend' = backend
      BY <1>1
    <3> QED BY <3>1, <3>2, <3>3, <3>4, <3>5, <3>6 DEF Finalizing, At
  <2> QED BY <1>1, <1>2, <2>1, <2>2, <2>4, <2>5, <2>6, <2>7, <2>8 DEF MethodStep, Slotted, Idle, Over
<1>4. CASE Throw("finish")
  <2>1. Throw("finish")
    BY <1>4 DEF DisposesAs, Begin, NextKey
  <2> QED BY <1>1, <1>2, <2>1, ThrowStep
<1> QED BY <1>3, <1>4 DEF DisposesAs, Begin, NextKey

LEMMA ReadbackStep ==
  ASSUME IInv, Readback
  PROVE  MethodStep("finish")
<1> USE OpsAre
<1>1. /\ Shapes /\ Exclusive /\ Begins /\ Ended /\ Evidenced /\ Recovered /\ Finalizing /\ Keyed /\ Remembered
      /\ "finish" \in Ops \ {"shutdown"} /\ pc["finish"][1] \notin Slotted /\ UNCHANGED <<backend, exec, proof, slot, done>>
  BY DEF IInv, Readback, At, Slotted, calls, world
<1>2. saved.status # "absent"
  BY <1>1 DEF Readback, Begins, At, Outside, Absent
<1>3. /\ Goto("finish", Idle) /\ Return("finish")
      /\ Persist([st EXCEPT !.status = IF backend.status = Submitted[pc["finish"][2][1]] /\ (pc["finish"][2][1] = "complete" => Proven) THEN Submitted[pc["finish"][2][1]] ELSE "reconciliation_required"])
  BY <1>1 DEF Readback, mutexes, attempt, Begin, Intend, Resume, At
<1>4. pc'["finish"] = Idle
  BY <1>1, <1>3, Gone
<1>5. /\ InAdmissions("finish")' => Holds(admissions', "finish")
      /\ InLifecycle("finish")' => Holds(lifecycle', "finish")
      /\ KeyedAt("finish")'
  BY <1>1, <1>3, <1>4 DEF Readback, InAdmissions, InLifecycle, Keyed, KeyedAt, Kinds, Outside, At, Exclusive, Return, Idle, Over
<1>6. Placed("finish")
  BY <1>1, <1>3, <1>5, PlacedIs DEF Next1, Return
<1>7. Saves("finish")
  <2> DEFINE s == [st EXCEPT !.status = IF backend.status = Submitted[pc["finish"][2][1]] /\ (pc["finish"][2][1] = "complete" => Proven) THEN Submitted[pc["finish"][2][1]] ELSE "reconciliation_required"]
  <2>1. /\ Persist(s) \/ (st' = s /\ saved' = saved)
        /\ DOMAIN s = Fields /\ s.resolved = st.resolved /\ st.unknown \subseteq s.unknown
        /\ Noted(st) \subseteq Noted(s) /\ s.runs \subseteq Verifs
    BY <1>1, <1>3 DEF Shapes, Fields, Noted, WithOp, Receipted, Evidenced
  <2>2. /\ s.status = st.status \/ s.status \notin Working \/ Resuming("finish") \/ st.status \in Working
        /\ s.status \in {st.status, "verifying", "running"} \/ s.status \notin Working
        /\ s.status # "absent" /\ (s.status = "completed" => backend.status = "completed")
    <3>1. pc["finish"][2][1] \in {"complete", "review", "release"}
      BY <1>1 DEF Readback, Keyed, KeyedAt, Kinds, At
    <3>2. /\ s.status \in {"completed", "needs_review", "released", "reconciliation_required"}
          /\ s.status = "completed" => backend.status = "completed"
      BY <1>1, <3>1 DEF Shapes, Fields, Submitted
    <3> QED BY <3>2 DEF Working
  <2>3. s.evidence # None => Seen(s.evidence)
    BY <1>1, <1>3, EvidenceSeen DEF Shapes, Fields, WithOp, Receipted
  <2> HIDE DEF s
  <2> QED BY <2>1, <2>2, <2>3, SavesIs
<1>8. Resuming("finish")' => Resuming("finish") \/ (backend.status # "completed" /\ NoneLost)
  BY <1>1, <1>3, <1>4 DEF Readback, Resuming, At, Outside, NoneLost, Recovered, Ended, Idle, Over
<1>9. Holds(admissions, "finish") \/ Leaves("finish")
  BY <1>1, <1>3, <1>4 DEF Readback, Leaves, Exclusive, InAdmissions, Outside, At, Persist, Receipted, WithOp, Shapes, Fields, attempt, Idle, Over
<1>10. Finalizing'
  BY <1>1, <1>3, <1>4 DEF Readback, Finalizing, At, Idle
<1> QED BY <1>1, <1>2, <1>3, <1>4, <1>6, <1>7, <1>8, <1>9, <1>10 DEF MethodStep, Slotted, Idle, Over

LEMMA DisposedStep ==
  ASSUME IInv, Disposed
  PROVE  MethodStep("finish")
<1> USE OpsAre
<1>1. /\ Shapes /\ Exclusive /\ Begins /\ Ended /\ Evidenced /\ Recovered /\ Finalizing /\ Keyed /\ Remembered
      /\ "finish" \in Ops \ {"shutdown"} /\ pc["finish"][1] \notin Slotted /\ UNCHANGED <<backend, exec, proof, slot, done>>
  BY DEF IInv, Disposed, At, Slotted, calls, world
<1>2. saved.status # "absent"
  BY <1>1 DEF Disposed, Begins, At, Outside, Absent
<1>3. /\ Goto("finish", <<"readback", pc["finish"][2]>>) /\ UNCHANGED <<admissions, lifecycle>>
      /\ Persist(Receipted(pc["finish"][2]))
  BY <1>1 DEF Disposed, mutexes, attempt, Begin, Intend, Resume, At
<1>4. pc'["finish"] = <<"readback", pc["finish"][2]>>
  BY <1>1, <1>3, Gone
<1>5. /\ InAdmissions("finish")' => Holds(admissions', "finish")
      /\ InLifecycle("finish")' => Holds(lifecycle', "finish")
      /\ KeyedAt("finish")'
  BY <1>1, <1>3, <1>4 DEF Disposed, InAdmissions, InLifecycle, Keyed, KeyedAt, Kinds, Outside, At, Exclusive, Return, Idle, Over
<1>6. Placed("finish")
  BY <1>1, <1>3, <1>5, PlacedIs DEF Next1, Return
<1>7. Saves("finish")
  <2> DEFINE s == Receipted(pc["finish"][2])
  <2>1. /\ Persist(s) \/ (st' = s /\ saved' = saved)
        /\ DOMAIN s = Fields /\ s.resolved = st.resolved /\ st.unknown \subseteq s.unknown
        /\ Noted(st) \subseteq Noted(s) /\ s.runs \subseteq Verifs
    BY <1>1, <1>3 DEF Shapes, Fields, Noted, WithOp, Receipted, Evidenced
  <2>2. /\ s.status = st.status \/ s.status \notin Working \/ Resuming("finish") \/ st.status \in Working
        /\ s.status \in {st.status, "verifying", "running"} \/ s.status \notin Working
        /\ s.status # "absent" /\ (s.status = "completed" => backend.status = "completed")
    BY <1>1, <1>2, <1>3 DEF Disposed, Shapes, Fields, WithOp, Receipted, Working, Resuming, Outside, At, Begins, Ended
  <2>3. s.evidence # None => Seen(s.evidence)
    BY <1>1, <1>3, EvidenceSeen DEF Shapes, Fields, WithOp, Receipted
  <2> HIDE DEF s
  <2> QED BY <2>1, <2>2, <2>3, SavesIs
<1>8. Resuming("finish")' => Resuming("finish") \/ (backend.status # "completed" /\ NoneLost)
  BY <1>1, <1>3, <1>4 DEF Disposed, Resuming, At, Outside, NoneLost, Recovered, Ended, Idle, Over
<1>9. Holds(admissions, "finish") \/ Leaves("finish")
  BY <1>1, <1>3, <1>4 DEF Disposed, Leaves, Exclusive, InAdmissions, Outside, At, Persist, Receipted, WithOp, Shapes, Fields, attempt, Idle, Over
<1>10. Finalizing'
  BY <1>1, <1>3, <1>4 DEF Disposed, Finalizing, Receipted, WithOp, Persist, Shapes, Fields, At
<1> QED BY <1>1, <1>2, <1>3, <1>4, <1>6, <1>7, <1>8, <1>9, <1>10 DEF MethodStep, Slotted, Idle, Over

LEMMA StartFailsStep ==
  ASSUME IInv, Fails("start")
  PROVE  MethodStep("start")
<1> USE OpsAre
<1>1. /\ Shapes /\ Exclusive /\ Begins /\ Ended /\ Evidenced /\ Recovered /\ Finalizing /\ Keyed /\ Remembered
      /\ "start" \in Ops \ {"shutdown"} /\ pc["start"][1] \notin Slotted /\ UNCHANGED <<backend, exec, proof, slot, done>>
  BY DEF IInv, Fails, At, Slotted, calls, world
<1>2. saved.status # "absent"
  BY <1>1 DEF Fails, Begins, At, Outside, Absent
<1>3. /\ Goto("start", Idle) /\ Return("start")
      /\ Persist([st EXCEPT !.status = "reconciliation_required", !.renewalFailed = @ \/ "start" = "renew"])
  BY <1>1 DEF Fails, mutexes, attempt, Begin, Intend, Resume, At
<1>4. pc'["start"] = Idle
  BY <1>1, <1>3, Gone
<1>5. /\ InAdmissions("start")' => Holds(admissions', "start")
      /\ InLifecycle("start")' => Holds(lifecycle', "start")
      /\ KeyedAt("start")'
  BY <1>1, <1>3, <1>4 DEF Fails, InAdmissions, InLifecycle, Keyed, KeyedAt, Kinds, Outside, At, Exclusive, Return, Idle, Over
<1>6. Placed("start")
  BY <1>1, <1>3, <1>5, PlacedIs DEF Next1, Return
<1>7. Saves("start")
  <2> DEFINE s == [st EXCEPT !.status = "reconciliation_required", !.renewalFailed = @ \/ "start" = "renew"]
  <2>1. /\ Persist(s) \/ (st' = s /\ saved' = saved)
        /\ DOMAIN s = Fields /\ s.resolved = st.resolved /\ st.unknown \subseteq s.unknown
        /\ Noted(st) \subseteq Noted(s) /\ s.runs \subseteq Verifs
    BY <1>1, <1>3 DEF Shapes, Fields, Noted, WithOp, Receipted, Evidenced
  <2>2. /\ s.status = st.status \/ s.status \notin Working \/ Resuming("start") \/ st.status \in Working
        /\ s.status \in {st.status, "verifying", "running"} \/ s.status \notin Working
        /\ s.status # "absent" /\ (s.status = "completed" => backend.status = "completed")
    BY <1>1, <1>2, <1>3 DEF Fails, Shapes, Fields, WithOp, Receipted, Working, Resuming, Outside, At, Begins, Ended
  <2>3. s.evidence # None => Seen(s.evidence)
    BY <1>1, <1>3, EvidenceSeen DEF Shapes, Fields, WithOp, Receipted
  <2> HIDE DEF s
  <2> QED BY <2>1, <2>2, <2>3, SavesIs
<1>8. Resuming("start")' => Resuming("start") \/ (backend.status # "completed" /\ NoneLost)
  BY <1>1, <1>3, <1>4 DEF Fails, Resuming, At, Outside, NoneLost, Recovered, Ended, Idle, Over
<1>9. Holds(admissions, "start") \/ Leaves("start")
  BY <1>1, <1>3, <1>4 DEF Fails, Leaves, Exclusive, InAdmissions, Outside, At, Persist, Receipted, WithOp, Shapes, Fields, attempt, Idle, Over
<1> QED BY <1>1, <1>2, <1>3, <1>4, <1>6, <1>7, <1>8, <1>9 DEF MethodStep, Slotted, Idle, Over

LEMMA VerifyFailsStep ==
  ASSUME IInv, NEW v \in Verifs, Fails(v)
  PROVE  MethodStep(v)
<1> USE OpsAre
<1>1. /\ Shapes /\ Exclusive /\ Begins /\ Ended /\ Evidenced /\ Recovered /\ Finalizing /\ Keyed /\ Remembered
      /\ v \in Ops \ {"shutdown"} /\ pc[v][1] \notin Slotted /\ UNCHANGED <<backend, exec, proof, slot, done>>
  BY DEF IInv, Fails, At, Slotted, calls, world
<1>2. saved.status # "absent"
  BY <1>1 DEF Fails, Begins, At, Outside, Absent
<1>3. /\ Goto(v, Over) /\ Return(v)
      /\ Persist([st EXCEPT !.status = "reconciliation_required", !.renewalFailed = @ \/ v = "renew"])
  BY <1>1 DEF Fails, mutexes, attempt, Begin, Intend, Resume, At
<1>4. pc'[v] = Over
  BY <1>1, <1>3, Gone
<1>5. /\ InAdmissions(v)' => Holds(admissions', v)
      /\ InLifecycle(v)' => Holds(lifecycle', v)
      /\ KeyedAt(v)'
  BY <1>1, <1>3, <1>4 DEF Fails, InAdmissions, InLifecycle, Keyed, KeyedAt, Kinds, Outside, At, Exclusive, Return, Idle, Over
<1>6. Placed(v)
  BY <1>1, <1>3, <1>5, PlacedIs DEF Next1, Return
<1>7. Saves(v)
  <2> DEFINE s == [st EXCEPT !.status = "reconciliation_required", !.renewalFailed = @ \/ v = "renew"]
  <2>1. /\ Persist(s) \/ (st' = s /\ saved' = saved)
        /\ DOMAIN s = Fields /\ s.resolved = st.resolved /\ st.unknown \subseteq s.unknown
        /\ Noted(st) \subseteq Noted(s) /\ s.runs \subseteq Verifs
    BY <1>1, <1>3 DEF Shapes, Fields, Noted, WithOp, Receipted, Evidenced
  <2>2. /\ s.status = st.status \/ s.status \notin Working \/ Resuming(v) \/ st.status \in Working
        /\ s.status \in {st.status, "verifying", "running"} \/ s.status \notin Working
        /\ s.status # "absent" /\ (s.status = "completed" => backend.status = "completed")
    BY <1>1, <1>2, <1>3 DEF Fails, Shapes, Fields, WithOp, Receipted, Working, Resuming, Outside, At, Begins, Ended
  <2>3. s.evidence # None => Seen(s.evidence)
    BY <1>1, <1>3, EvidenceSeen DEF Shapes, Fields, WithOp, Receipted
  <2> HIDE DEF s
  <2> QED BY <2>1, <2>2, <2>3, SavesIs
<1>8. Resuming(v)' => Resuming(v) \/ (backend.status # "completed" /\ NoneLost)
  BY <1>1, <1>3, <1>4 DEF Fails, Resuming, At, Outside, NoneLost, Recovered, Ended, Idle, Over
<1>9. Holds(admissions, v) \/ Leaves(v)
  BY <1>1, <1>3, <1>4 DEF Fails, Leaves, Exclusive, InAdmissions, Outside, At, Persist, Receipted, WithOp, Shapes, Fields, attempt, Idle, Over
<1> QED BY <1>1, <1>2, <1>3, <1>4, <1>6, <1>7, <1>8, <1>9 DEF MethodStep, Slotted, Idle, Over

LEMMA RenewFailsStep ==
  ASSUME IInv, Fails("renew")
  PROVE  MethodStep("renew")
<1> USE OpsAre
<1>1. /\ Shapes /\ Exclusive /\ Begins /\ Ended /\ Evidenced /\ Recovered /\ Finalizing /\ Keyed /\ Remembered
      /\ "renew" \in Ops \ {"shutdown"} /\ pc["renew"][1] \notin Slotted /\ UNCHANGED <<backend, exec, proof, slot, done>>
  BY DEF IInv, Fails, At, Slotted, calls, world
<1>2. saved.status # "absent"
  BY <1>1 DEF Fails, Begins, At, Outside, Absent
<1>3. /\ Goto("renew", Idle) /\ Return("renew")
      /\ Persist([st EXCEPT !.status = "reconciliation_required", !.renewalFailed = @ \/ "renew" = "renew"])
  BY <1>1 DEF Fails, mutexes, attempt, Begin, Intend, Resume, At
<1>4. pc'["renew"] = Idle
  BY <1>1, <1>3, Gone
<1>5. /\ InAdmissions("renew")' => Holds(admissions', "renew")
      /\ InLifecycle("renew")' => Holds(lifecycle', "renew")
      /\ KeyedAt("renew")'
  BY <1>1, <1>3, <1>4 DEF Fails, InAdmissions, InLifecycle, Keyed, KeyedAt, Kinds, Outside, At, Exclusive, Return, Idle, Over
<1>6. Placed("renew")
  BY <1>1, <1>3, <1>5, PlacedIs DEF Next1, Return
<1>7. Saves("renew")
  <2> DEFINE s == [st EXCEPT !.status = "reconciliation_required", !.renewalFailed = @ \/ "renew" = "renew"]
  <2>1. /\ Persist(s) \/ (st' = s /\ saved' = saved)
        /\ DOMAIN s = Fields /\ s.resolved = st.resolved /\ st.unknown \subseteq s.unknown
        /\ Noted(st) \subseteq Noted(s) /\ s.runs \subseteq Verifs
    BY <1>1, <1>3 DEF Shapes, Fields, Noted, WithOp, Receipted, Evidenced
  <2>2. /\ s.status = st.status \/ s.status \notin Working \/ Resuming("renew") \/ st.status \in Working
        /\ s.status \in {st.status, "verifying", "running"} \/ s.status \notin Working
        /\ s.status # "absent" /\ (s.status = "completed" => backend.status = "completed")
    BY <1>1, <1>2, <1>3 DEF Fails, Shapes, Fields, WithOp, Receipted, Working, Resuming, Outside, At, Begins, Ended
  <2>3. s.evidence # None => Seen(s.evidence)
    BY <1>1, <1>3, EvidenceSeen DEF Shapes, Fields, WithOp, Receipted
  <2> HIDE DEF s
  <2> QED BY <2>1, <2>2, <2>3, SavesIs
<1>8. Resuming("renew")' => Resuming("renew") \/ (backend.status # "completed" /\ NoneLost)
  BY <1>1, <1>3, <1>4 DEF Fails, Resuming, At, Outside, NoneLost, Recovered, Ended, Idle, Over
<1>9. Holds(admissions, "renew") \/ Leaves("renew")
  BY <1>1, <1>3, <1>4 DEF Fails, Leaves, Exclusive, InAdmissions, Outside, At, Persist, Receipted, WithOp, Shapes, Fields, attempt, Idle, Over
<1> QED BY <1>1, <1>2, <1>3, <1>4, <1>6, <1>7, <1>8, <1>9 DEF MethodStep, Slotted, Idle, Over

LEMMA FinishFailsStep ==
  ASSUME IInv, Fails("finish")
  PROVE  MethodStep("finish")
<1> USE OpsAre
<1>1. /\ Shapes /\ Exclusive /\ Begins /\ Ended /\ Evidenced /\ Recovered /\ Finalizing /\ Keyed /\ Remembered
      /\ "finish" \in Ops \ {"shutdown"} /\ pc["finish"][1] \notin Slotted /\ UNCHANGED <<backend, exec, proof, slot, done>>
  BY DEF IInv, Fails, At, Slotted, calls, world
<1>2. saved.status # "absent"
  BY <1>1 DEF Fails, Begins, At, Outside, Absent
<1>3. /\ Goto("finish", Idle) /\ Return("finish")
      /\ Persist([st EXCEPT !.status = "reconciliation_required", !.renewalFailed = @ \/ "finish" = "renew"])
  BY <1>1 DEF Fails, mutexes, attempt, Begin, Intend, Resume, At
<1>4. pc'["finish"] = Idle
  BY <1>1, <1>3, Gone
<1>5. /\ InAdmissions("finish")' => Holds(admissions', "finish")
      /\ InLifecycle("finish")' => Holds(lifecycle', "finish")
      /\ KeyedAt("finish")'
  BY <1>1, <1>3, <1>4 DEF Fails, InAdmissions, InLifecycle, Keyed, KeyedAt, Kinds, Outside, At, Exclusive, Return, Idle, Over
<1>6. Placed("finish")
  BY <1>1, <1>3, <1>5, PlacedIs DEF Next1, Return
<1>7. Saves("finish")
  <2> DEFINE s == [st EXCEPT !.status = "reconciliation_required", !.renewalFailed = @ \/ "finish" = "renew"]
  <2>1. /\ Persist(s) \/ (st' = s /\ saved' = saved)
        /\ DOMAIN s = Fields /\ s.resolved = st.resolved /\ st.unknown \subseteq s.unknown
        /\ Noted(st) \subseteq Noted(s) /\ s.runs \subseteq Verifs
    BY <1>1, <1>3 DEF Shapes, Fields, Noted, WithOp, Receipted, Evidenced
  <2>2. /\ s.status = st.status \/ s.status \notin Working \/ Resuming("finish") \/ st.status \in Working
        /\ s.status \in {st.status, "verifying", "running"} \/ s.status \notin Working
        /\ s.status # "absent" /\ (s.status = "completed" => backend.status = "completed")
    BY <1>1, <1>2, <1>3 DEF Fails, Shapes, Fields, WithOp, Receipted, Working, Resuming, Outside, At, Begins, Ended
  <2>3. s.evidence # None => Seen(s.evidence)
    BY <1>1, <1>3, EvidenceSeen DEF Shapes, Fields, WithOp, Receipted
  <2> HIDE DEF s
  <2> QED BY <2>1, <2>2, <2>3, SavesIs
<1>8. Resuming("finish")' => Resuming("finish") \/ (backend.status # "completed" /\ NoneLost)
  BY <1>1, <1>3, <1>4 DEF Fails, Resuming, At, Outside, NoneLost, Recovered, Ended, Idle, Over
<1>9. Holds(admissions, "finish") \/ Leaves("finish")
  BY <1>1, <1>3, <1>4 DEF Fails, Leaves, Exclusive, InAdmissions, Outside, At, Persist, Receipted, WithOp, Shapes, Fields, attempt, Idle, Over
<1>10. Finalizing'
  BY <1>1, <1>3, <1>4 DEF Fails, Finalizing, At, Idle
<1> QED BY <1>1, <1>2, <1>3, <1>4, <1>6, <1>7, <1>8, <1>9, <1>10 DEF MethodStep, Slotted, Idle, Over

LEMMA ReconcileFailsStep ==
  ASSUME IInv, Fails("reconcile")
  PROVE  MethodStep("reconcile")
<1> USE OpsAre
<1>1. /\ Shapes /\ Exclusive /\ Begins /\ Ended /\ Evidenced /\ Recovered /\ Finalizing /\ Keyed /\ Remembered
      /\ "reconcile" \in Ops \ {"shutdown"} /\ pc["reconcile"][1] \notin Slotted /\ UNCHANGED <<backend, exec, proof, slot, done>>
  BY DEF IInv, Fails, At, Slotted, calls, world
<1>2. saved.status # "absent"
  BY <1>1 DEF Fails, Begins, At, Outside, Absent
<1>3. /\ Goto("reconcile", Idle) /\ Return("reconcile")
      /\ Persist([st EXCEPT !.status = "reconciliation_required", !.renewalFailed = @ \/ "reconcile" = "renew"])
  BY <1>1 DEF Fails, mutexes, attempt, Begin, Intend, Resume, At
<1>4. pc'["reconcile"] = Idle
  BY <1>1, <1>3, Gone
<1>5. /\ InAdmissions("reconcile")' => Holds(admissions', "reconcile")
      /\ InLifecycle("reconcile")' => Holds(lifecycle', "reconcile")
      /\ KeyedAt("reconcile")'
  BY <1>1, <1>3, <1>4 DEF Fails, InAdmissions, InLifecycle, Keyed, KeyedAt, Kinds, Outside, At, Exclusive, Return, Idle, Over
<1>6. Placed("reconcile")
  BY <1>1, <1>3, <1>5, PlacedIs DEF Next1, Return
<1>7. Saves("reconcile")
  <2> DEFINE s == [st EXCEPT !.status = "reconciliation_required", !.renewalFailed = @ \/ "reconcile" = "renew"]
  <2>1. /\ Persist(s) \/ (st' = s /\ saved' = saved)
        /\ DOMAIN s = Fields /\ s.resolved = st.resolved /\ st.unknown \subseteq s.unknown
        /\ Noted(st) \subseteq Noted(s) /\ s.runs \subseteq Verifs
    BY <1>1, <1>3 DEF Shapes, Fields, Noted, WithOp, Receipted, Evidenced
  <2>2. /\ s.status = st.status \/ s.status \notin Working \/ Resuming("reconcile") \/ st.status \in Working
        /\ s.status \in {st.status, "verifying", "running"} \/ s.status \notin Working
        /\ s.status # "absent" /\ (s.status = "completed" => backend.status = "completed")
    BY <1>1, <1>2, <1>3 DEF Fails, Shapes, Fields, WithOp, Receipted, Working, Resuming, Outside, At, Begins, Ended
  <2>3. s.evidence # None => Seen(s.evidence)
    BY <1>1, <1>3, EvidenceSeen DEF Shapes, Fields, WithOp, Receipted
  <2> HIDE DEF s
  <2> QED BY <2>1, <2>2, <2>3, SavesIs
<1>8. Resuming("reconcile")' => Resuming("reconcile") \/ (backend.status # "completed" /\ NoneLost)
  BY <1>1, <1>3, <1>4 DEF Fails, Resuming, At, Outside, NoneLost, Recovered, Ended, Idle, Over
<1>9. Holds(admissions, "reconcile") \/ Leaves("reconcile")
  BY <1>1, <1>3, <1>4 DEF Fails, Leaves, Exclusive, InAdmissions, Outside, At, Persist, Receipted, WithOp, Shapes, Fields, attempt, Idle, Over
<1> QED BY <1>1, <1>2, <1>3, <1>4, <1>6, <1>7, <1>8, <1>9 DEF MethodStep, Slotted, Idle, Over

LEMMA StartedStep ==
  ASSUME IInv, Started
  PROVE  MethodStep("start")
<1> USE OpsAre
<1>1. /\ Shapes /\ Exclusive /\ Begins /\ Ended /\ Evidenced /\ Recovered /\ Finalizing /\ Keyed /\ Remembered
      /\ "start" \in Ops \ {"shutdown"} /\ pc["start"][1] \notin Slotted /\ UNCHANGED <<backend, exec, proof, slot, done>>
  BY DEF IInv, Started, At, Slotted, calls, world
<1>2. saved.status # "absent"
  BY <1>1 DEF Started, Begins, At, Outside, Absent
<1>3. /\ Goto("start", <<"started">>) /\ UNCHANGED <<admissions, lifecycle>>
      /\ Persist(Receipted(pc["start"][2]))
  BY <1>1 DEF Started, mutexes, attempt, Begin, Intend, Resume, At
<1>4. pc'["start"] = <<"started">>
  BY <1>1, <1>3, Gone
<1>5. /\ InAdmissions("start")' => Holds(admissions', "start")
      /\ InLifecycle("start")' => Holds(lifecycle', "start")
      /\ KeyedAt("start")'
  BY <1>1, <1>3, <1>4 DEF Started, InAdmissions, InLifecycle, Keyed, KeyedAt, Kinds, Outside, At, Exclusive, Return, Idle, Over
<1>6. Placed("start")
  BY <1>1, <1>3, <1>5, PlacedIs DEF Next1, Return
<1>7. Saves("start")
  <2> DEFINE s == Receipted(pc["start"][2])
  <2>1. /\ Persist(s) \/ (st' = s /\ saved' = saved)
        /\ DOMAIN s = Fields /\ s.resolved = st.resolved /\ st.unknown \subseteq s.unknown
        /\ Noted(st) \subseteq Noted(s) /\ s.runs \subseteq Verifs
    BY <1>1, <1>3 DEF Shapes, Fields, Noted, WithOp, Receipted, Evidenced
  <2>2. /\ s.status = st.status \/ s.status \notin Working \/ Resuming("start") \/ st.status \in Working
        /\ s.status \in {st.status, "verifying", "running"} \/ s.status \notin Working
        /\ s.status # "absent" /\ (s.status = "completed" => backend.status = "completed")
    BY <1>1, <1>2, <1>3 DEF Started, Shapes, Fields, WithOp, Receipted, Working, Resuming, Outside, At, Begins, Ended
  <2>3. s.evidence # None => Seen(s.evidence)
    BY <1>1, <1>3, EvidenceSeen DEF Shapes, Fields, WithOp, Receipted
  <2> HIDE DEF s
  <2> QED BY <2>1, <2>2, <2>3, SavesIs
<1>8. Resuming("start")' => Resuming("start") \/ (backend.status # "completed" /\ NoneLost)
  BY <1>1, <1>3, <1>4 DEF Started, Resuming, At, Outside, NoneLost, Recovered, Ended, Idle, Over
<1>9. Holds(admissions, "start") \/ Leaves("start")
  BY <1>1, <1>3, <1>4 DEF Started, Leaves, Exclusive, InAdmissions, Outside, At, Persist, Receipted, WithOp, Shapes, Fields, attempt, Idle, Over
<1> QED BY <1>1, <1>2, <1>3, <1>4, <1>6, <1>7, <1>8, <1>9 DEF MethodStep, Slotted, Idle, Over

LEMMA ClaimedStep ==
  ASSUME IInv, Claimed
  PROVE  MethodStep("start")
<1> USE OpsAre
<1>1. /\ Shapes /\ Exclusive /\ Begins /\ Ended /\ Evidenced /\ Recovered /\ Finalizing /\ Keyed /\ Remembered
      /\ "start" \in Ops \ {"shutdown"} /\ pc["start"][1] \notin Slotted /\ UNCHANGED <<backend, exec, proof, slot, done>>
  BY DEF IInv, Claimed, At, Slotted, calls, world
<1>2. saved.status # "absent"
  BY <1>1 DEF Claimed, Begins, At, Outside, Absent
<1>3. /\ Goto("start", <<"claimed">>) /\ UNCHANGED <<admissions, lifecycle>>
      /\ Persist(Receipted(pc["start"][2]))
  BY <1>1 DEF Claimed, mutexes, attempt, Begin, Intend, Resume, At
<1>4. pc'["start"] = <<"claimed">>
  BY <1>1, <1>3, Gone
<1>5. /\ InAdmissions("start")' => Holds(admissions', "start")
      /\ InLifecycle("start")' => Holds(lifecycle', "start")
      /\ KeyedAt("start")'
  BY <1>1, <1>3, <1>4 DEF Claimed, InAdmissions, InLifecycle, Keyed, KeyedAt, Kinds, Outside, At, Exclusive, Return, Idle, Over
<1>6. Placed("start")
  BY <1>1, <1>3, <1>5, PlacedIs DEF Next1, Return
<1>7. Saves("start")
  <2> DEFINE s == Receipted(pc["start"][2])
  <2>1. /\ Persist(s) \/ (st' = s /\ saved' = saved)
        /\ DOMAIN s = Fields /\ s.resolved = st.resolved /\ st.unknown \subseteq s.unknown
        /\ Noted(st) \subseteq Noted(s) /\ s.runs \subseteq Verifs
    BY <1>1, <1>3 DEF Shapes, Fields, Noted, WithOp, Receipted, Evidenced
  <2>2. /\ s.status = st.status \/ s.status \notin Working \/ Resuming("start") \/ st.status \in Working
        /\ s.status \in {st.status, "verifying", "running"} \/ s.status \notin Working
        /\ s.status # "absent" /\ (s.status = "completed" => backend.status = "completed")
    BY <1>1, <1>2, <1>3 DEF Claimed, Shapes, Fields, WithOp, Receipted, Working, Resuming, Outside, At, Begins, Ended
  <2>3. s.evidence # None => Seen(s.evidence)
    BY <1>1, <1>3, EvidenceSeen DEF Shapes, Fields, WithOp, Receipted
  <2> HIDE DEF s
  <2> QED BY <2>1, <2>2, <2>3, SavesIs
<1>8. Resuming("start")' => Resuming("start") \/ (backend.status # "completed" /\ NoneLost)
  BY <1>1, <1>3, <1>4 DEF Claimed, Resuming, At, Outside, NoneLost, Recovered, Ended, Idle, Over
<1>9. Holds(admissions, "start") \/ Leaves("start")
  BY <1>1, <1>3, <1>4 DEF Claimed, Leaves, Exclusive, InAdmissions, Outside, At, Persist, Receipted, WithOp, Shapes, Fields, attempt, Idle, Over
<1> QED BY <1>1, <1>2, <1>3, <1>4, <1>6, <1>7, <1>8, <1>9 DEF MethodStep, Slotted, Idle, Over

LEMMA RunningStep ==
  ASSUME IInv, Running
  PROVE  MethodStep("start")
<1> USE OpsAre
<1>1. /\ Shapes /\ Exclusive /\ Begins /\ Ended /\ Evidenced /\ Recovered /\ Finalizing /\ Keyed /\ Remembered
      /\ "start" \in Ops \ {"shutdown"} /\ pc["start"][1] \notin Slotted /\ UNCHANGED <<backend, exec, proof, slot, done>>
  BY DEF IInv, Running, At, Slotted, calls, world
<1>2. saved.status # "absent"
  BY <1>1 DEF Running, Begins, At, Outside, Absent
<1>3. /\ Goto("start", Idle) /\ Return("start")
      /\ Persist([st EXCEPT !.status = "running"])
  BY <1>1 DEF Running, mutexes, attempt, Begin, Intend, Resume, At
<1>4. pc'["start"] = Idle
  BY <1>1, <1>3, Gone
<1>5. /\ InAdmissions("start")' => Holds(admissions', "start")
      /\ InLifecycle("start")' => Holds(lifecycle', "start")
      /\ KeyedAt("start")'
  BY <1>1, <1>3, <1>4 DEF Running, InAdmissions, InLifecycle, Keyed, KeyedAt, Kinds, Outside, At, Exclusive, Return, Idle, Over
<1>6. Placed("start")
  BY <1>1, <1>3, <1>5, PlacedIs DEF Next1, Return
<1>7. Saves("start")
  <2> DEFINE s == [st EXCEPT !.status = "running"]
  <2>1. /\ Persist(s) \/ (st' = s /\ saved' = saved)
        /\ DOMAIN s = Fields /\ s.resolved = st.resolved /\ st.unknown \subseteq s.unknown
        /\ Noted(st) \subseteq Noted(s) /\ s.runs \subseteq Verifs
    BY <1>1, <1>3 DEF Shapes, Fields, Noted, WithOp, Receipted, Evidenced
  <2>2. /\ s.status = st.status \/ s.status \notin Working \/ Resuming("start") \/ st.status \in Working
        /\ s.status \in {st.status, "verifying", "running"} \/ s.status \notin Working
        /\ s.status # "absent" /\ (s.status = "completed" => backend.status = "completed")
    BY <1>1, <1>2, <1>3 DEF Running, Shapes, Fields, WithOp, Receipted, Working, Resuming, Outside, At, Begins, Ended
  <2>3. s.evidence # None => Seen(s.evidence)
    BY <1>1, <1>3, EvidenceSeen DEF Shapes, Fields, WithOp, Receipted
  <2> HIDE DEF s
  <2> QED BY <2>1, <2>2, <2>3, SavesIs
<1>8. Resuming("start")' => Resuming("start") \/ (backend.status # "completed" /\ NoneLost)
  BY <1>1, <1>3, <1>4 DEF Running, Resuming, At, Outside, NoneLost, Recovered, Ended, Idle, Over
<1>9. Holds(admissions, "start") \/ Leaves("start")
  BY <1>1, <1>3, <1>4 DEF Running, Leaves, Exclusive, InAdmissions, Outside, At, Persist, Receipted, WithOp, Shapes, Fields, attempt, Idle, Over
<1> QED BY <1>1, <1>2, <1>3, <1>4, <1>6, <1>7, <1>8, <1>9 DEF MethodStep, Slotted, Idle, Over

LEMMA ClaimStep ==
  ASSUME IInv, Claim
  PROVE  MethodStep("start")
<1> USE OpsAre
<1>1. /\ Shapes /\ Exclusive /\ Begins /\ Ended /\ Evidenced /\ Recovered /\ Finalizing /\ Keyed /\ Remembered
      /\ "start" \in Ops \ {"shutdown"} /\ pc["start"][1] \notin Slotted /\ UNCHANGED <<backend, exec, proof, slot, done>>
  BY DEF IInv, Claim, Begin, NextKey, At, Slotted, calls, world
<1>2. saved.status # "absent"
  BY <1>1 DEF Claim, Begin, NextKey, Begins, At, Outside, Absent
<1>3. CASE ~Throw("start")
  <2>1. /\ Goto("start", <<"dispatch", NextKey("open")>>) /\ UNCHANGED <<admissions, lifecycle>>
        /\ Persist(WithOp(st, NextKey("open"), "started"))
    BY <1>3, <1>1 DEF Claim, Begin, NextKey, mutexes, attempt, Begin, Intend, Resume, At
  <2>2. pc'["start"] = <<"dispatch", NextKey("open")>>
    BY <1>1, <2>1, Gone
  <2>3. /\ InAdmissions("start")' => Holds(admissions', "start")
        /\ InLifecycle("start")' => Holds(lifecycle', "start")
        /\ KeyedAt("start")'
    BY <1>1, <1>3, <2>1, <2>2 DEF Claim, Begin, NextKey, InAdmissions, InLifecycle, Keyed, KeyedAt, Kinds, Outside, At, Exclusive, Return, Idle, Over
  <2>4. Placed("start")
    BY <1>1, <2>1, <2>3, PlacedIs DEF Next1, Return
  <2>5. Saves("start")
    <3> DEFINE s == WithOp(st, NextKey("open"), "started")
    <3>1. /\ Persist(s) \/ (st' = s /\ saved' = saved)
          /\ DOMAIN s = Fields /\ s.resolved = st.resolved /\ st.unknown \subseteq s.unknown
          /\ Noted(st) \subseteq Noted(s) /\ s.runs \subseteq Verifs
      BY <1>1, <2>1 DEF Shapes, Fields, Noted, WithOp, Receipted, Evidenced
    <3>2. /\ s.status = st.status \/ s.status \notin Working \/ Resuming("start") \/ st.status \in Working
          /\ s.status \in {st.status, "verifying", "running"} \/ s.status \notin Working
          /\ s.status # "absent" /\ (s.status = "completed" => backend.status = "completed")
      BY <1>1, <1>2, <1>3, <2>1 DEF Claim, Begin, NextKey, Shapes, Fields, WithOp, Receipted, Working, Resuming, Outside, At, Begins, Ended
    <3>3. s.evidence # None => Seen(s.evidence)
      BY <1>1, <2>1, EvidenceSeen DEF Shapes, Fields, WithOp, Receipted
    <3> HIDE DEF s
    <3> QED BY <3>1, <3>2, <3>3, SavesIs
  <2>6. Resuming("start")' => Resuming("start") \/ (backend.status # "completed" /\ NoneLost)
    BY <1>1, <1>3, <2>1, <2>2 DEF Claim, Begin, NextKey, Resuming, At, Outside, NoneLost, Recovered, Ended, Idle, Over
  <2>7. Holds(admissions, "start") \/ Leaves("start")
    BY <1>1, <1>3, <2>1, <2>2 DEF Claim, Begin, NextKey, Leaves, Exclusive, InAdmissions, Outside, At, Persist, Receipted, WithOp, Shapes, Fields, attempt, Idle, Over
  <2> QED BY <1>1, <1>2, <2>1, <2>2, <2>4, <2>5, <2>6, <2>7 DEF MethodStep, Slotted, Idle, Over
<1>4. CASE Throw("start")
  <2>1. Throw("start")
    BY <1>4 DEF Claim, Begin, NextKey
  <2> QED BY <1>1, <1>2, <2>1, ThrowStep
<1> QED BY <1>3, <1>4 DEF Claim, Begin, NextKey

LEMMA StartingStep ==
  ASSUME IInv, Starting
  PROVE  MethodStep("start")
<1> USE OpsAre
<1>1. /\ Shapes /\ Exclusive /\ Begins /\ Ended /\ Evidenced /\ Recovered /\ Finalizing /\ Keyed /\ Remembered
      /\ "start" \in Ops \ {"shutdown"} /\ pc["start"][1] \notin Slotted /\ UNCHANGED <<backend, exec, proof, slot, done>>
  BY DEF IInv, Starting, Begin, NextKey, At, Slotted, calls, world
<1>2. saved.status # "absent"
  BY <1>1 DEF Starting, Begin, NextKey, Begins, At, Outside, Absent
<1>3. CASE ~Throw("start")
  <2>1. /\ Goto("start", <<"dispatch", NextKey("start")>>) /\ UNCHANGED <<admissions, lifecycle>>
        /\ Persist(WithOp(st, NextKey("start"), "started"))
    BY <1>3, <1>1 DEF Starting, Begin, NextKey, mutexes, attempt, Begin, Intend, Resume, At
  <2>2. pc'["start"] = <<"dispatch", NextKey("start")>>
    BY <1>1, <2>1, Gone
  <2>3. /\ InAdmissions("start")' => Holds(admissions', "start")
        /\ InLifecycle("start")' => Holds(lifecycle', "start")
        /\ KeyedAt("start")'
    BY <1>1, <1>3, <2>1, <2>2 DEF Starting, Begin, NextKey, InAdmissions, InLifecycle, Keyed, KeyedAt, Kinds, Outside, At, Exclusive, Return, Idle, Over
  <2>4. Placed("start")
    BY <1>1, <2>1, <2>3, PlacedIs DEF Next1, Return
  <2>5. Saves("start")
    <3> DEFINE s == WithOp(st, NextKey("start"), "started")
    <3>1. /\ Persist(s) \/ (st' = s /\ saved' = saved)
          /\ DOMAIN s = Fields /\ s.resolved = st.resolved /\ st.unknown \subseteq s.unknown
          /\ Noted(st) \subseteq Noted(s) /\ s.runs \subseteq Verifs
      BY <1>1, <2>1 DEF Shapes, Fields, Noted, WithOp, Receipted, Evidenced
    <3>2. /\ s.status = st.status \/ s.status \notin Working \/ Resuming("start") \/ st.status \in Working
          /\ s.status \in {st.status, "verifying", "running"} \/ s.status \notin Working
          /\ s.status # "absent" /\ (s.status = "completed" => backend.status = "completed")
      BY <1>1, <1>2, <1>3, <2>1 DEF Starting, Begin, NextKey, Shapes, Fields, WithOp, Receipted, Working, Resuming, Outside, At, Begins, Ended
    <3>3. s.evidence # None => Seen(s.evidence)
      BY <1>1, <2>1, EvidenceSeen DEF Shapes, Fields, WithOp, Receipted
    <3> HIDE DEF s
    <3> QED BY <3>1, <3>2, <3>3, SavesIs
  <2>6. Resuming("start")' => Resuming("start") \/ (backend.status # "completed" /\ NoneLost)
    BY <1>1, <1>3, <2>1, <2>2 DEF Starting, Begin, NextKey, Resuming, At, Outside, NoneLost, Recovered, Ended, Idle, Over
  <2>7. Holds(admissions, "start") \/ Leaves("start")
    BY <1>1, <1>3, <2>1, <2>2 DEF Starting, Begin, NextKey, Leaves, Exclusive, InAdmissions, Outside, At, Persist, Receipted, WithOp, Shapes, Fields, attempt, Idle, Over
  <2> QED BY <1>1, <1>2, <2>1, <2>2, <2>4, <2>5, <2>6, <2>7 DEF MethodStep, Slotted, Idle, Over
<1>4. CASE Throw("start")
  <2>1. Throw("start")
    BY <1>4 DEF Starting, Begin, NextKey
  <2> QED BY <1>1, <1>2, <2>1, ThrowStep
<1> QED BY <1>3, <1>4 DEF Starting, Begin, NextKey

LEMMA SettleStepStep ==
  ASSUME IInv, NEW c \in Steps, SettleStep(c)
  PROVE  MethodStep(c)
<1> USE OpsAre
<1>1. /\ Shapes /\ Exclusive /\ Begins /\ Ended /\ Evidenced /\ Recovered /\ Finalizing /\ Keyed /\ Remembered
      /\ c \in Ops \ {"shutdown"} /\ pc[c][1] \notin Slotted /\ UNCHANGED <<backend, exec, proof, slot, done>>
  BY DEF IInv, SettleStep, At, Slotted, calls, world
<1>2. saved.status # "absent"
  BY <1>1 DEF SettleStep, Begins, At, Outside, Absent
<1>3. /\ Goto(c, Over) /\ Return(c)
      /\ Persist([st EXCEPT !.inflight = @ \ {c}, !.status = IF Doubtful(c) THEN "reconciliation_required" ELSE @, !.unknown = IF Doubtful(c) THEN @ \cup {c} ELSE @]) /\ Holds(admissions, c) /\ pc[c][1] = "settle"
  BY <1>1 DEF SettleStep, mutexes, attempt, Begin, Intend, Resume, At
<1>4. pc'[c] = Over
  BY <1>1, <1>3, Gone
<1>5. /\ InAdmissions(c)' => Holds(admissions', c)
      /\ InLifecycle(c)' => Holds(lifecycle', c)
      /\ KeyedAt(c)'
  BY <1>1, <1>3, <1>4 DEF SettleStep, InAdmissions, InLifecycle, Keyed, KeyedAt, Kinds, Outside, At, Exclusive, Return, Idle, Over
<1>6. Placed(c)
  BY <1>1, <1>3, <1>5, PlacedIs DEF Next1, Return
<1>7. Saves(c)
  <2> DEFINE s == [st EXCEPT !.inflight = @ \ {c}, !.status = IF Doubtful(c) THEN "reconciliation_required" ELSE @, !.unknown = IF Doubtful(c) THEN @ \cup {c} ELSE @]
  <2>1. /\ Persist(s) \/ (st' = s /\ saved' = saved)
        /\ DOMAIN s = Fields /\ s.resolved = st.resolved /\ st.unknown \subseteq s.unknown
        /\ s.runs \subseteq Verifs
        /\ \A x \in Steps : x \in Noted(st) /\ (Doubtful(x) \/ pc[x][1] \in Busy) => x \in Noted(s)
    BY <1>1, <1>3 DEF Shapes, Fields, Noted, Evidenced, Remembered, Doubtful, Busy, At
  <2>2. /\ s.status = st.status \/ s.status \notin Working \/ Resuming(c) \/ st.status \in Working
        /\ s.status \in {st.status, "verifying", "running"} \/ s.status \notin Working
        /\ s.status # "absent" /\ (s.status = "completed" => backend.status = "completed")
    BY <1>1, <1>2, <1>3 DEF SettleStep, Shapes, Fields, WithOp, Receipted, Working, Resuming, Outside, At, Begins, Ended
  <2>3. s.evidence # None => Seen(s.evidence)
    BY <1>1, <1>3, EvidenceSeen DEF Shapes, Fields, WithOp, Receipted
  <2> HIDE DEF s
  <2> QED BY <2>1, <2>2, <2>3, SavesIs
<1>8. Resuming(c)' => Resuming(c) \/ (backend.status # "completed" /\ NoneLost)
  BY <1>1, <1>3, <1>4 DEF SettleStep, Resuming, At, Outside, NoneLost, Recovered, Ended, Idle, Over
<1>9. Holds(admissions, c) \/ Leaves(c)
  BY <1>1, <1>3, <1>4 DEF SettleStep, Leaves, Exclusive, InAdmissions, Outside, At, Persist, Receipted, WithOp, Shapes, Fields, attempt, Idle, Over
<1> QED BY <1>1, <1>2, <1>3, <1>4, <1>6, <1>7, <1>8, <1>9 DEF MethodStep, Slotted, Idle, Over


-----------------------------------------------------------------------------
(* The stages of reconcile().                                                *)
LEMMA ResolvedIs ==
  ASSUME Remembered, Resolved
  PROVE  NoneLost
BY DEF Remembered, Resolved, Draining, NoneLost, Lost, Noted

LEMMA CallReconcileStep ==
  ASSUME IInv, CallReconcile
  PROVE  MethodStep("reconcile")
<1> USE OpsAre
<1>1. /\ Shapes /\ Exclusive /\ Begins /\ Ended /\ Evidenced /\ Recovered /\ Finalizing /\ Keyed /\ Remembered
      /\ "reconcile" \in Ops \ {"shutdown"} /\ pc["reconcile"][1] \notin Slotted /\ UNCHANGED <<backend, exec, proof, slot, done>>
  BY DEF IInv, CallReconcile, At, Slotted, calls, world
<1>2. saved.status # "absent"
  BY <1>1 DEF CallReconcile, Begins, At, Outside, Absent
<1>3. /\ Goto("reconcile", <<"admission">>) /\ admissions' = Queue(admissions, "reconcile") /\ lifecycle' = lifecycle
      /\ attempt' = attempt
  BY <1>1 DEF CallReconcile, mutexes, attempt, Begin, Intend, Resume, At
<1>4. pc'["reconcile"] = <<"admission">>
  BY <1>1, <1>3, Gone
<1>5. /\ InAdmissions("reconcile")' => Holds(admissions', "reconcile")
      /\ InLifecycle("reconcile")' => Holds(lifecycle', "reconcile")
      /\ KeyedAt("reconcile")'
  BY <1>1, <1>3, <1>4 DEF CallReconcile, InAdmissions, InLifecycle, Keyed, KeyedAt, Kinds, Outside, At, Exclusive, Return, Idle, Over
<1>6. Placed("reconcile")
  BY <1>1, <1>3, <1>5, PlacedIs DEF Next1, Return
<1>7. UNCHANGED attempt
  BY <1>3
<1>8. Resuming("reconcile")' => Resuming("reconcile") \/ (backend.status # "completed" /\ NoneLost)
  BY <1>1, <1>3, <1>4 DEF CallReconcile, Resuming, At, Outside, NoneLost, Recovered, Ended, Idle, Over
<1>9. Holds(admissions, "reconcile") \/ Leaves("reconcile")
  BY <1>1, <1>3, <1>4 DEF CallReconcile, Leaves, Exclusive, InAdmissions, Outside, At, Persist, Receipted, WithOp, Shapes, Fields, attempt, Idle, Over
<1> QED BY <1>1, <1>2, <1>3, <1>4, <1>6, <1>7, <1>8, <1>9 DEF MethodStep, Slotted, Idle, Over

LEMMA CheckOperationsStep ==
  ASSUME IInv, CheckOperations
  PROVE  MethodStep("reconcile")
<1> USE OpsAre
<1>1. /\ Shapes /\ Exclusive /\ Begins /\ Ended /\ Evidenced /\ Recovered /\ Finalizing /\ Keyed /\ Remembered
      /\ "reconcile" \in Ops \ {"shutdown"} /\ pc["reconcile"][1] \notin Slotted /\ UNCHANGED <<backend, exec, proof, slot, done>>
  BY DEF IInv, CheckOperations, At, Slotted, calls, world
<1>2. saved.status # "absent"
  BY <1>1 DEF CheckOperations, Begins, At, Outside, Absent
<1>3. CASE ~Throw("reconcile")
  <2>1. /\ Goto("reconcile", <<"operations">>) /\ UNCHANGED <<admissions, lifecycle>>
        /\ attempt' = attempt
    BY <1>3, <1>1 DEF CheckOperations, mutexes, attempt, Begin, Intend, Resume, At
  <2>2. pc'["reconcile"] = <<"operations">>
    BY <1>1, <2>1, Gone
  <2>3. /\ InAdmissions("reconcile")' => Holds(admissions', "reconcile")
        /\ InLifecycle("reconcile")' => Holds(lifecycle', "reconcile")
        /\ KeyedAt("reconcile")'
    BY <1>1, <1>3, <2>1, <2>2 DEF CheckOperations, InAdmissions, InLifecycle, Keyed, KeyedAt, Kinds, Outside, At, Exclusive, Return, Idle, Over
  <2>4. Placed("reconcile")
    BY <1>1, <2>1, <2>3, PlacedIs DEF Next1, Return
  <2>5. UNCHANGED attempt
    BY <2>1
  <2>6. Resuming("reconcile")' => Resuming("reconcile") \/ (backend.status # "completed" /\ NoneLost)
    BY <1>1, <1>3, <2>1, <2>2 DEF CheckOperations, Resuming, At, Outside, NoneLost, Recovered, Ended, Idle, Over
  <2>7. Holds(admissions, "reconcile") \/ Leaves("reconcile")
    BY <1>1, <1>3, <2>1, <2>2 DEF CheckOperations, Leaves, Exclusive, InAdmissions, Outside, At, Persist, Receipted, WithOp, Shapes, Fields, attempt, Idle, Over
  <2> QED BY <1>1, <1>2, <2>1, <2>2, <2>4, <2>5, <2>6, <2>7 DEF MethodStep, Slotted, Idle, Over
<1>4. CASE Throw("reconcile")
  <2>1. Throw("reconcile")
    BY <1>4 DEF CheckOperations
  <2> QED BY <1>1, <1>2, <2>1, ThrowStep
<1> QED BY <1>3, <1>4 DEF CheckOperations

LEMMA EndOperationsStep ==
  ASSUME IInv, EndOperations
  PROVE  MethodStep("reconcile")
<1> USE OpsAre
<1>1. /\ Shapes /\ Exclusive /\ Begins /\ Ended /\ Evidenced /\ Recovered /\ Finalizing /\ Keyed /\ Remembered
      /\ "reconcile" \in Ops \ {"shutdown"} /\ pc["reconcile"][1] \notin Slotted /\ UNCHANGED <<backend, exec, proof, slot, done>>
  BY DEF IInv, EndOperations, At, Slotted, calls, world
<1>2. saved.status # "absent"
  BY <1>1 DEF EndOperations, Begins, At, Outside, Absent
<1>3. /\ Goto("reconcile", <<"effects">>) /\ UNCHANGED <<admissions, lifecycle>>
      /\ attempt' = attempt
  BY <1>1 DEF EndOperations, mutexes, attempt, Begin, Intend, Resume, At
<1>4. pc'["reconcile"] = <<"effects">>
  BY <1>1, <1>3, Gone
<1>5. /\ InAdmissions("reconcile")' => Holds(admissions', "reconcile")
      /\ InLifecycle("reconcile")' => Holds(lifecycle', "reconcile")
      /\ KeyedAt("reconcile")'
  BY <1>1, <1>3, <1>4 DEF EndOperations, InAdmissions, InLifecycle, Keyed, KeyedAt, Kinds, Outside, At, Exclusive, Return, Idle, Over
<1>6. Placed("reconcile")
  BY <1>1, <1>3, <1>5, PlacedIs DEF Next1, Return
<1>7. UNCHANGED attempt
  BY <1>3
<1>8. Resuming("reconcile")' => Resuming("reconcile") \/ (backend.status # "completed" /\ NoneLost)
  BY <1>1, <1>3, <1>4 DEF EndOperations, Resuming, At, Outside, NoneLost, Recovered, Ended, Idle, Over
<1>9. Holds(admissions, "reconcile") \/ Leaves("reconcile")
  BY <1>1, <1>3, <1>4 DEF EndOperations, Leaves, Exclusive, InAdmissions, Outside, At, Persist, Receipted, WithOp, Shapes, Fields, attempt, Idle, Over
<1> QED BY <1>1, <1>2, <1>3, <1>4, <1>6, <1>7, <1>8, <1>9 DEF MethodStep, Slotted, Idle, Over

LEMMA UnansweredStep ==
  ASSUME IInv, Unanswered
  PROVE  MethodStep("reconcile")
<1> USE OpsAre
<1>1. /\ Shapes /\ Exclusive /\ Begins /\ Ended /\ Evidenced /\ Recovered /\ Finalizing /\ Keyed /\ Remembered
      /\ "reconcile" \in Ops \ {"shutdown"} /\ pc["reconcile"][1] \notin Slotted /\ UNCHANGED <<backend, exec, proof, slot, done>>
  BY DEF IInv, Unanswered, At, Slotted, calls, world
<1>2. saved.status # "absent"
  BY <1>1 DEF Unanswered, Begins, At, Outside, Absent
<1>3. CASE Throw("reconcile")
  <2>1. Throw("reconcile")
    BY <1>3 DEF Unanswered
  <2> QED BY <1>1, <1>2, <2>1, ThrowStep
<1> QED BY <1>3 DEF Unanswered

LEMMA ReopenStep ==
  ASSUME IInv, Reopen
  PROVE  MethodStep("reconcile")
<1> USE OpsAre
<1>1. /\ Shapes /\ Exclusive /\ Begins /\ Ended /\ Evidenced /\ Recovered /\ Finalizing /\ Keyed /\ Remembered
      /\ "reconcile" \in Ops \ {"shutdown"} /\ pc["reconcile"][1] \notin Slotted /\ UNCHANGED <<backend, exec, proof, slot, done>>
  BY DEF IInv, Reopen, NextKey, Restoring, Begin, At, Slotted, calls, world
<1>2. saved.status # "absent"
  BY <1>1 DEF Reopen, NextKey, Restoring, Begin, Begins, At, Outside, Absent
<1>3. CASE ~Throw("reconcile")
  <2>1. /\ Goto("reconcile", <<"dispatch", NextKey("open")>>) /\ UNCHANGED <<admissions, lifecycle>>
        /\ Persist(WithOp(st, NextKey("open"), "started")) /\ backend.status # "completed" /\ Resolved
    BY <1>3, <1>1 DEF Reopen, NextKey, Restoring, Begin, mutexes, attempt, Begin, Intend, Resume, At, Reopens
  <2>2. pc'["reconcile"] = <<"dispatch", NextKey("open")>>
    BY <1>1, <2>1, Gone
  <2>3. /\ InAdmissions("reconcile")' => Holds(admissions', "reconcile")
        /\ InLifecycle("reconcile")' => Holds(lifecycle', "reconcile")
        /\ KeyedAt("reconcile")'
    BY <1>1, <1>3, <2>1, <2>2 DEF Reopen, NextKey, Restoring, Begin, InAdmissions, InLifecycle, Keyed, KeyedAt, Kinds, Outside, At, Exclusive, Return, Idle, Over
  <2>4. Placed("reconcile")
    BY <1>1, <2>1, <2>3, PlacedIs DEF Next1, Return
  <2>5. Saves("reconcile")
    <3> DEFINE s == WithOp(st, NextKey("open"), "started")
    <3>1. /\ Persist(s) \/ (st' = s /\ saved' = saved)
          /\ DOMAIN s = Fields /\ s.resolved = st.resolved /\ st.unknown \subseteq s.unknown
          /\ Noted(st) \subseteq Noted(s) /\ s.runs \subseteq Verifs
      BY <1>1, <2>1 DEF Shapes, Fields, Noted, WithOp, Receipted, Evidenced
    <3>2. /\ s.status = st.status \/ s.status \notin Working \/ Resuming("reconcile") \/ st.status \in Working
          /\ s.status \in {st.status, "verifying", "running"} \/ s.status \notin Working
          /\ s.status # "absent" /\ (s.status = "completed" => backend.status = "completed")
      BY <1>1, <1>2, <1>3, <2>1 DEF Reopen, NextKey, Restoring, Begin, Shapes, Fields, WithOp, Receipted, Working, Resuming, Outside, At, Begins, Ended
    <3>3. s.evidence # None => Seen(s.evidence)
      BY <1>1, <2>1, EvidenceSeen DEF Shapes, Fields, WithOp, Receipted
    <3> HIDE DEF s
    <3> QED BY <3>1, <3>2, <3>3, SavesIs
  <2>6. Resuming("reconcile")' => Resuming("reconcile") \/ (backend.status # "completed" /\ NoneLost)
    BY ResolvedIs, <1>1, <1>3, <2>1, <2>2 DEF Reopen, NextKey, Restoring, Begin, Resuming, At, Outside, NoneLost, Recovered, Ended, Idle, Over
  <2>7. Holds(admissions, "reconcile") \/ Leaves("reconcile")
    BY <1>1, <1>3, <2>1, <2>2 DEF Reopen, NextKey, Restoring, Begin, Leaves, Exclusive, InAdmissions, Outside, At, Persist, Receipted, WithOp, Shapes, Fields, attempt, Idle, Over
  <2> QED BY <1>1, <1>2, <2>1, <2>2, <2>4, <2>5, <2>6, <2>7 DEF MethodStep, Slotted, Idle, Over
<1>4. CASE Throw("reconcile")
  <2>1. Throw("reconcile")
    BY <1>4 DEF Reopen, NextKey, Restoring, Begin
  <2> QED BY <1>1, <1>2, <2>1, ThrowStep
<1> QED BY <1>3, <1>4 DEF Reopen, NextKey, Restoring, Begin

LEMMA RestartStep ==
  ASSUME IInv, Restart
  PROVE  MethodStep("reconcile")
<1> USE OpsAre
<1>1. /\ Shapes /\ Exclusive /\ Begins /\ Ended /\ Evidenced /\ Recovered /\ Finalizing /\ Keyed /\ Remembered
      /\ "reconcile" \in Ops \ {"shutdown"} /\ pc["reconcile"][1] \notin Slotted /\ UNCHANGED <<backend, exec, proof, slot, done>>
  BY DEF IInv, Restart, NextKey, Restoring, Begin, At, Slotted, calls, world
<1>2. saved.status # "absent"
  BY <1>1 DEF Restart, NextKey, Restoring, Begin, Begins, At, Outside, Absent
<1>3. CASE ~Throw("reconcile")
  <2>1. /\ Goto("reconcile", <<"dispatch", NextKey("start")>>) /\ UNCHANGED <<admissions, lifecycle>>
        /\ Persist(WithOp(st, NextKey("start"), "started")) /\ backend.status # "completed" /\ Resolved
    BY <1>3, <1>1 DEF Restart, NextKey, Restoring, Begin, mutexes, attempt, Begin, Intend, Resume, At
  <2>2. pc'["reconcile"] = <<"dispatch", NextKey("start")>>
    BY <1>1, <2>1, Gone
  <2>3. /\ InAdmissions("reconcile")' => Holds(admissions', "reconcile")
        /\ InLifecycle("reconcile")' => Holds(lifecycle', "reconcile")
        /\ KeyedAt("reconcile")'
    BY <1>1, <1>3, <2>1, <2>2 DEF Restart, NextKey, Restoring, Begin, InAdmissions, InLifecycle, Keyed, KeyedAt, Kinds, Outside, At, Exclusive, Return, Idle, Over
  <2>4. Placed("reconcile")
    BY <1>1, <2>1, <2>3, PlacedIs DEF Next1, Return
  <2>5. Saves("reconcile")
    <3> DEFINE s == WithOp(st, NextKey("start"), "started")
    <3>1. /\ Persist(s) \/ (st' = s /\ saved' = saved)
          /\ DOMAIN s = Fields /\ s.resolved = st.resolved /\ st.unknown \subseteq s.unknown
          /\ Noted(st) \subseteq Noted(s) /\ s.runs \subseteq Verifs
      BY <1>1, <2>1 DEF Shapes, Fields, Noted, WithOp, Receipted, Evidenced
    <3>2. /\ s.status = st.status \/ s.status \notin Working \/ Resuming("reconcile") \/ st.status \in Working
          /\ s.status \in {st.status, "verifying", "running"} \/ s.status \notin Working
          /\ s.status # "absent" /\ (s.status = "completed" => backend.status = "completed")
      BY <1>1, <1>2, <1>3, <2>1 DEF Restart, NextKey, Restoring, Begin, Shapes, Fields, WithOp, Receipted, Working, Resuming, Outside, At, Begins, Ended
    <3>3. s.evidence # None => Seen(s.evidence)
      BY <1>1, <2>1, EvidenceSeen DEF Shapes, Fields, WithOp, Receipted
    <3> HIDE DEF s
    <3> QED BY <3>1, <3>2, <3>3, SavesIs
  <2>6. Resuming("reconcile")' => Resuming("reconcile") \/ (backend.status # "completed" /\ NoneLost)
    BY ResolvedIs, <1>1, <1>3, <2>1, <2>2 DEF Restart, NextKey, Restoring, Begin, Resuming, At, Outside, NoneLost, Recovered, Ended, Idle, Over
  <2>7. Holds(admissions, "reconcile") \/ Leaves("reconcile")
    BY <1>1, <1>3, <2>1, <2>2 DEF Restart, NextKey, Restoring, Begin, Leaves, Exclusive, InAdmissions, Outside, At, Persist, Receipted, WithOp, Shapes, Fields, attempt, Idle, Over
  <2> QED BY <1>1, <1>2, <2>1, <2>2, <2>4, <2>5, <2>6, <2>7 DEF MethodStep, Slotted, Idle, Over
<1>4. CASE Throw("reconcile")
  <2>1. Throw("reconcile")
    BY <1>4 DEF Restart, NextKey, Restoring, Begin
  <2> QED BY <1>1, <1>2, <2>1, ThrowStep
<1> QED BY <1>3, <1>4 DEF Restart, NextKey, Restoring, Begin

LEMMA AdoptStep ==
  ASSUME IInv, Adopt
  PROVE  MethodStep("reconcile")
<1> USE OpsAre
<1>1. /\ Shapes /\ Exclusive /\ Begins /\ Ended /\ Evidenced /\ Recovered /\ Finalizing /\ Keyed /\ Remembered
      /\ "reconcile" \in Ops \ {"shutdown"} /\ pc["reconcile"][1] \notin Slotted /\ UNCHANGED <<backend, exec, proof, slot, done>>
  BY DEF IInv, Adopt, Restoring, At, Slotted, calls, world
<1>2. saved.status # "absent"
  BY <1>1 DEF Adopt, Restoring, Begins, At, Outside, Absent
<1>3. /\ Goto("reconcile", Idle) /\ Return("reconcile")
      /\ Persist([st EXCEPT !.status = backend.status]) /\ backend.status \in {"released", "needs_review", "blocked"}
  BY <1>1 DEF Adopt, Restoring, mutexes, attempt, Begin, Intend, Resume, At, Adopts, TerminalKind
<1>4. pc'["reconcile"] = Idle
  BY <1>1, <1>3, Gone
<1>5. /\ InAdmissions("reconcile")' => Holds(admissions', "reconcile")
      /\ InLifecycle("reconcile")' => Holds(lifecycle', "reconcile")
      /\ KeyedAt("reconcile")'
  BY <1>1, <1>3, <1>4 DEF Adopt, Restoring, InAdmissions, InLifecycle, Keyed, KeyedAt, Kinds, Outside, At, Exclusive, Return, Idle, Over
<1>6. Placed("reconcile")
  BY <1>1, <1>3, <1>5, PlacedIs DEF Next1, Return
<1>7. Saves("reconcile")
  <2> DEFINE s == [st EXCEPT !.status = backend.status]
  <2>1. /\ Persist(s) \/ (st' = s /\ saved' = saved)
        /\ DOMAIN s = Fields /\ s.resolved = st.resolved /\ st.unknown \subseteq s.unknown
        /\ Noted(st) \subseteq Noted(s) /\ s.runs \subseteq Verifs
    BY <1>1, <1>3 DEF Shapes, Fields, Noted, WithOp, Receipted, Evidenced
  <2>2. /\ s.status = st.status \/ s.status \notin Working \/ Resuming("reconcile") \/ st.status \in Working
        /\ s.status \in {st.status, "verifying", "running"} \/ s.status \notin Working
        /\ s.status # "absent" /\ (s.status = "completed" => backend.status = "completed")
    BY <1>1, <1>2, <1>3 DEF Adopt, Restoring, Shapes, Fields, WithOp, Receipted, Working, Resuming, Outside, At, Begins, Ended
  <2>3. s.evidence # None => Seen(s.evidence)
    BY <1>1, <1>3, EvidenceSeen DEF Shapes, Fields, WithOp, Receipted
  <2> HIDE DEF s
  <2> QED BY <2>1, <2>2, <2>3, SavesIs
<1>8. Resuming("reconcile")' => Resuming("reconcile") \/ (backend.status # "completed" /\ NoneLost)
  BY <1>1, <1>3, <1>4 DEF Adopt, Restoring, Resuming, At, Outside, NoneLost, Recovered, Ended, Idle, Over
<1>9. Holds(admissions, "reconcile") \/ Leaves("reconcile")
  BY <1>1, <1>3, <1>4 DEF Adopt, Restoring, Leaves, Exclusive, InAdmissions, Outside, At, Persist, Receipted, WithOp, Shapes, Fields, attempt, Idle, Over
<1> QED BY <1>1, <1>2, <1>3, <1>4, <1>6, <1>7, <1>8, <1>9 DEF MethodStep, Slotted, Idle, Over

LEMMA AdoptCompletionStep ==
  ASSUME IInv, AdoptCompletion
  PROVE  MethodStep("reconcile")
<1> USE OpsAre
<1>1. /\ Shapes /\ Exclusive /\ Begins /\ Ended /\ Evidenced /\ Recovered /\ Finalizing /\ Keyed /\ Remembered
      /\ "reconcile" \in Ops \ {"shutdown"} /\ pc["reconcile"][1] \notin Slotted /\ UNCHANGED <<backend, exec, proof, slot, done>>
  BY DEF IInv, AdoptCompletion, Restoring, At, Slotted, calls, world
<1>2. saved.status # "absent"
  BY <1>1 DEF AdoptCompletion, Restoring, Begins, At, Outside, Absent
<1>3. CASE ~Throw("reconcile")
  <2>1. /\ Goto("reconcile", Idle) /\ Return("reconcile")
        /\ Persist([st EXCEPT !.status = "completed"])
    BY <1>3, <1>1 DEF AdoptCompletion, Restoring, mutexes, attempt, Begin, Intend, Resume, At
  <2>2. pc'["reconcile"] = Idle
    BY <1>1, <2>1, Gone
  <2>3. /\ InAdmissions("reconcile")' => Holds(admissions', "reconcile")
        /\ InLifecycle("reconcile")' => Holds(lifecycle', "reconcile")
        /\ KeyedAt("reconcile")'
    BY <1>1, <1>3, <2>1, <2>2 DEF AdoptCompletion, Restoring, InAdmissions, InLifecycle, Keyed, KeyedAt, Kinds, Outside, At, Exclusive, Return, Idle, Over
  <2>4. Placed("reconcile")
    BY <1>1, <2>1, <2>3, PlacedIs DEF Next1, Return
  <2>5. Saves("reconcile")
    <3> DEFINE s == [st EXCEPT !.status = "completed"]
    <3>1. /\ Persist(s) \/ (st' = s /\ saved' = saved)
          /\ DOMAIN s = Fields /\ s.resolved = st.resolved /\ st.unknown \subseteq s.unknown
          /\ Noted(st) \subseteq Noted(s) /\ s.runs \subseteq Verifs
      BY <1>1, <2>1 DEF Shapes, Fields, Noted, WithOp, Receipted, Evidenced
    <3>2. /\ s.status = st.status \/ s.status \notin Working \/ Resuming("reconcile") \/ st.status \in Working
          /\ s.status \in {st.status, "verifying", "running"} \/ s.status \notin Working
          /\ s.status # "absent" /\ (s.status = "completed" => backend.status = "completed")
      BY <1>1, <1>2, <1>3, <2>1 DEF AdoptCompletion, Restoring, Shapes, Fields, WithOp, Receipted, Working, Resuming, Outside, At, Begins, Ended
    <3>3. s.evidence # None => Seen(s.evidence)
      BY <1>1, <2>1, EvidenceSeen DEF Shapes, Fields, WithOp, Receipted
    <3> HIDE DEF s
    <3> QED BY <3>1, <3>2, <3>3, SavesIs
  <2>6. Resuming("reconcile")' => Resuming("reconcile") \/ (backend.status # "completed" /\ NoneLost)
    BY <1>1, <1>3, <2>1, <2>2 DEF AdoptCompletion, Restoring, Resuming, At, Outside, NoneLost, Recovered, Ended, Idle, Over
  <2>7. Holds(admissions, "reconcile") \/ Leaves("reconcile")
    BY <1>1, <1>3, <2>1, <2>2 DEF AdoptCompletion, Restoring, Leaves, Exclusive, InAdmissions, Outside, At, Persist, Receipted, WithOp, Shapes, Fields, attempt, Idle, Over
  <2> QED BY <1>1, <1>2, <2>1, <2>2, <2>4, <2>5, <2>6, <2>7 DEF MethodStep, Slotted, Idle, Over
<1>4. CASE Throw("reconcile")
  <2>1. Throw("reconcile")
    BY <1>4 DEF AdoptCompletion, Restoring
  <2> QED BY <1>1, <1>2, <2>1, ThrowStep
<1> QED BY <1>3, <1>4 DEF AdoptCompletion, Restoring

LEMMA ProceedStep ==
  ASSUME IInv, Proceed
  PROVE  MethodStep("reconcile")
<1> USE OpsAre
<1>1. /\ Shapes /\ Exclusive /\ Begins /\ Ended /\ Evidenced /\ Recovered /\ Finalizing /\ Keyed /\ Remembered
      /\ "reconcile" \in Ops \ {"shutdown"} /\ pc["reconcile"][1] \notin Slotted /\ UNCHANGED <<backend, exec, proof, slot, done>>
  BY DEF IInv, Proceed, Restoring, At, Slotted, calls, world
<1>2. saved.status # "absent"
  BY <1>1 DEF Proceed, Restoring, Begins, At, Outside, Absent
<1>3. CASE ~Throw("reconcile")
  <2>1. /\ Goto("reconcile", <<"confirm">>) /\ UNCHANGED <<admissions, lifecycle>>
        /\ attempt' = attempt /\ backend.status # "completed" /\ Resolved
    BY <1>3, <1>1 DEF Proceed, Restoring, mutexes, attempt, Begin, Intend, Resume, At
  <2>2. pc'["reconcile"] = <<"confirm">>
    BY <1>1, <2>1, Gone
  <2>3. /\ InAdmissions("reconcile")' => Holds(admissions', "reconcile")
        /\ InLifecycle("reconcile")' => Holds(lifecycle', "reconcile")
        /\ KeyedAt("reconcile")'
    BY <1>1, <1>3, <2>1, <2>2 DEF Proceed, Restoring, InAdmissions, InLifecycle, Keyed, KeyedAt, Kinds, Outside, At, Exclusive, Return, Idle, Over
  <2>4. Placed("reconcile")
    BY <1>1, <2>1, <2>3, PlacedIs DEF Next1, Return
  <2>5. UNCHANGED attempt
    BY <2>1
  <2>6. Resuming("reconcile")' => Resuming("reconcile") \/ (backend.status # "completed" /\ NoneLost)
    BY ResolvedIs, <1>1, <1>3, <2>1, <2>2 DEF Proceed, Restoring, Resuming, At, Outside, NoneLost, Recovered, Ended, Idle, Over
  <2>7. Holds(admissions, "reconcile") \/ Leaves("reconcile")
    BY <1>1, <1>3, <2>1, <2>2 DEF Proceed, Restoring, Leaves, Exclusive, InAdmissions, Outside, At, Persist, Receipted, WithOp, Shapes, Fields, attempt, Idle, Over
  <2> QED BY <1>1, <1>2, <2>1, <2>2, <2>4, <2>5, <2>6, <2>7 DEF MethodStep, Slotted, Idle, Over
<1>4. CASE Throw("reconcile")
  <2>1. Throw("reconcile")
    BY <1>4 DEF Proceed, Restoring
  <2> QED BY <1>1, <1>2, <2>1, ThrowStep
<1> QED BY <1>3, <1>4 DEF Proceed, Restoring

LEMMA ConfirmStep ==
  ASSUME IInv, Confirm
  PROVE  MethodStep("reconcile")
<1> USE OpsAre
<1>1. /\ Shapes /\ Exclusive /\ Begins /\ Ended /\ Evidenced /\ Recovered /\ Finalizing /\ Keyed /\ Remembered
      /\ "reconcile" \in Ops \ {"shutdown"} /\ pc["reconcile"][1] \notin Slotted /\ UNCHANGED <<backend, exec, proof, slot, done>>
  BY DEF IInv, Confirm, Begin, At, Slotted, calls, world
<1>2. saved.status # "absent"
  BY <1>1 DEF Confirm, Begin, Begins, At, Outside, Absent
<1>3. CASE Throw("reconcile")
  <2>1. Throw("reconcile")
    BY <1>3 DEF Confirm, Begin
  <2> QED BY <1>1, <1>2, <2>1, ThrowStep
<1>4. CASE ~Throw("reconcile") /\ Uncovered /\ OwnKey \in DOMAIN st.ops /\ st.ops[OwnKey] = "receipt"
  <2>1. /\ Goto("reconcile", Idle) /\ Return("reconcile")
        /\ Persist([st EXCEPT !.status = "blocked"])
    BY <1>4, <1>1 DEF Confirm, Begin, mutexes, attempt, Begin, Intend, Resume, At
  <2>2. pc'["reconcile"] = Idle
    BY <1>1, <2>1, Gone
  <2>3. /\ InAdmissions("reconcile")' => Holds(admissions', "reconcile")
        /\ InLifecycle("reconcile")' => Holds(lifecycle', "reconcile")
        /\ KeyedAt("reconcile")'
    BY <1>1, <1>4, <2>1, <2>2 DEF Confirm, Begin, InAdmissions, InLifecycle, Keyed, KeyedAt, Kinds, Outside, At, Exclusive, Return, Idle, Over
  <2>4. Placed("reconcile")
    BY <1>1, <2>1, <2>3, PlacedIs DEF Next1, Return
  <2>5. Saves("reconcile")
    <3> DEFINE s == [st EXCEPT !.status = "blocked"]
    <3>1. /\ Persist(s) \/ (st' = s /\ saved' = saved)
          /\ DOMAIN s = Fields /\ s.resolved = st.resolved /\ st.unknown \subseteq s.unknown
          /\ Noted(st) \subseteq Noted(s) /\ s.runs \subseteq Verifs
      BY <1>1, <2>1 DEF Shapes, Fields, Noted, WithOp, Receipted, Evidenced
    <3>2. /\ s.status = st.status \/ s.status \notin Working \/ Resuming("reconcile") \/ st.status \in Working
          /\ s.status \in {st.status, "verifying", "running"} \/ s.status \notin Working
          /\ s.status # "absent" /\ (s.status = "completed" => backend.status = "completed")
      BY <1>1, <1>2, <1>4, <2>1 DEF Confirm, Begin, Shapes, Fields, WithOp, Receipted, Working, Resuming, Outside, At, Begins, Ended
    <3>3. s.evidence # None => Seen(s.evidence)
      BY <1>1, <2>1, EvidenceSeen DEF Shapes, Fields, WithOp, Receipted
    <3> HIDE DEF s
    <3> QED BY <3>1, <3>2, <3>3, SavesIs
  <2>6. Resuming("reconcile")' => Resuming("reconcile") \/ (backend.status # "completed" /\ NoneLost)
    BY <1>1, <1>4, <2>1, <2>2 DEF Confirm, Begin, Resuming, At, Outside, NoneLost, Recovered, Ended, Idle, Over
  <2>7. Holds(admissions, "reconcile") \/ Leaves("reconcile")
    BY <1>1, <1>4, <2>1, <2>2 DEF Confirm, Begin, Leaves, Exclusive, InAdmissions, Outside, At, Persist, Receipted, WithOp, Shapes, Fields, attempt, Idle, Over
  <2> QED BY <1>1, <1>2, <2>1, <2>2, <2>4, <2>5, <2>6, <2>7 DEF MethodStep, Slotted, Idle, Over
<1>5. CASE ~Throw("reconcile") /\ Uncovered /\ ~(OwnKey \in DOMAIN st.ops /\ st.ops[OwnKey] = "receipt")
  <2>1. /\ Goto("reconcile", <<"dispatch", OwnKey>>) /\ UNCHANGED <<admissions, lifecycle>>
        /\ Persist(WithOp(st, OwnKey, "started")) /\ st.evidence.id \in Verifs
    BY <1>5, <1>1 DEF Confirm, Begin, mutexes, attempt, Begin, Intend, Resume, At, Evidenced, Seen, Uncovered
  <2>2. pc'["reconcile"] = <<"dispatch", OwnKey>>
    BY <1>1, <2>1, Gone
  <2>3. /\ InAdmissions("reconcile")' => Holds(admissions', "reconcile")
        /\ InLifecycle("reconcile")' => Holds(lifecycle', "reconcile")
        /\ KeyedAt("reconcile")'
    BY <1>1, <1>5, <2>1, <2>2 DEF Confirm, Begin, InAdmissions, InLifecycle, Keyed, KeyedAt, Kinds, Outside, At, Exclusive, Return, Idle, Over, OwnKey
  <2>4. Placed("reconcile")
    BY <1>1, <2>1, <2>3, PlacedIs DEF Next1, Return
  <2>5. Saves("reconcile")
    <3> DEFINE s == WithOp(st, OwnKey, "started")
    <3>1. /\ Persist(s) \/ (st' = s /\ saved' = saved)
          /\ DOMAIN s = Fields /\ s.resolved = st.resolved /\ st.unknown \subseteq s.unknown
          /\ Noted(st) \subseteq Noted(s) /\ s.runs \subseteq Verifs
      BY <1>1, <2>1 DEF Shapes, Fields, Noted, WithOp, Receipted, Evidenced
    <3>2. /\ s.status = st.status \/ s.status \notin Working \/ Resuming("reconcile") \/ st.status \in Working
          /\ s.status \in {st.status, "verifying", "running"} \/ s.status \notin Working
          /\ s.status # "absent" /\ (s.status = "completed" => backend.status = "completed")
      BY <1>1, <1>2, <1>5, <2>1 DEF Confirm, Begin, Shapes, Fields, WithOp, Receipted, Working, Resuming, Outside, At, Begins, Ended
    <3>3. s.evidence # None => Seen(s.evidence)
      BY <1>1, <2>1, EvidenceSeen DEF Shapes, Fields, WithOp, Receipted
    <3> HIDE DEF s
    <3> QED BY <3>1, <3>2, <3>3, SavesIs
  <2>6. Resuming("reconcile")' => Resuming("reconcile") \/ (backend.status # "completed" /\ NoneLost)
    BY <1>1, <1>5, <2>1, <2>2 DEF Confirm, Begin, Resuming, At, Outside, NoneLost, Recovered, Ended, Idle, Over
  <2>7. Holds(admissions, "reconcile") \/ Leaves("reconcile")
    BY <1>1, <1>5, <2>1, <2>2 DEF Confirm, Begin, Leaves, Exclusive, InAdmissions, Outside, At, Persist, Receipted, WithOp, Shapes, Fields, attempt, Idle, Over
  <2> QED BY <1>1, <1>2, <2>1, <2>2, <2>4, <2>5, <2>6, <2>7 DEF MethodStep, Slotted, Idle, Over
<1>6. CASE ~Throw("reconcile") /\ ~Uncovered
  <2>1. /\ Goto("reconcile", Idle) /\ Return("reconcile")
        /\ Persist([st EXCEPT !.renewalFailed = FALSE, !.status = IF st.evidence = None THEN "running" ELSE "verifying"])
    BY <1>6, <1>1 DEF Confirm, Begin, mutexes, attempt, Begin, Intend, Resume, At
  <2>2. pc'["reconcile"] = Idle
    BY <1>1, <2>1, Gone
  <2>3. /\ InAdmissions("reconcile")' => Holds(admissions', "reconcile")
        /\ InLifecycle("reconcile")' => Holds(lifecycle', "reconcile")
        /\ KeyedAt("reconcile")'
    BY <1>1, <1>6, <2>1, <2>2 DEF Confirm, Begin, InAdmissions, InLifecycle, Keyed, KeyedAt, Kinds, Outside, At, Exclusive, Return, Idle, Over
  <2>4. Placed("reconcile")
    BY <1>1, <2>1, <2>3, PlacedIs DEF Next1, Return
  <2>5. Saves("reconcile")
    <3> DEFINE s == [st EXCEPT !.renewalFailed = FALSE, !.status = IF st.evidence = None THEN "running" ELSE "verifying"]
    <3>1. /\ Persist(s) \/ (st' = s /\ saved' = saved)
          /\ DOMAIN s = Fields /\ s.resolved = st.resolved /\ st.unknown \subseteq s.unknown
          /\ Noted(st) \subseteq Noted(s) /\ s.runs \subseteq Verifs
      BY <1>1, <2>1 DEF Shapes, Fields, Noted, WithOp, Receipted, Evidenced
    <3>2. /\ s.status = st.status \/ s.status \notin Working \/ Resuming("reconcile") \/ st.status \in Working
          /\ s.status \in {st.status, "verifying", "running"} \/ s.status \notin Working
          /\ s.status # "absent" /\ (s.status = "completed" => backend.status = "completed")
      BY <1>1, <1>2, <1>6, <2>1 DEF Confirm, Begin, Shapes, Fields, WithOp, Receipted, Working, Resuming, Outside, At, Begins, Ended
    <3>3. s.evidence # None => Seen(s.evidence)
      BY <1>1, <2>1, EvidenceSeen DEF Shapes, Fields, WithOp, Receipted
    <3> HIDE DEF s
    <3> QED BY <3>1, <3>2, <3>3, SavesIs
  <2>6. Resuming("reconcile")' => Resuming("reconcile") \/ (backend.status # "completed" /\ NoneLost)
    BY <1>1, <1>6, <2>1, <2>2 DEF Confirm, Begin, Resuming, At, Outside, NoneLost, Recovered, Ended, Idle, Over
  <2>7. Holds(admissions, "reconcile") \/ Leaves("reconcile")
    BY <1>1, <1>6, <2>1, <2>2 DEF Confirm, Begin, Leaves, Exclusive, InAdmissions, Outside, At, Persist, Receipted, WithOp, Shapes, Fields, attempt, Idle, Over
  <2> QED BY <1>1, <1>2, <2>1, <2>2, <2>4, <2>5, <2>6, <2>7 DEF MethodStep, Slotted, Idle, Over
<1> QED BY <1>3, <1>4, <1>5, <1>6 DEF Confirm, Begin

LEMMA CoveredStep ==
  ASSUME IInv, Covered
  PROVE  MethodStep("reconcile")
<1> USE OpsAre
<1>1. /\ Shapes /\ Exclusive /\ Begins /\ Ended /\ Evidenced /\ Recovered /\ Finalizing /\ Keyed /\ Remembered
      /\ "reconcile" \in Ops \ {"shutdown"} /\ pc["reconcile"][1] \notin Slotted /\ UNCHANGED <<backend, exec, proof, slot, done>>
  BY DEF IInv, Covered, At, Slotted, calls, world
<1>2. saved.status # "absent"
  BY <1>1 DEF Covered, Begins, At, Outside, Absent
<1>3. /\ Goto("reconcile", Idle) /\ Return("reconcile")
      /\ Persist([st EXCEPT !.renewalFailed = FALSE, !.status = IF st.evidence = None THEN "running" ELSE "verifying"])
  BY <1>1 DEF Covered, mutexes, attempt, Begin, Intend, Resume, At
<1>4. pc'["reconcile"] = Idle
  BY <1>1, <1>3, Gone
<1>5. /\ InAdmissions("reconcile")' => Holds(admissions', "reconcile")
      /\ InLifecycle("reconcile")' => Holds(lifecycle', "reconcile")
      /\ KeyedAt("reconcile")'
  BY <1>1, <1>3, <1>4 DEF Covered, InAdmissions, InLifecycle, Keyed, KeyedAt, Kinds, Outside, At, Exclusive, Return, Idle, Over
<1>6. Placed("reconcile")
  BY <1>1, <1>3, <1>5, PlacedIs DEF Next1, Return
<1>7. Saves("reconcile")
  <2> DEFINE s == [st EXCEPT !.renewalFailed = FALSE, !.status = IF st.evidence = None THEN "running" ELSE "verifying"]
  <2>1. /\ Persist(s) \/ (st' = s /\ saved' = saved)
        /\ DOMAIN s = Fields /\ s.resolved = st.resolved /\ st.unknown \subseteq s.unknown
        /\ Noted(st) \subseteq Noted(s) /\ s.runs \subseteq Verifs
    BY <1>1, <1>3 DEF Shapes, Fields, Noted, WithOp, Receipted, Evidenced
  <2>2. /\ s.status = st.status \/ s.status \notin Working \/ Resuming("reconcile") \/ st.status \in Working
        /\ s.status \in {st.status, "verifying", "running"} \/ s.status \notin Working
        /\ s.status # "absent" /\ (s.status = "completed" => backend.status = "completed")
    BY <1>1, <1>2, <1>3 DEF Covered, Shapes, Fields, WithOp, Receipted, Working, Resuming, Outside, At, Begins, Ended
  <2>3. s.evidence # None => Seen(s.evidence)
    BY <1>1, <1>3, EvidenceSeen DEF Shapes, Fields, WithOp, Receipted
  <2> HIDE DEF s
  <2> QED BY <2>1, <2>2, <2>3, SavesIs
<1>8. Resuming("reconcile")' => Resuming("reconcile") \/ (backend.status # "completed" /\ NoneLost)
  BY <1>1, <1>3, <1>4 DEF Covered, Resuming, At, Outside, NoneLost, Recovered, Ended, Idle, Over
<1>9. Holds(admissions, "reconcile") \/ Leaves("reconcile")
  BY <1>1, <1>3, <1>4 DEF Covered, Leaves, Exclusive, InAdmissions, Outside, At, Persist, Receipted, WithOp, Shapes, Fields, attempt, Idle, Over
<1> QED BY <1>1, <1>2, <1>3, <1>4, <1>6, <1>7, <1>8, <1>9 DEF MethodStep, Slotted, Idle, Over

LEMMA RedoneStep ==
  ASSUME IInv, Redone
  PROVE  MethodStep("reconcile")
<1> USE OpsAre
<1>1. /\ Shapes /\ Exclusive /\ Begins /\ Ended /\ Evidenced /\ Recovered /\ Finalizing /\ Keyed /\ Remembered
      /\ "reconcile" \in Ops \ {"shutdown"} /\ pc["reconcile"][1] \notin Slotted /\ UNCHANGED <<backend, exec, proof, slot, done>>
  BY DEF IInv, Redone, At, Slotted, calls, world
<1>2. saved.status # "absent"
  BY <1>1 DEF Redone, Begins, At, Outside, Absent
<1>3. /\ Goto("reconcile", Onward[pc["reconcile"][2][1]]) /\ UNCHANGED <<admissions, lifecycle>>
      /\ Persist(Receipted(pc["reconcile"][2])) /\ Onward[pc["reconcile"][2][1]] \in {<<"restore">>, <<"confirm">>, <<"covered">>}
  BY <1>1 DEF Redone, mutexes, attempt, Begin, Intend, Resume, At, Keyed, KeyedAt, Kinds, Onward
<1>4. pc'["reconcile"] = Onward[pc["reconcile"][2][1]]
  BY <1>1, <1>3, Gone
<1>5. /\ InAdmissions("reconcile")' => Holds(admissions', "reconcile")
      /\ InLifecycle("reconcile")' => Holds(lifecycle', "reconcile")
      /\ KeyedAt("reconcile")'
  <2>1. pc'["reconcile"][1] \in {"restore", "confirm", "covered"}
    BY <1>3, <1>4
  <2>2. Holds(admissions, "reconcile") /\ Holds(lifecycle, "reconcile")
    BY <1>1 DEF Redone, At, Exclusive, InAdmissions, InLifecycle, Outside
  <2> QED BY <1>3, <2>1, <2>2 DEF KeyedAt, Holds, At
<1>6. Placed("reconcile")
  BY <1>1, <1>3, <1>5, PlacedIs DEF Next1, Return
<1>7. Saves("reconcile")
  <2> DEFINE s == Receipted(pc["reconcile"][2])
  <2>1. /\ Persist(s) \/ (st' = s /\ saved' = saved)
        /\ DOMAIN s = Fields /\ s.resolved = st.resolved /\ st.unknown \subseteq s.unknown
        /\ Noted(st) \subseteq Noted(s) /\ s.runs \subseteq Verifs
    BY <1>1, <1>3 DEF Shapes, Fields, Noted, WithOp, Receipted, Evidenced
  <2>2. /\ s.status = st.status \/ s.status \notin Working \/ Resuming("reconcile") \/ st.status \in Working
        /\ s.status \in {st.status, "verifying", "running"} \/ s.status \notin Working
        /\ s.status # "absent" /\ (s.status = "completed" => backend.status = "completed")
    BY <1>1, <1>2, <1>3 DEF Redone, Shapes, Fields, WithOp, Receipted, Working, Resuming, Outside, At, Begins, Ended
  <2>3. s.evidence # None => Seen(s.evidence)
    BY <1>1, <1>3, EvidenceSeen DEF Shapes, Fields, WithOp, Receipted
  <2> HIDE DEF s
  <2> QED BY <2>1, <2>2, <2>3, SavesIs
<1>8. Resuming("reconcile")' => Resuming("reconcile") \/ (backend.status # "completed" /\ NoneLost)
  BY <1>1, <1>3, <1>4 DEF Redone, Resuming, At, Outside, NoneLost, Recovered, Ended, Idle, Over
<1>9. Holds(admissions, "reconcile") \/ Leaves("reconcile")
  BY <1>1, <1>3, <1>4 DEF Redone, Leaves, Exclusive, InAdmissions, Outside, At, Persist, Receipted, WithOp, Shapes, Fields, attempt, Idle, Over
<1> QED BY <1>1, <1>2, <1>3, <1>4, <1>6, <1>7, <1>8, <1>9 DEF MethodStep, Slotted, Idle, Over


LEMMA ReconcileOperationStep ==
  ASSUME IInv, NEW key, ReconcileOperation(key)
  PROVE  MethodStep("reconcile")
<1> USE OpsAre
<1> DEFINE s == IF key \in backend.receipts THEN Receipted(key) ELSE WithOp(st, key, "absent")
           o == "reconcile"
<1>1. /\ Shapes /\ Exclusive /\ Begins /\ Ended /\ Evidenced /\ Keyed
      /\ pc[o][1] = "operations" /\ UNCHANGED <<backend, exec, proof, slot, done>>
      /\ st' = s /\ saved' \in {saved, s}
  BY DEF IInv, ReconcileOperation, At, calls, world
<1>2. saved.status # "absent"
  BY <1>1 DEF Begins, Outside, Absent
<1>3. Holds(admissions, o) /\ Holds(lifecycle, o)
  BY <1>1 DEF Exclusive, InAdmissions, InLifecycle, Outside
<1>4. /\ DOMAIN s = Fields /\ s.status = st.status /\ s.inflight = st.inflight /\ s.unknown = st.unknown
      /\ s.resolved = st.resolved /\ s.evidence = st.evidence /\ s.runs = st.runs
  BY <1>1 DEF Shapes, Fields, WithOp, Receipted
<1> HIDE DEF s
<1>5. Saves(o)
  BY <1>1, <1>2, <1>4 DEF Saves, Noted, Begins, Ended, Evidenced
<1>6. CASE pc' = pc /\ UNCHANGED mutexes
  <2>1. Placed(o)
    BY <1>1, <1>6 DEF Placed, mutexes, Shapes, Exclusive, InAdmissions, InLifecycle, Keyed, KeyedAt, At, Holds
  <2> QED BY <1>1, <1>2, <1>3, <1>5, <1>6, <2>1 DEF MethodStep, Resuming, At
<1>7. CASE Return(o) /\ Goto(o, Idle)
  <2>1. pc'[o] = Idle
    BY <1>1, <1>7, Gone
  <2>2. Placed(o)
    BY <1>1, <1>7, <2>1, AwayIs, PlacedIs DEF Next1, Return, Idle
  <2> QED BY <1>1, <1>2, <1>3, <1>5, <2>1, <2>2, AwayIs DEF MethodStep, Idle
<1> QED BY <1>6, <1>7 DEF ReconcileOperation


(* The saved calls recovered: what may have run stays noted.                   *)
RecoversTo(r) ==
  /\ At("reconcile", "lifecycle") /\ Holds(lifecycle, "reconcile") /\ r \in WithRuns(WithSteps(st))
  /\ \/ /\ Inflight = {} /\ Launched
        /\ \/ r = st /\ Goto("reconcile", <<"recovered">>) /\ UNCHANGED <<attempt, mutexes>>
           \/ r # st /\ ~Closed /\ Persist(r) /\ Goto("reconcile", <<"recovered">>) /\ UNCHANGED mutexes
           \/ r # st /\ Closed /\ Persist(r) /\ Return("reconcile") /\ Goto("reconcile", Idle)
     \/ Throw("reconcile")
  /\ UNCHANGED <<world, calls, env>>

LEMMA RecoveredIs ==
  ASSUME IInv, NEW r \in WithRuns(WithSteps(st)), Inflight = {}, Launched
  PROVE  /\ DOMAIN r = Fields /\ r.status = st.status /\ r.resolved = st.resolved
         /\ st.unknown \subseteq r.unknown /\ r.runs \subseteq Verifs
         /\ \A x \in Steps : x \in Noted(st) /\ (Doubtful(x) \/ pc[x][1] \in Busy) => x \in Noted(r)
         /\ r.evidence # None => Seen(r.evidence)
<1> USE OpsAre
<1>1. Shapes /\ Evidenced
  BY DEF IInv
<1> DEFINE w == WithSteps(st)
           known == {v \in w.runs : exec[v] = "known"}
<1>2. /\ DOMAIN w = Fields /\ w.status = st.status /\ w.resolved = st.resolved /\ w.runs = st.runs
      /\ w.evidence = st.evidence
      /\ w.inflight = {c \in st.inflight : exec[c] = "started"}
      /\ w.unknown = st.unknown \cup {c \in st.inflight : exec[c] \in {"started", "unknown"}}
  BY <1>1 DEF WithSteps, Shapes, Fields
<1> HIDE DEF w
<1>3. PICK e \in (IF known = {} THEN {w.evidence} ELSE {proof[v] : v \in known}) :
        r = [w EXCEPT !.runs     = {v \in @ : exec[v] \in {"started", "unknown"}},
                      !.unknown  = @ \cup {v \in w.runs : exec[v] = "unknown"},
                      !.evidence = e]
  <2>1. r \in WithRuns(w)
    BY DEF w
  <2> QED BY <2>1 DEF WithRuns
<1>4. /\ DOMAIN r = Fields /\ r.status = st.status /\ r.resolved = st.resolved /\ r.inflight = w.inflight
      /\ w.unknown \subseteq r.unknown /\ r.runs \subseteq st.runs /\ r.evidence = e
  BY <1>2, <1>3 DEF Fields
<1>5. e # None => Seen(e)
  <2>1. CASE known = {}
    BY <1>1, <1>2, <1>3, <2>1 DEF Evidenced
  <2>2. CASE known # {}
    <3>1. PICK v \in known : e = proof[v]
      BY <1>3, <2>2
    <3> QED BY <1>1, <1>2, <3>1 DEF Evidenced
  <2> QED BY <2>1, <2>2
<1>6. \A x \in Steps : pc[x][1] \notin Busy
  BY DEF Inflight, Launched, Busy, At
<1> QED BY <1>1, <1>2, <1>4, <1>5, <1>6 DEF Evidenced, Noted, Doubtful

LEMMA RecoverCallsStep ==
  ASSUME IInv, NEW r, RecoversTo(r)
  PROVE  MethodStep("reconcile")
<1> USE OpsAre
<1>1. /\ Shapes /\ Exclusive /\ Begins /\ Ended /\ Evidenced /\ Recovered /\ Finalizing /\ Keyed /\ Remembered
      /\ "reconcile" \in Ops \ {"shutdown"} /\ pc["reconcile"][1] \notin Slotted /\ UNCHANGED <<backend, exec, proof, slot, done>>
  BY DEF IInv, RecoversTo, At, Slotted, calls, world
<1>2. saved.status # "absent"
  BY <1>1 DEF RecoversTo, Begins, At, Outside, Absent
<1>3. CASE Throw("reconcile")
  <2>1. Throw("reconcile")
    BY <1>3 DEF RecoversTo
  <2> QED BY <1>1, <1>2, <2>1, ThrowStep
<1>4. CASE ~Throw("reconcile") /\ r = st
  <2>1. /\ Goto("reconcile", <<"recovered">>) /\ UNCHANGED <<admissions, lifecycle>>
        /\ attempt' = attempt
    BY <1>4, <1>1 DEF RecoversTo, mutexes, attempt, Begin, Intend, Resume, At
  <2>2. pc'["reconcile"] = <<"recovered">>
    BY <1>1, <2>1, Gone
  <2>3. /\ InAdmissions("reconcile")' => Holds(admissions', "reconcile")
        /\ InLifecycle("reconcile")' => Holds(lifecycle', "reconcile")
        /\ KeyedAt("reconcile")'
    BY <1>1, <1>4, <2>1, <2>2 DEF RecoversTo, InAdmissions, InLifecycle, Keyed, KeyedAt, Kinds, Outside, At, Exclusive, Return, Idle, Over
  <2>4. Placed("reconcile")
    BY <1>1, <2>1, <2>3, PlacedIs DEF Next1, Return
  <2>5. UNCHANGED attempt
    BY <2>1
  <2>6. Resuming("reconcile")' => Resuming("reconcile") \/ (backend.status # "completed" /\ NoneLost)
    BY <1>1, <1>4, <2>1, <2>2 DEF RecoversTo, Resuming, At, Outside, NoneLost, Recovered, Ended, Idle, Over
  <2>7. Holds(admissions, "reconcile") \/ Leaves("reconcile")
    BY <1>1, <1>4, <2>1, <2>2 DEF RecoversTo, Leaves, Exclusive, InAdmissions, Outside, At, Persist, Receipted, WithOp, Shapes, Fields, attempt, Idle, Over
  <2> QED BY <1>1, <1>2, <2>1, <2>2, <2>4, <2>5, <2>6, <2>7 DEF MethodStep, Slotted, Idle, Over
<1>5. CASE ~Throw("reconcile") /\ r # st /\ ~Closed
  <2>1. /\ Goto("reconcile", <<"recovered">>) /\ UNCHANGED <<admissions, lifecycle>>
        /\ Persist(r) /\ Inflight = {} /\ Launched /\ r \in WithRuns(WithSteps(st))
    BY <1>5, <1>1 DEF RecoversTo, mutexes, attempt, Begin, Intend, Resume, At
  <2>2. pc'["reconcile"] = <<"recovered">>
    BY <1>1, <2>1, Gone
  <2>3. /\ InAdmissions("reconcile")' => Holds(admissions', "reconcile")
        /\ InLifecycle("reconcile")' => Holds(lifecycle', "reconcile")
        /\ KeyedAt("reconcile")'
    BY <1>1, <1>5, <2>1, <2>2 DEF RecoversTo, InAdmissions, InLifecycle, Keyed, KeyedAt, Kinds, Outside, At, Exclusive, Return, Idle, Over
  <2>4. Placed("reconcile")
    BY <1>1, <2>1, <2>3, PlacedIs DEF Next1, Return
  <2>5. Saves("reconcile")
    <3>1. /\ DOMAIN r = Fields /\ r.status = st.status /\ r.resolved = st.resolved
          /\ st.unknown \subseteq r.unknown /\ r.runs \subseteq Verifs
          /\ \A x \in Steps : x \in Noted(st) /\ (Doubtful(x) \/ pc[x][1] \in Busy) => x \in Noted(r)
          /\ r.evidence # None => Seen(r.evidence)
      BY <2>1, RecoveredIs
    <3>2. r.status # "absent" /\ (r.status = "completed" => backend.status = "completed")
      BY <1>1, <1>2, <3>1 DEF Begins, Ended
    <3> QED BY <2>1, <3>1, <3>2, SavesIs
  <2>6. Resuming("reconcile")' => Resuming("reconcile") \/ (backend.status # "completed" /\ NoneLost)
    BY <1>1, <1>5, <2>1, <2>2 DEF RecoversTo, Resuming, At, Outside, NoneLost, Recovered, Ended, Idle, Over
  <2>7. Holds(admissions, "reconcile") \/ Leaves("reconcile")
    BY <1>1, <1>5, <2>1, <2>2 DEF RecoversTo, Leaves, Exclusive, InAdmissions, Outside, At, Persist, Receipted, WithOp, Shapes, Fields, attempt, Idle, Over
  <2> QED BY <1>1, <1>2, <2>1, <2>2, <2>4, <2>5, <2>6, <2>7 DEF MethodStep, Slotted, Idle, Over
<1>6. CASE ~Throw("reconcile") /\ r # st /\ Closed
  <2>1. /\ Goto("reconcile", Idle) /\ Return("reconcile")
        /\ Persist(r) /\ Inflight = {} /\ Launched /\ r \in WithRuns(WithSteps(st))
    BY <1>6, <1>1 DEF RecoversTo, mutexes, attempt, Begin, Intend, Resume, At
  <2>2. pc'["reconcile"] = Idle
    BY <1>1, <2>1, Gone
  <2>3. /\ InAdmissions("reconcile")' => Holds(admissions', "reconcile")
        /\ InLifecycle("reconcile")' => Holds(lifecycle', "reconcile")
        /\ KeyedAt("reconcile")'
    BY <1>1, <1>6, <2>1, <2>2 DEF RecoversTo, InAdmissions, InLifecycle, Keyed, KeyedAt, Kinds, Outside, At, Exclusive, Return, Idle, Over
  <2>4. Placed("reconcile")
    BY <1>1, <2>1, <2>3, PlacedIs DEF Next1, Return
  <2>5. Saves("reconcile")
    <3>1. /\ DOMAIN r = Fields /\ r.status = st.status /\ r.resolved = st.resolved
          /\ st.unknown \subseteq r.unknown /\ r.runs \subseteq Verifs
          /\ \A x \in Steps : x \in Noted(st) /\ (Doubtful(x) \/ pc[x][1] \in Busy) => x \in Noted(r)
          /\ r.evidence # None => Seen(r.evidence)
      BY <2>1, RecoveredIs
    <3>2. r.status # "absent" /\ (r.status = "completed" => backend.status = "completed")
      BY <1>1, <1>2, <3>1 DEF Begins, Ended
    <3> QED BY <2>1, <3>1, <3>2, SavesIs
  <2>6. Resuming("reconcile")' => Resuming("reconcile") \/ (backend.status # "completed" /\ NoneLost)
    BY <1>1, <1>6, <2>1, <2>2 DEF RecoversTo, Resuming, At, Outside, NoneLost, Recovered, Ended, Idle, Over
  <2>7. Holds(admissions, "reconcile") \/ Leaves("reconcile")
    BY <1>1, <1>6, <2>1, <2>2 DEF RecoversTo, Leaves, Exclusive, InAdmissions, Outside, At, Persist, Receipted, WithOp, Shapes, Fields, attempt, Idle, Over
  <2> QED BY <1>1, <1>2, <2>1, <2>2, <2>4, <2>5, <2>6, <2>7 DEF MethodStep, Slotted, Idle, Over
<1> QED BY <1>3, <1>4, <1>5, <1>6 DEF RecoversTo


(* Effects confirmed by readback: they are no longer in doubt.                 *)
ConfirmsEffects(verified) ==
  /\ At("reconcile", "effects") /\ verified \subseteq Unsure /\ Fresh({"running"})
  /\ Persist([st EXCEPT !.unknown = @ \ verified, !.inflight = @ \ verified, !.resolved = @ \cup verified])
  /\ Goto("reconcile", <<"restore">>) /\ UNCHANGED mutexes
  /\ UNCHANGED <<world, calls, env>>
LEMMA ConfirmEffectsStep ==
  ASSUME IInv, NEW verified, ConfirmsEffects(verified)
  PROVE  MethodStep("reconcile")
<1> USE OpsAre
<1> DEFINE s == [st EXCEPT !.unknown = @ \ verified, !.inflight = @ \ verified, !.resolved = @ \cup verified]
           o == "reconcile"
<1>1. /\ Shapes /\ Exclusive /\ Begins /\ Ended /\ Evidenced /\ Keyed
      /\ pc[o][1] = "effects" /\ UNCHANGED <<backend, exec, proof, slot, done, mutexes>>
      /\ Goto(o, <<"restore">>) /\ Persist(s) /\ verified \subseteq st.unknown
  BY DEF IInv, ConfirmsEffects, Unsure, At, calls, world, mutexes
<1>2. saved.status # "absent"
  BY <1>1 DEF Begins, Outside, Absent
<1>3. Holds(admissions, o) /\ Holds(lifecycle, o)
  BY <1>1 DEF Exclusive, InAdmissions, InLifecycle, Outside
<1>4. /\ DOMAIN s = Fields /\ s.status = st.status /\ s.inflight = st.inflight \ verified
      /\ s.unknown = st.unknown \ verified
      /\ s.resolved = st.resolved \cup verified /\ s.evidence = st.evidence /\ s.runs = st.runs
  BY <1>1 DEF Shapes, Fields
<1>5. backend.status = "running"
  BY DEF ConfirmsEffects, Fresh
<1> HIDE DEF s
<1>6. st' = s /\ saved' = s
  BY <1>1, <1>5 DEF Persist, Closed, Ended
<1>7. Saves(o)
  BY <1>1, <1>2, <1>4, <1>6 DEF Saves, Noted, Begins, Ended, Evidenced
<1>8. pc'[o] = <<"restore">>
  BY <1>1, Gone
<1>9. Placed(o)
  <2>1. (InAdmissions(o)' => Holds(admissions', o)) /\ (InLifecycle(o)' => Holds(lifecycle', o)) /\ KeyedAt(o)'
    BY <1>1, <1>3, <1>8 DEF InAdmissions, InLifecycle, KeyedAt, mutexes, Holds, At
  <2> QED BY <1>1, <2>1, PlacedIs DEF Next1, mutexes
<1> QED BY <1>1, <1>2, <1>3, <1>7, <1>8, <1>9 DEF MethodStep, Resuming, At


KnowsEffects ==
  /\ At("reconcile", "effects")
  /\ \/ Goto("reconcile", <<"restore">>) /\ UNCHANGED <<attempt, mutexes>>
     \/ Throw("reconcile")
  /\ UNCHANGED <<world, calls, env>>

LEMMA KnownEffectsStep ==
  ASSUME IInv, KnowsEffects
  PROVE  MethodStep("reconcile")
<1> USE OpsAre
<1>1. /\ Shapes /\ Exclusive /\ Begins /\ Ended /\ Evidenced /\ Recovered /\ Finalizing /\ Keyed /\ Remembered
      /\ "reconcile" \in Ops \ {"shutdown"} /\ pc["reconcile"][1] \notin Slotted /\ UNCHANGED <<backend, exec, proof, slot, done>>
  BY DEF IInv, KnowsEffects, At, Slotted, calls, world
<1>2. saved.status # "absent"
  BY <1>1 DEF KnowsEffects, Begins, At, Outside, Absent
<1>3. CASE Throw("reconcile")
  <2>1. Throw("reconcile")
    BY <1>3 DEF KnowsEffects
  <2> QED BY <1>1, <1>2, <2>1, ThrowStep
<1>4. CASE ~Throw("reconcile")
  <2>1. /\ Goto("reconcile", <<"restore">>) /\ UNCHANGED <<admissions, lifecycle>>
        /\ attempt' = attempt
    BY <1>4, <1>1 DEF KnowsEffects, mutexes, attempt, Begin, Intend, Resume, At
  <2>2. pc'["reconcile"] = <<"restore">>
    BY <1>1, <2>1, Gone
  <2>3. /\ InAdmissions("reconcile")' => Holds(admissions', "reconcile")
        /\ InLifecycle("reconcile")' => Holds(lifecycle', "reconcile")
        /\ KeyedAt("reconcile")'
    BY <1>1, <1>4, <2>1, <2>2 DEF KnowsEffects, InAdmissions, InLifecycle, Keyed, KeyedAt, Kinds, Outside, At, Exclusive, Return, Idle, Over
  <2>4. Placed("reconcile")
    BY <1>1, <2>1, <2>3, PlacedIs DEF Next1, Return
  <2>5. UNCHANGED attempt
    BY <2>1
  <2>6. Resuming("reconcile")' => Resuming("reconcile") \/ (backend.status # "completed" /\ NoneLost)
    BY <1>1, <1>4, <2>1, <2>2 DEF KnowsEffects, Resuming, At, Outside, NoneLost, Recovered, Ended, Idle, Over
  <2>7. Holds(admissions, "reconcile") \/ Leaves("reconcile")
    BY <1>1, <1>4, <2>1, <2>2 DEF KnowsEffects, Leaves, Exclusive, InAdmissions, Outside, At, Persist, Receipted, WithOp, Shapes, Fields, attempt, Idle, Over
  <2> QED BY <1>1, <1>2, <2>1, <2>2, <2>4, <2>5, <2>6, <2>7 DEF MethodStep, Slotted, Idle, Over
<1> QED BY <1>3, <1>4 DEF KnowsEffects

-----------------------------------------------------------------------------
(* The executor's steps of a call in flight.                                   *)
Notes ==
  /\ DOMAIN st' = Fields /\ (saved' = saved \/ saved' = st')
  /\ st'.status \in {st.status, "reconciliation_required"} /\ st'.inflight = st.inflight
  /\ st.unknown \subseteq st'.unknown /\ st'.resolved = st.resolved
  /\ st'.evidence = st.evidence /\ st'.runs \subseteq Verifs
RunStep(c) ==
  /\ pc[c][1] \in Busy /\ Placed(c) /\ UNCHANGED <<backend, done>> /\ (UNCHANGED attempt \/ Notes)
  /\ DOMAIN exec' = Calls /\ \A x \in Calls \ {c} : exec'[x] = exec[x]
  /\ DOMAIN proof' = Verifs /\ \A v \in Verifs \ {c} : proof'[v] = proof[v]
  /\ c \in Verifs =>
       /\ proof'[c] # None => Seen(proof'[c])
       /\ pc'[c][1] = "entered" => Seen(proof'[c]) /\ DOMAIN proof'[c] = {"id", "epoch", "tree", "saw", "passed"}
  /\ pc'[c][1] # "checked"
  /\ c \in Steps /\ pc'[c][1] = "published" => c \in st'.unknown
  /\ pc'[c][1] \in Slotted => slot' = c
  /\ \A x \in Calls \ {c} : slot = x => slot' = x
  /\ c \in Steps /\ Lost(c)' => Lost(c)
  /\ pc[c][1] = "slotted" /\ pc'[c][1] = "entered" => Accepted(c)

LEMMA RunKeeps ==
  ASSUME IInv, NEW c \in Calls, RunStep(c)
  PROVE  IInv' /\ Enters
<1> USE OpsAre
<1>1. /\ Shapes /\ Exclusive /\ Keyed /\ Begins /\ Remembered /\ Ended /\ Finalizing
      /\ Evidenced /\ CompletionStands /\ Recovered
  BY DEF IInv
<1>2. /\ pc[c][1] \in Busy /\ Placed(c) /\ backend' = backend /\ done' = done /\ (UNCHANGED attempt \/ Notes)
      /\ DOMAIN exec' = Calls /\ DOMAIN proof' = Verifs
  BY DEF RunStep
<1>3. \A q \in Ops : q # c => pc'[q] = pc[q] /\ (Resuming(q)' <=> Resuming(q))
  BY <1>2, Elsewhere DEF Placed
<1>4. ~Resuming(c)'
  BY DEF RunStep, Resuming, At
<1>5. saved.status # "absent" /\ st.status # "absent" /\ st'.status # "absent" /\ saved'.status # "absent"
  <2>1. saved.status # "absent"
    BY <1>1, <1>2 DEF Begins, Busy
  <2> QED BY <1>1, <1>2, <2>1 DEF Begins, Notes, attempt
<1>6. /\ Noted(st) \subseteq Noted(st') /\ (Noted(saved) \subseteq Noted(saved') \/ saved' = st')
      /\ st'.resolved = st.resolved /\ saved'.resolved = saved.resolved
      /\ st.unknown \subseteq st'.unknown
  BY <1>1, <1>2 DEF Notes, attempt, Noted, Ended
<1>7. \A s \in Steps \ {c} : Doubtful(s)' <=> Doubtful(s)
  BY DEF Doubtful, RunStep
<1>8. \A s \in Steps : Lost(s)' => Lost(s)
  <2> SUFFICES ASSUME NEW s \in Steps, Lost(s)' PROVE Lost(s)
    OBVIOUS
  <2>1. CASE s = c
    BY <2>1 DEF RunStep
  <2>2. CASE s # c
    BY <1>3, <1>6, <1>7, <2>2 DEF Lost
  <2> QED BY <2>1, <2>2
<1>9. c \in Steps => backend.status # "completed"
  BY <1>1, <1>2 DEF Ended
<1>a. Shapes'
  BY <1>1, <1>2 DEF Shapes, Placed, Notes, attempt
<1>b. Exclusive' /\ Keyed'
  BY <1>1, <1>2, PlacedKeeps
<1>c. Begins'
  BY <1>1, <1>3, <1>5 DEF Begins, At
<1>d. Remembered'
  <2> SUFFICES ASSUME NEW s \in Steps
               PROVE  /\ Doubtful(s)' \/ pc'[s][1] \in Busy => s \in Noted(st') /\ s \in Noted(saved')
                      /\ pc'[s][1] = "published" => s \in st'.unknown \cup st'.resolved
    BY DEF Remembered, At
  <2>1. Doubtful(s)' \/ pc'[s][1] \in Busy => Doubtful(s) \/ pc[s][1] \in Busy
    BY <1>2, <1>3, <1>7
  <2>2. pc'[s][1] = "published" => s \in st'.unknown \cup st'.resolved
    BY <1>1, <1>3, <1>6 DEF Remembered, At, RunStep
  <2>3. s \in Noted(st) => s \in Noted(st')
    BY <1>6
  <2>4. s \in Noted(st) /\ s \in Noted(saved) => s \in Noted(saved')
    BY <1>6
  <2> QED BY <1>1, <2>1, <2>2, <2>3, <2>4 DEF Remembered
<1>e. Ended'
  <2>1. "completed" \in {st'.status, saved'.status} => backend'.status = "completed"
    BY <1>1, <1>2 DEF Ended, Notes, attempt
  <2>2. ASSUME backend.status = "completed"
        PROVE  /\ st'.status \notin Working /\ saved'.status \notin Working
               /\ \A q \in Ops : ~Resuming(q)'
               /\ \A s \in Steps : pc'[s][1] \notin Busy
    <3>1. st'.status \notin Working /\ saved'.status \notin Working
      BY <1>1, <1>2, <2>2 DEF Ended, Notes, attempt, Working
    <3>2. \A q \in Ops : ~Resuming(q)'
      BY <1>1, <1>3, <1>4, <2>2 DEF Ended
    <3>3. \A s \in Steps : pc'[s][1] \notin Busy
      BY <1>1, <1>3, <1>9, <2>2 DEF Ended
    <3> QED BY <3>1, <3>2, <3>3
  <2> QED BY <1>1, <1>2, <1>6, <2>1, <2>2 DEF Ended
<1>f. Finalizing'
  <2>1. pc'["finish"] = pc["finish"] /\ ~\A x \in Calls : pc[x][1] \notin Busy
    BY <1>2, <1>3
  <2>2. st.status \notin Working /\ saved.status \notin Working => st'.status \notin Working /\ saved'.status \notin Working
    BY <1>2 DEF Notes, attempt, Working
  <2> QED BY <1>1, <2>1, <2>2 DEF Finalizing, At
<1>g. Evidenced'
  <2>1. \A p : Seen(p)' <=> Seen(p)
    BY DEF Seen
  <2>2. /\ st'.evidence # None => Seen(st'.evidence)
        /\ saved'.evidence # None => Seen(saved'.evidence)
        /\ st'.runs \subseteq Verifs /\ saved'.runs \subseteq Verifs
    BY <1>1, <1>2 DEF Notes, attempt, Evidenced
  <2>3. ASSUME NEW v \in Verifs
        PROVE  /\ proof'[v] # None => Seen(proof'[v])
               /\ pc'[v][1] = "entered" => Seen(proof'[v]) /\ DOMAIN proof'[v] = {"id", "epoch", "tree", "saw", "passed"}
    <3>1. CASE v = c
      BY <2>1, <3>1 DEF RunStep
    <3>2. CASE v # c
      BY <1>1, <1>3, <3>2 DEF RunStep, Evidenced, At
    <3> QED BY <3>1, <3>2
  <2> QED BY <1>1, <1>2, <2>1, <2>2, <2>3 DEF Evidenced, At, Seen
<1>h. CompletionStands'
  <2>1. backend.status = "completed" => \A s \in Steps : Doubtful(s)' <=> Doubtful(s)
    BY <1>7, <1>9
  <2> QED BY <1>1, <1>2, <1>6, <2>1 DEF CompletionStands
<1>i. Recovered'
  <2>1. \A x \in Calls : pc'[x][1] \in Slotted => slot' = x
    BY <1>1, <1>3 DEF Recovered, RunStep
  <2>2. (\E q \in Ops : Resuming(q)') => NoneLost
    BY <1>1, <1>3, <1>4 DEF Recovered, NoneLost
  <2>3. st'.status \in Working => NoneLost
    BY <1>1, <1>2 DEF Recovered, Notes, attempt, NoneLost, Working
  <2> QED BY <1>8, <2>1, <2>2, <2>3 DEF Recovered, NoneLost
<1>j. Enters
  BY <1>3 DEF Enters, RunStep, At
<1> QED BY <1>a, <1>b, <1>c, <1>d, <1>e, <1>f, <1>g, <1>h, <1>i, <1>j DEF IInv

-----------------------------------------------------------------------------
(* What is neither: the calls of start() and shutdown(), the world.             *)
OtherStep(o) ==
  /\ o \in {"start", "shutdown"} /\ Placed(o) /\ UNCHANGED <<attempt, exec, proof, slot>>
  /\ o = "start" => pc'[o][1] \in Outside /\ (pc'[o][1] = "admission" => st.status = "absent")
  /\ DOMAIN backend' = DOMAIN backend /\ backend'.coverage = backend.coverage
  /\ backend'.status = "completed" <=> backend.status = "completed"
  /\ done' = done \/ \E s \in Steps : pc[s][1] \in Busy

LEMMA OtherKeeps ==
  ASSUME IInv, NEW o, OtherStep(o)
  PROVE  IInv' /\ Enters
<1> USE OpsAre
<1>1. /\ Shapes /\ Exclusive /\ Keyed /\ Begins /\ Remembered /\ Ended /\ Finalizing
      /\ Evidenced /\ CompletionStands /\ Recovered
  BY DEF IInv
<1>2. /\ o \in Ops /\ o \in {"start", "shutdown"} /\ Placed(o)
      /\ st' = st /\ saved' = saved /\ exec' = exec /\ proof' = proof /\ slot' = slot
      /\ DOMAIN backend' = DOMAIN backend /\ backend'.coverage = backend.coverage
      /\ backend'.status = "completed" <=> backend.status = "completed"
  BY DEF OtherStep, attempt
<1>3. \A q \in Ops : q # o => pc'[q] = pc[q] /\ (Resuming(q)' <=> Resuming(q))
  BY <1>2, Elsewhere DEF Placed
<1>4. ~Resuming(o)'
  BY <1>2 DEF OtherStep, Resuming, Outside
<1>5. \A c \in Calls \cup {"finish", "reconcile"} : pc'[c] = pc[c]
  BY <1>2, <1>3
<1>6. \A s \in Steps : (Doubtful(s)' <=> Doubtful(s)) /\ (Lost(s)' <=> Lost(s))
  BY <1>2, <1>5 DEF Doubtful, Lost
<1>a. Shapes'
  BY <1>1, <1>2 DEF Shapes, Placed
<1>b. Exclusive' /\ Keyed'
  BY <1>1, <1>2, PlacedKeeps
<1>c. Begins'
  BY <1>1, <1>2, <1>3 DEF Begins, At, OtherStep, Outside
<1>d. Remembered'
  BY <1>1, <1>2, <1>5, <1>6 DEF Remembered, At
<1>e. Ended'
  BY <1>1, <1>2, <1>3, <1>4, <1>5 DEF Ended
<1>f. Finalizing'
  BY <1>1, <1>2, <1>5 DEF Finalizing, At
<1>g. Evidenced'
  BY <1>1, <1>2, <1>5 DEF Evidenced, Seen, At
<1>h. CompletionStands'
  <2>1. backend.status = "completed" => done' = done
    BY <1>1 DEF Ended, OtherStep
  <2> QED BY <1>1, <1>2, <1>6, <2>1 DEF CompletionStands
<1>i. Recovered'
  BY <1>1, <1>2, <1>3, <1>4, <1>5, <1>6 DEF Recovered
<1>j. Enters
  BY <1>5 DEF Enters, At
<1> QED BY <1>a, <1>b, <1>c, <1>d, <1>e, <1>f, <1>g, <1>h, <1>i, <1>j DEF IInv


LEMMA CallPlaced ==
  ASSUME Shapes, NEW c \in Calls, NEW to, Goto(c, to),
         to[1] \notin {"checked", "dispatch", "answered", "failed", "readback"},
         admissions' \in Next1(admissions, c), lifecycle' \in Next1(lifecycle, c)
  PROVE  Placed(c) /\ pc'[c] = to
<1> USE OpsAre
<1>1. pc'[c] = to
  BY Gone
<1>2. ~InAdmissions(c)' /\ ~InLifecycle(c)' /\ KeyedAt(c)'
  BY <1>1 DEF InAdmissions, InLifecycle, KeyedAt, At
<1> QED BY <1>1, <1>2, PlacedIs

LEMMA LaunchStep ==
  ASSUME IInv, NEW c \in Calls, Launch(c)
  PROVE  RunStep(c)
<1> USE OpsAre
<1>1. Shapes /\ Evidenced /\ Remembered /\ Recovered /\ Ended /\ Keyed
  BY DEF IInv
<1>2. /\ UNCHANGED <<backend, done>> /\ pc[c][1] \in Busy
      /\ admissions' \in Next1(admissions, c) /\ lifecycle' \in Next1(lifecycle, c)
  BY DEF Launch, world, mutexes, calls, Next1, Busy, At, Return
<1>3. Goto(c, <<"queued">>)
  BY DEF Launch
<1>4. Placed(c) /\ pc'[c] = <<"queued">>
  BY <1>1, <1>2, <1>3, CallPlaced DEF Over
<1>5. UNCHANGED attempt \/ Notes
  BY <1>1 DEF Launch, Notes, Persist, Shapes, Fields, Evidenced, attempt
<1>6. /\ DOMAIN exec' = Calls /\ \A x \in Calls \ {c} : exec'[x] = exec[x]
      /\ DOMAIN proof' = Verifs /\ \A w \in Verifs \ {c} : proof'[w] = proof[w]
  BY <1>1 DEF Launch, Shapes, calls
<1>7. /\ c \in Verifs =>
           /\ proof'[c] # None => Seen(proof'[c])
           /\ pc'[c][1] = "entered" => Seen(proof'[c]) /\ DOMAIN proof'[c] = {"id", "epoch", "tree", "saw", "passed"}
  BY <1>1, <1>4 DEF Launch, Shapes, calls, Evidenced, Over, At, Seen, Tree
<1>8. /\ c \in Steps /\ pc'[c][1] = "published" => c \in st'.unknown
      /\ pc'[c][1] \in Slotted => slot' = c
      /\ \A x \in Calls \ {c} : slot = x => slot' = x
  BY <1>1, <1>4 DEF Launch, Shapes, calls, Fields, Persist, Over, At, Recovered, Slotted, Freed
<1>9. c \in Steps /\ Lost(c)' => Lost(c)
  BY <1>1, <1>4 DEF Launch, Shapes, Fields, calls, attempt, At, Slotted, Doubtful, Lost, Persist
<1>10. pc'[c][1] # "checked" /\ (pc[c][1] = "slotted" /\ pc'[c][1] = "entered" => Accepted(c))
  BY <1>4 DEF Launch, At, Over
<1> QED BY <1>2, <1>4, <1>5, <1>6, <1>7, <1>8, <1>9, <1>10 DEF RunStep

LEMMA TakeSlotStep ==
  ASSUME IInv, NEW c \in Calls, TakeSlot(c)
  PROVE  RunStep(c)
<1> USE OpsAre
<1>1. Shapes /\ Evidenced /\ Remembered /\ Recovered /\ Ended /\ Keyed
  BY DEF IInv
<1>2. /\ UNCHANGED <<backend, done>> /\ pc[c][1] \in Busy
      /\ admissions' \in Next1(admissions, c) /\ lifecycle' \in Next1(lifecycle, c)
  BY DEF TakeSlot, world, mutexes, calls, Next1, Busy, At, Return
<1>3. Goto(c, <<"slotted">>)
  BY DEF TakeSlot
<1>4. Placed(c) /\ pc'[c] = <<"slotted">>
  BY <1>1, <1>2, <1>3, CallPlaced DEF Over
<1>5. UNCHANGED attempt \/ Notes
  BY <1>1 DEF TakeSlot, Notes, Persist, Shapes, Fields, Evidenced, attempt
<1>6. /\ DOMAIN exec' = Calls /\ \A x \in Calls \ {c} : exec'[x] = exec[x]
      /\ DOMAIN proof' = Verifs /\ \A w \in Verifs \ {c} : proof'[w] = proof[w]
  BY <1>1 DEF TakeSlot, Shapes, calls
<1>7. /\ c \in Verifs =>
           /\ proof'[c] # None => Seen(proof'[c])
           /\ pc'[c][1] = "entered" => Seen(proof'[c]) /\ DOMAIN proof'[c] = {"id", "epoch", "tree", "saw", "passed"}
  BY <1>1, <1>4 DEF TakeSlot, Shapes, calls, Evidenced, Over, At, Seen, Tree
<1>8. /\ c \in Steps /\ pc'[c][1] = "published" => c \in st'.unknown
      /\ pc'[c][1] \in Slotted => slot' = c
      /\ \A x \in Calls \ {c} : slot = x => slot' = x
  BY <1>1, <1>4 DEF TakeSlot, Shapes, calls, Fields, Persist, Over, At, Recovered, Slotted, Freed
<1>9. c \in Steps /\ Lost(c)' => Lost(c)
  BY <1>1, <1>4 DEF TakeSlot, Shapes, Fields, calls, attempt, At, Slotted, Doubtful, Lost, Persist
<1>10. pc'[c][1] # "checked" /\ (pc[c][1] = "slotted" /\ pc'[c][1] = "entered" => Accepted(c))
  BY <1>4 DEF TakeSlot, At, Over
<1> QED BY <1>2, <1>4, <1>5, <1>6, <1>7, <1>8, <1>9, <1>10 DEF RunStep

LEMMA DeniedStep ==
  ASSUME IInv, NEW c \in Calls, Denied(c)
  PROVE  RunStep(c)
<1> USE OpsAre
<1>1. Shapes /\ Evidenced /\ Remembered /\ Recovered /\ Ended /\ Keyed
  BY DEF IInv
<1>2. /\ UNCHANGED <<backend, done>> /\ pc[c][1] \in Busy
      /\ admissions' \in Next1(admissions, c) /\ lifecycle' \in Next1(lifecycle, c)
  BY DEF Denied, world, mutexes, calls, Next1, Busy, At, Return
<1>3. CASE c \in Steps
  <2>1. Goto(c, <<"settle">>)
    BY <1>3 DEF Denied
  <2>2. Placed(c) /\ pc'[c] = <<"settle">>
    BY <1>1, <1>2, <2>1, CallPlaced DEF Over
  <2>3. UNCHANGED attempt \/ Notes
    BY <1>3, <1>1 DEF Denied, Notes, Persist, Shapes, Fields, Evidenced, attempt
  <2>4. /\ DOMAIN exec' = Calls /\ \A x \in Calls \ {c} : exec'[x] = exec[x]
        /\ DOMAIN proof' = Verifs /\ \A w \in Verifs \ {c} : proof'[w] = proof[w]
    BY <1>3, <1>1 DEF Denied, Shapes, calls
  <2>5. /\ c \in Verifs =>
             /\ proof'[c] # None => Seen(proof'[c])
             /\ pc'[c][1] = "entered" => Seen(proof'[c]) /\ DOMAIN proof'[c] = {"id", "epoch", "tree", "saw", "passed"}
    BY <1>3, <1>1, <2>2 DEF Denied, Shapes, calls, Evidenced, Over, At, Seen, Tree
  <2>6. /\ c \in Steps /\ pc'[c][1] = "published" => c \in st'.unknown
        /\ pc'[c][1] \in Slotted => slot' = c
        /\ \A x \in Calls \ {c} : slot = x => slot' = x
    BY <1>3, <1>1, <2>2 DEF Denied, Shapes, calls, Fields, Persist, Over, At, Recovered, Slotted, Freed
  <2>7. c \in Steps /\ Lost(c)' => Lost(c)
    BY <1>3, <1>1, <2>2 DEF Denied, Shapes, Fields, calls, attempt, At, Slotted, Doubtful, Lost, Persist
  <2>8. pc'[c][1] # "checked" /\ (pc[c][1] = "slotted" /\ pc'[c][1] = "entered" => Accepted(c))
    BY <1>3, <2>2 DEF Denied, At, Over
  <2> QED BY <1>2, <2>2, <2>3, <2>4, <2>5, <2>6, <2>7, <2>8 DEF RunStep
<1>4. CASE c \notin Steps
  <2>1. Goto(c, Over)
    BY <1>4 DEF Denied
  <2>2. Placed(c) /\ pc'[c] = Over
    BY <1>1, <1>2, <2>1, CallPlaced DEF Over
  <2>3. UNCHANGED attempt \/ Notes
    <3> DEFINE s == [st EXCEPT !.runs = @ \ {c}]
    <3>1. st' = s /\ saved' \in {saved, s}
      BY <1>4 DEF Denied, Persist
    <3>2. /\ DOMAIN s = Fields /\ s.status = st.status /\ s.inflight = st.inflight /\ s.unknown = st.unknown
          /\ s.resolved = st.resolved /\ s.evidence = st.evidence /\ s.runs \subseteq Verifs
      BY <1>1 DEF Shapes, Fields, Evidenced
    <3> HIDE DEF s
    <3> QED BY <3>1, <3>2 DEF Notes
  <2>4. /\ DOMAIN exec' = Calls /\ \A x \in Calls \ {c} : exec'[x] = exec[x]
        /\ DOMAIN proof' = Verifs /\ \A w \in Verifs \ {c} : proof'[w] = proof[w]
    BY <1>4, <1>1 DEF Denied, Shapes, calls
  <2>5. /\ c \in Verifs =>
             /\ proof'[c] # None => Seen(proof'[c])
             /\ pc'[c][1] = "entered" => Seen(proof'[c]) /\ DOMAIN proof'[c] = {"id", "epoch", "tree", "saw", "passed"}
    BY <1>4, <1>1, <2>2 DEF Denied, Shapes, calls, Evidenced, Over, At, Seen, Tree
  <2>6. /\ c \in Steps /\ pc'[c][1] = "published" => c \in st'.unknown
        /\ pc'[c][1] \in Slotted => slot' = c
        /\ \A x \in Calls \ {c} : slot = x => slot' = x
    BY <1>4, <1>1, <2>2 DEF Denied, Shapes, calls, Fields, Persist, Over, At, Recovered, Slotted, Freed
  <2>7. c \in Steps /\ Lost(c)' => Lost(c)
    BY <1>4, <1>1, <2>2 DEF Denied, Shapes, Fields, calls, attempt, At, Slotted, Doubtful, Lost, Persist
  <2>8. pc'[c][1] # "checked" /\ (pc[c][1] = "slotted" /\ pc'[c][1] = "entered" => Accepted(c))
    BY <1>4, <2>2 DEF Denied, At, Over
  <2> QED BY <1>2, <2>2, <2>3, <2>4, <2>5, <2>6, <2>7, <2>8 DEF RunStep
<1> QED BY <1>3, <1>4 DEF Denied

LEMMA EnterStep ==
  ASSUME IInv, NEW c \in Calls, Enter(c)
  PROVE  RunStep(c)
<1> USE OpsAre
<1>1. Shapes /\ Evidenced /\ Remembered /\ Recovered /\ Ended /\ Keyed
  BY DEF IInv
<1>2. /\ UNCHANGED <<backend, done>> /\ pc[c][1] \in Busy
      /\ admissions' \in Next1(admissions, c) /\ lifecycle' \in Next1(lifecycle, c)
  BY DEF Enter, world, mutexes, calls, Next1, Busy, At, Return
<1>3. Goto(c, <<"entered">>)
  BY DEF Enter
<1>4. Placed(c) /\ pc'[c] = <<"entered">>
  BY <1>1, <1>2, <1>3, CallPlaced DEF Over
<1>5. UNCHANGED attempt \/ Notes
  BY <1>1 DEF Enter, Notes, Persist, Shapes, Fields, Evidenced, attempt
<1>6. /\ DOMAIN exec' = Calls /\ \A x \in Calls \ {c} : exec'[x] = exec[x]
      /\ DOMAIN proof' = Verifs /\ \A w \in Verifs \ {c} : proof'[w] = proof[w]
  BY <1>1 DEF Enter, Shapes, calls
<1>7. /\ c \in Verifs =>
           /\ proof'[c] # None => Seen(proof'[c])
           /\ pc'[c][1] = "entered" => Seen(proof'[c]) /\ DOMAIN proof'[c] = {"id", "epoch", "tree", "saw", "passed"}
  BY <1>1, <1>4 DEF Enter, Shapes, calls, Evidenced, Over, At, Seen, Tree
<1>8. /\ c \in Steps /\ pc'[c][1] = "published" => c \in st'.unknown
      /\ pc'[c][1] \in Slotted => slot' = c
      /\ \A x \in Calls \ {c} : slot = x => slot' = x
  BY <1>1, <1>4 DEF Enter, Shapes, calls, Fields, Persist, Over, At, Recovered, Slotted, Freed
<1>9. c \in Steps /\ Lost(c)' => Lost(c)
  BY <1>1, <1>4 DEF Enter, Shapes, Fields, calls, attempt, At, Slotted, Doubtful, Lost, Persist
<1>10. pc'[c][1] # "checked" /\ (pc[c][1] = "slotted" /\ pc'[c][1] = "entered" => Accepted(c))
  BY <1>4 DEF Enter, At, Over
<1> QED BY <1>2, <1>4, <1>5, <1>6, <1>7, <1>8, <1>9, <1>10 DEF RunStep

LEMMA SettleCallStep ==
  ASSUME IInv, NEW c \in Calls, Settle(c)
  PROVE  RunStep(c)
<1> USE OpsAre
<1>1. Shapes /\ Evidenced /\ Remembered /\ Recovered /\ Ended /\ Keyed
  BY DEF IInv
<1>2. /\ UNCHANGED <<backend, done>> /\ pc[c][1] \in Busy
      /\ admissions' \in Next1(admissions, c) /\ lifecycle' \in Next1(lifecycle, c)
  BY DEF Settle, world, mutexes, calls, Next1, Busy, At, Return
<1>3. CASE c \in Steps
  <2>1. Goto(c, <<"settle">>)
    BY <1>3 DEF Settle
  <2>2. Placed(c) /\ pc'[c] = <<"settle">>
    BY <1>1, <1>2, <2>1, CallPlaced DEF Over
  <2>3. UNCHANGED attempt \/ Notes
    BY <1>3, <1>1 DEF Settle, Notes, Persist, Shapes, Fields, Evidenced, attempt
  <2>4. /\ DOMAIN exec' = Calls /\ \A x \in Calls \ {c} : exec'[x] = exec[x]
        /\ DOMAIN proof' = Verifs /\ \A w \in Verifs \ {c} : proof'[w] = proof[w]
    BY <1>3, <1>1 DEF Settle, Shapes, calls
  <2>5. /\ c \in Verifs =>
             /\ proof'[c] # None => Seen(proof'[c])
             /\ pc'[c][1] = "entered" => Seen(proof'[c]) /\ DOMAIN proof'[c] = {"id", "epoch", "tree", "saw", "passed"}
    BY <1>3, <1>1, <2>2 DEF Settle, Shapes, calls, Evidenced, Over, At, Seen, Tree
  <2>6. /\ c \in Steps /\ pc'[c][1] = "published" => c \in st'.unknown
        /\ pc'[c][1] \in Slotted => slot' = c
        /\ \A x \in Calls \ {c} : slot = x => slot' = x
    BY <1>3, <1>1, <2>2 DEF Settle, Shapes, calls, Fields, Persist, Over, At, Recovered, Slotted, Freed
  <2>7. c \in Steps /\ Lost(c)' => Lost(c)
    BY <1>3, <1>1, <2>2 DEF Settle, Shapes, Fields, calls, attempt, At, Slotted, Doubtful, Lost, Persist
  <2>8. pc'[c][1] # "checked" /\ (pc[c][1] = "slotted" /\ pc'[c][1] = "entered" => Accepted(c))
    BY <1>3, <2>2 DEF Settle, At, Over
  <2> QED BY <1>2, <2>2, <2>3, <2>4, <2>5, <2>6, <2>7, <2>8 DEF RunStep
<1>4. CASE c \notin Steps
  <2>1. Goto(c, <<"store">>)
    BY <1>4 DEF Settle
  <2>2. Placed(c) /\ pc'[c] = <<"store">>
    BY <1>1, <1>2, <2>1, CallPlaced DEF Over
  <2>3. UNCHANGED attempt \/ Notes
    BY <1>4, <1>1 DEF Settle, Notes, Persist, Shapes, Fields, Evidenced, attempt
  <2>4. /\ DOMAIN exec' = Calls /\ \A x \in Calls \ {c} : exec'[x] = exec[x]
        /\ DOMAIN proof' = Verifs /\ \A w \in Verifs \ {c} : proof'[w] = proof[w]
    BY <1>4, <1>1 DEF Settle, Shapes, calls
  <2>5. /\ c \in Verifs =>
             /\ proof'[c] # None => Seen(proof'[c])
             /\ pc'[c][1] = "entered" => Seen(proof'[c]) /\ DOMAIN proof'[c] = {"id", "epoch", "tree", "saw", "passed"}
    BY <1>4, <1>1, <2>2 DEF Settle, Shapes, calls, Evidenced, Over, At, Seen, Tree
  <2>6. /\ c \in Steps /\ pc'[c][1] = "published" => c \in st'.unknown
        /\ pc'[c][1] \in Slotted => slot' = c
        /\ \A x \in Calls \ {c} : slot = x => slot' = x
    BY <1>4, <1>1, <2>2 DEF Settle, Shapes, calls, Fields, Persist, Over, At, Recovered, Slotted, Freed
  <2>7. c \in Steps /\ Lost(c)' => Lost(c)
    BY <1>4, <1>1, <2>2 DEF Settle, Shapes, Fields, calls, attempt, At, Slotted, Doubtful, Lost, Persist
  <2>8. pc'[c][1] # "checked" /\ (pc[c][1] = "slotted" /\ pc'[c][1] = "entered" => Accepted(c))
    BY <1>4, <2>2 DEF Settle, At, Over
  <2> QED BY <1>2, <2>2, <2>3, <2>4, <2>5, <2>6, <2>7, <2>8 DEF RunStep
<1> QED BY <1>3, <1>4 DEF Settle

LEMMA UncertainStepStep ==
  ASSUME IInv, NEW c \in Steps, UncertainStep(c)
  PROVE  RunStep(c)
<1> USE OpsAre
<1>1. Shapes /\ Evidenced /\ Remembered /\ Recovered /\ Ended /\ Keyed
  BY DEF IInv
<1>2. /\ UNCHANGED <<backend, done>> /\ pc[c][1] \in Busy
      /\ admissions' \in Next1(admissions, c) /\ lifecycle' \in Next1(lifecycle, c)
  BY DEF UncertainStep, world, mutexes, calls, Next1, Busy, At, Return
<1>3. Goto(c, <<"uncertain">>)
  BY DEF UncertainStep
<1>4. Placed(c) /\ pc'[c] = <<"uncertain">>
  BY <1>1, <1>2, <1>3, CallPlaced DEF Over
<1>5. UNCHANGED attempt \/ Notes
  BY <1>1 DEF UncertainStep, Notes, Persist, Shapes, Fields, Evidenced, attempt
<1>6. /\ DOMAIN exec' = Calls /\ \A x \in Calls \ {c} : exec'[x] = exec[x]
      /\ DOMAIN proof' = Verifs /\ \A w \in Verifs \ {c} : proof'[w] = proof[w]
  BY <1>1 DEF UncertainStep, Shapes, calls
<1>7. /\ c \in Verifs =>
           /\ proof'[c] # None => Seen(proof'[c])
           /\ pc'[c][1] = "entered" => Seen(proof'[c]) /\ DOMAIN proof'[c] = {"id", "epoch", "tree", "saw", "passed"}
  BY <1>1, <1>4 DEF UncertainStep, Shapes, calls, Evidenced, Over, At, Seen, Tree
<1>8. /\ c \in Steps /\ pc'[c][1] = "published" => c \in st'.unknown
      /\ pc'[c][1] \in Slotted => slot' = c
      /\ \A x \in Calls \ {c} : slot = x => slot' = x
  BY <1>1, <1>4 DEF UncertainStep, Shapes, calls, Fields, Persist, Over, At, Recovered, Slotted, Freed
<1>9. c \in Steps /\ Lost(c)' => Lost(c)
  BY <1>1, <1>4 DEF UncertainStep, Shapes, Fields, calls, attempt, At, Slotted, Doubtful, Lost, Persist
<1>10. pc'[c][1] # "checked" /\ (pc[c][1] = "slotted" /\ pc'[c][1] = "entered" => Accepted(c))
  BY <1>4 DEF UncertainStep, At, Over
<1> QED BY <1>2, <1>4, <1>5, <1>6, <1>7, <1>8, <1>9, <1>10 DEF RunStep

LEMMA UncertainRunStep ==
  ASSUME IInv, NEW c \in Verifs, UncertainRun(c)
  PROVE  RunStep(c)
<1> USE OpsAre
<1>1. Shapes /\ Evidenced /\ Remembered /\ Recovered /\ Ended /\ Keyed
  BY DEF IInv
<1>2. /\ UNCHANGED <<backend, done>> /\ pc[c][1] \in Busy
      /\ admissions' \in Next1(admissions, c) /\ lifecycle' \in Next1(lifecycle, c)
  BY DEF UncertainRun, world, mutexes, calls, Next1, Busy, At, Return
<1>3. Goto(c, <<"doubt">>)
  BY DEF UncertainRun
<1>4. Placed(c) /\ pc'[c] = <<"doubt">>
  BY <1>1, <1>2, <1>3, CallPlaced DEF Over
<1>5. UNCHANGED attempt \/ Notes
  BY <1>1 DEF UncertainRun, Notes, Persist, Shapes, Fields, Evidenced, attempt
<1>6. /\ DOMAIN exec' = Calls /\ \A x \in Calls \ {c} : exec'[x] = exec[x]
      /\ DOMAIN proof' = Verifs /\ \A w \in Verifs \ {c} : proof'[w] = proof[w]
  BY <1>1 DEF UncertainRun, Shapes, calls
<1>7. /\ c \in Verifs =>
           /\ proof'[c] # None => Seen(proof'[c])
           /\ pc'[c][1] = "entered" => Seen(proof'[c]) /\ DOMAIN proof'[c] = {"id", "epoch", "tree", "saw", "passed"}
  BY <1>1, <1>4 DEF UncertainRun, Shapes, calls, Evidenced, Over, At, Seen, Tree
<1>8. /\ c \in Steps /\ pc'[c][1] = "published" => c \in st'.unknown
      /\ pc'[c][1] \in Slotted => slot' = c
      /\ \A x \in Calls \ {c} : slot = x => slot' = x
  BY <1>1, <1>4 DEF UncertainRun, Shapes, calls, Fields, Persist, Over, At, Recovered, Slotted, Freed
<1>9. c \in Steps /\ Lost(c)' => Lost(c)
  BY <1>1, <1>4 DEF UncertainRun, Shapes, Fields, calls, attempt, At, Slotted, Doubtful, Lost, Persist
<1>10. pc'[c][1] # "checked" /\ (pc[c][1] = "slotted" /\ pc'[c][1] = "entered" => Accepted(c))
  BY <1>4 DEF UncertainRun, At, Over
<1> QED BY <1>2, <1>4, <1>5, <1>6, <1>7, <1>8, <1>9, <1>10 DEF RunStep

LEMMA PublishStep ==
  ASSUME IInv, NEW c \in Steps, Publish(c)
  PROVE  RunStep(c)
<1> USE OpsAre
<1>1. Shapes /\ Evidenced /\ Remembered /\ Recovered /\ Ended /\ Keyed
  BY DEF IInv
<1>2. /\ UNCHANGED <<backend, done>> /\ pc[c][1] \in Busy
      /\ admissions' \in Next1(admissions, c) /\ lifecycle' \in Next1(lifecycle, c)
  BY DEF Publish, world, mutexes, calls, Next1, Busy, At, Return
<1>3. Goto(c, <<"published">>)
  BY DEF Publish
<1>4. Placed(c) /\ pc'[c] = <<"published">>
  BY <1>1, <1>2, <1>3, CallPlaced DEF Over
<1>5. UNCHANGED attempt \/ Notes
  BY <1>1 DEF Publish, Notes, Persist, Shapes, Fields, Evidenced, attempt
<1>6. /\ DOMAIN exec' = Calls /\ \A x \in Calls \ {c} : exec'[x] = exec[x]
      /\ DOMAIN proof' = Verifs /\ \A w \in Verifs \ {c} : proof'[w] = proof[w]
  BY <1>1 DEF Publish, Shapes, calls
<1>7. /\ c \in Verifs =>
           /\ proof'[c] # None => Seen(proof'[c])
           /\ pc'[c][1] = "entered" => Seen(proof'[c]) /\ DOMAIN proof'[c] = {"id", "epoch", "tree", "saw", "passed"}
  BY <1>1, <1>4 DEF Publish, Shapes, calls, Evidenced, Over, At, Seen, Tree
<1>8. /\ c \in Steps /\ pc'[c][1] = "published" => c \in st'.unknown
      /\ pc'[c][1] \in Slotted => slot' = c
      /\ \A x \in Calls \ {c} : slot = x => slot' = x
  BY <1>1, <1>4 DEF Publish, Shapes, calls, Fields, Persist, Over, At, Recovered, Slotted, Freed
<1>9. c \in Steps /\ Lost(c)' => Lost(c)
  BY <1>1, <1>4 DEF Publish, Shapes, Fields, calls, attempt, At, Slotted, Doubtful, Lost, Persist
<1>10. pc'[c][1] # "checked" /\ (pc[c][1] = "slotted" /\ pc'[c][1] = "entered" => Accepted(c))
  BY <1>4 DEF Publish, At, Over
<1> QED BY <1>2, <1>4, <1>5, <1>6, <1>7, <1>8, <1>9, <1>10 DEF RunStep

LEMMA PublishedStep ==
  ASSUME IInv, NEW c \in Steps, Published(c)
  PROVE  RunStep(c)
<1> USE OpsAre
<1>1. Shapes /\ Evidenced /\ Remembered /\ Recovered /\ Ended /\ Keyed
  BY DEF IInv
<1>2. /\ UNCHANGED <<backend, done>> /\ pc[c][1] \in Busy
      /\ admissions' \in Next1(admissions, c) /\ lifecycle' \in Next1(lifecycle, c)
  BY DEF Published, world, mutexes, calls, Next1, Busy, At, Return
<1>3. Goto(c, <<"settle">>)
  BY DEF Published
<1>4. Placed(c) /\ pc'[c] = <<"settle">>
  BY <1>1, <1>2, <1>3, CallPlaced DEF Over
<1>5. UNCHANGED attempt \/ Notes
  BY <1>1 DEF Published, Notes, Persist, Shapes, Fields, Evidenced, attempt
<1>6. /\ DOMAIN exec' = Calls /\ \A x \in Calls \ {c} : exec'[x] = exec[x]
      /\ DOMAIN proof' = Verifs /\ \A w \in Verifs \ {c} : proof'[w] = proof[w]
  BY <1>1 DEF Published, Shapes, calls
<1>7. /\ c \in Verifs =>
           /\ proof'[c] # None => Seen(proof'[c])
           /\ pc'[c][1] = "entered" => Seen(proof'[c]) /\ DOMAIN proof'[c] = {"id", "epoch", "tree", "saw", "passed"}
  BY <1>1, <1>4 DEF Published, Shapes, calls, Evidenced, Over, At, Seen, Tree
<1>8. /\ c \in Steps /\ pc'[c][1] = "published" => c \in st'.unknown
      /\ pc'[c][1] \in Slotted => slot' = c
      /\ \A x \in Calls \ {c} : slot = x => slot' = x
  BY <1>1, <1>4 DEF Published, Shapes, calls, Fields, Persist, Over, At, Recovered, Slotted, Freed
<1>9. c \in Steps /\ Lost(c)' => Lost(c)
  BY <1>1 DEF Published, Remembered, attempt, Lost
<1>10. pc'[c][1] # "checked" /\ (pc[c][1] = "slotted" /\ pc'[c][1] = "entered" => Accepted(c))
  BY <1>4 DEF Published, At, Over
<1> QED BY <1>2, <1>4, <1>5, <1>6, <1>7, <1>8, <1>9, <1>10 DEF RunStep

-----------------------------------------------------------------------------
(* The calls of start() and shutdown(), and the world.                         *)
LEMMA NobodyPlaced ==
  ASSUME Shapes, Exclusive, Keyed, pc' = pc, UNCHANGED mutexes
  PROVE  Placed("shutdown")
<1> USE OpsAre
<1>1. ~InAdmissions("shutdown") /\ ~InLifecycle("shutdown")
  BY DEF InAdmissions, InLifecycle
<1> QED BY <1>1 DEF Placed, Shapes, mutexes, Keyed, KeyedAt, InAdmissions, InLifecycle, At, Holds

LEMMA EnvironmentStep ==
  ASSUME IInv, Environment \/ UNCHANGED vars \/ \E s \in Steps : Effect(s)
  PROVE  OtherStep("shutdown")
<1>1. Shapes /\ Exclusive /\ Keyed
  BY DEF IInv
<1>2. Placed("shutdown") /\ UNCHANGED <<attempt, exec, proof, slot>>
  <2>1. pc' = pc /\ UNCHANGED <<mutexes, attempt, calls>>
    BY DEF Environment, Expire, Foreign, Revoke, Edit, vars, Effect
  <2> QED BY <1>1, <2>1, NobodyPlaced DEF calls
<1>3. /\ DOMAIN backend' = DOMAIN backend /\ backend'.coverage = backend.coverage
      /\ backend'.status = "completed" <=> backend.status = "completed"
  <2>1. CASE Expire
    BY <1>1, <2>1 DEF Expire, Shapes
  <2>2. CASE Foreign
    BY <1>1, <2>2 DEF Foreign, Shapes
  <2>3. CASE Revoke \/ Edit \/ UNCHANGED vars \/ \E s \in Steps : Effect(s)
    BY <2>3 DEF Revoke, Edit, vars, Effect, world
  <2> QED BY <2>1, <2>2, <2>3 DEF Environment
<1>4. done' = done \/ \E s \in Steps : pc[s][1] \in Busy
  <2>1. ASSUME NEW s \in Steps, Effect(s) PROVE pc[s][1] \in Busy
    BY <2>1 DEF Effect, At, Busy
  <2> QED BY <2>1 DEF Environment, Expire, Foreign, Revoke, Edit, vars, world
<1> QED BY <1>2, <1>3, <1>4 DEF OtherStep

LEMMA ShutdownStep ==
  ASSUME IInv, CallShutdown \/ ShutdownGoes
  PROVE  OtherStep("shutdown")
<1> USE OpsAre
<1> DEFINE o == "shutdown"
<1>1. Shapes
  BY DEF IInv
<1>2. PICK to \in {<<"drain", Inflight>>, <<"admission">>, <<"admitted">>, <<"lifecycle">>, Stopped} :
        Goto(o, to)
  BY DEF CallShutdown, ShutdownGoes, DrainCalls, DrainAdmissions, AwaitLifecycle, GiveUp
<1>3. /\ admissions' \in Next1(admissions, o) /\ lifecycle' \in Next1(lifecycle, o)
      /\ UNCHANGED <<attempt, exec, proof, slot, backend, done>>
  BY DEF CallShutdown, ShutdownGoes, DrainCalls, DrainAdmissions, AwaitLifecycle, GiveUp, calls, world, mutexes, Next1
<1>4. pc'[o] = to
  BY <1>1, <1>2, Gone
<1>5. ~InAdmissions(o)' /\ ~InLifecycle(o)' /\ KeyedAt(o)'
  BY <1>4 DEF InAdmissions, InLifecycle, KeyedAt, Stopped
<1>6. Placed(o)
  BY <1>1, <1>2, <1>3, <1>5, PlacedIs
<1> QED BY <1>3, <1>6 DEF OtherStep

(* start() waits for admission, or is turned away there.                       *)
LEMMA CallStartStep ==
  ASSUME IInv, CallStart
  PROVE  OtherStep("start")
<1> USE OpsAre
<1>1. Shapes
  BY DEF IInv
<1>2. /\ Goto("start", <<"admission">>) /\ admissions' \in Next1(admissions, "start")
      /\ lifecycle' \in Next1(lifecycle, "start") /\ UNCHANGED <<attempt, exec, proof, slot, backend, done>>
      /\ st.status = "absent"
  BY DEF CallStart, Next1, calls, world, Absent, Prepared
<1>3. pc'["start"] = <<"admission">>
  BY <1>1, <1>2, Gone
<1>4. ~InAdmissions("start")' /\ ~InLifecycle("start")' /\ KeyedAt("start")'
  BY <1>3 DEF InAdmissions, InLifecycle, KeyedAt, Outside
<1>5. Placed("start")
  BY <1>1, <1>2, <1>4, PlacedIs
<1> QED BY <1>2, <1>3, <1>5 DEF OtherStep, Outside

LEMMA TurnedAwayStep ==
  ASSUME IInv, At("start", "admission"), Throw("start"), UNCHANGED <<world, calls, env>>
  PROVE  OtherStep("start")
<1> USE OpsAre
<1>1. Shapes
  BY DEF IInv
<1>2. /\ Goto("start", Idle) /\ admissions' \in Next1(admissions, "start")
      /\ lifecycle' \in Next1(lifecycle, "start") /\ UNCHANGED <<attempt, exec, proof, slot, backend, done>>
  BY DEF Throw, Return, Next1, calls, world
<1>3. pc'["start"] = <<"idle">>
  BY <1>1, <1>2, Gone DEF Idle
<1>4. ~InAdmissions("start")' /\ ~InLifecycle("start")' /\ KeyedAt("start")'
  BY <1>3, AwayIs
<1>5. Placed("start")
  BY <1>1, <1>2, <1>4, PlacedIs
<1> QED BY <1>2, <1>3, <1>5 DEF OtherStep, Outside


-----------------------------------------------------------------------------
(* The operations at the backend: only finish() completes the item, on evidence *)
(* that is current where it dispatches.                                       *)
LEMMA DispatchKeeps ==
  ASSUME IInv, NEW o \in Verifs \cup {"start", "renew", "finish", "reconcile"}, Dispatch(o)
  PROVE  IInv' /\ Enters
<1> USE OpsAre
<1> DEFINE key == pc[o][2]
<1>1. /\ Shapes /\ Exclusive /\ Keyed /\ Begins /\ Remembered /\ Ended /\ Finalizing
      /\ Evidenced /\ CompletionStands /\ Recovered
  BY DEF IInv
<1>2. /\ pc[o][1] = "dispatch" /\ st' = st /\ saved' = saved /\ exec' = exec /\ proof' = proof /\ slot' = slot
      /\ done' = done /\ admissions' = admissions /\ lifecycle' = lifecycle
  BY DEF Dispatch, At, attempt, calls, mutexes
<1>3. \/ backend' = backend
      \/ Fence(key) /\ Legal(backend, key[1]) /\ backend' = After(backend, key, EvidenceOf(key))
  BY DEF Dispatch, Taken
<1>4. PICK to \in {<<"answered", key>>, <<"failed", key>>} : Goto(o, to)
  BY DEF Dispatch
<1>5. o \in Ops /\ pc'[o] = to /\ \A q \in Ops : q # o => pc'[q] = pc[q]
  BY <1>1, <1>4, Gone
<1>6. /\ Holds(lifecycle, o) /\ key[1] \in Kinds(o) /\ (key[1] = "evidence" => key[2] \in Verifs)
      /\ o \in {"start", "finish", "reconcile"} => Holds(admissions, o)
  BY <1>1, <1>2 DEF Exclusive, InAdmissions, InLifecycle, Keyed, KeyedAt, Outside
<1>7. Placed(o)
  <2>1. (InAdmissions(o)' => InAdmissions(o)) /\ (InLifecycle(o)' => Holds(lifecycle, o))
    BY <1>2, <1>5, <1>6 DEF InAdmissions, InLifecycle, At, Outside
  <2>2. KeyedAt(o)'
    BY <1>5, <1>6 DEF KeyedAt, At
  <2>3. (InAdmissions(o)' => Holds(admissions', o)) /\ (InLifecycle(o)' => Holds(lifecycle', o))
    BY <1>1, <1>2, <2>1 DEF Exclusive, Holds
  <2> QED BY <1>1, <1>2, <1>4, <2>2, <2>3, PlacedIs DEF Next1
<1>8. \A q \in Ops : Resuming(q)' => Resuming(q)
  <2>1. Resuming(o)' => Resuming(o)
    BY <1>2, <1>5 DEF Resuming, At, Outside
  <2> QED BY <1>5, <2>1, Elsewhere
<1>9. /\ DOMAIN backend' = DOMAIN backend
      /\ backend'.coverage # None => Seen(backend'.coverage)
      /\ key[1] # "evidence" => backend'.coverage = backend.coverage
  <2>1. CASE backend' = backend
    BY <1>1, <2>1 DEF Evidenced
  <2>2. CASE backend' = After(backend, key, EvidenceOf(key))
    BY <1>1, <1>6, <2>2 DEF After, EvidenceOf, Shapes, Evidenced
  <2> QED BY <1>3, <2>1, <2>2
<1>10. backend.status = "completed" => backend' = backend
  BY <1>3, <1>6 DEF Legal, Claimable, Kinds
<1>11. backend'.status = "completed" /\ backend.status # "completed" =>
        /\ o = "finish" /\ key[1] = "complete" /\ backend.coverage.passed /\ st.evidence.tree = Tree
        /\ backend'.coverage = backend.coverage /\ backend.coverage # None
  <2> SUFFICES ASSUME backend'.status = "completed", backend.status # "completed"
               PROVE  /\ o = "finish" /\ key[1] = "complete" /\ backend.coverage.passed /\ st.evidence.tree = Tree
                      /\ backend.coverage # None
    BY <1>9
  <2>1. Fence(key) /\ Legal(backend, key[1]) /\ backend' = After(backend, key, EvidenceOf(key))
    BY <1>3
  <2>2. key[1] = "complete"
    BY <1>1, <2>1 DEF After, Submitted, Shapes
  <2>3. o = "finish"
    BY <1>6, <2>2 DEF Kinds
  <2> QED BY <2>1, <2>2, <2>3 DEF Fence, Legal, SubjectsUnchanged
<1>12. o # "finish" => pc["finish"][1] # "dispatch"
  BY <1>1, <1>6 DEF Exclusive, InLifecycle, Holds, Outside
<1>13. o = "finish" /\ key[1] = "complete" =>
         /\ st.status \notin Working /\ saved.status \notin Working /\ (\A c \in Calls : pc[c][1] \notin Busy)
         /\ st.inflight = {} /\ st.unknown = {} /\ backend.coverage = st.evidence
         /\ \A q \in Ops : ~Resuming(q)
  <2> SUFFICES ASSUME o = "finish", key[1] = "complete" PROVE \A q \in Ops : ~Resuming(q)
    BY <1>1, <1>2 DEF Finalizing, At
  <2>1. \A q \in Ops : Resuming(q) => InAdmissions(q) /\ q # "finish"
    BY DEF Resuming, InAdmissions, Outside
  <2> QED BY <1>1, <1>6, <2>1 DEF Exclusive, Holds
<1>14. \A s \in Steps : Doubtful(s)' <=> Doubtful(s)
  BY <1>2 DEF Doubtful
<1>a. Shapes'
  BY <1>1, <1>2, <1>7, <1>9 DEF Shapes, Placed
<1>b. Exclusive' /\ Keyed'
  BY <1>1, <1>7, PlacedKeeps
<1>c. Begins'
  BY <1>1, <1>2, <1>5 DEF Begins, At, Outside
<1>s. \A s \in Steps : pc'[s] = pc[s]
  BY <1>5
<1>d. Remembered'
  BY <1>1, <1>2, <1>14, <1>s DEF Remembered, At
<1>e. Ended'
  <2>1. CASE backend.status = "completed"
    BY <1>1, <1>2, <1>8, <1>10, <1>s, <2>1 DEF Ended
  <2>2. CASE backend.status # "completed" /\ backend'.status # "completed"
    BY <1>1, <1>2, <2>2 DEF Ended
  <2>3. CASE backend.status # "completed" /\ backend'.status = "completed"
    <3>1. \A s \in Steps : pc[s][1] \notin Busy
      BY <1>11, <1>13, <2>3
    <3> QED BY <1>1, <1>2, <1>8, <1>11, <1>13, <1>s, <2>3, <3>1 DEF Ended
  <2> QED BY <2>1, <2>2, <2>3
<1>f. Finalizing'
  <2>1. CASE o = "finish"
    BY <1>1, <1>2, <1>5, <2>1 DEF Finalizing, At
  <2>2. CASE o # "finish"
    <3>1. pc'["finish"] = pc["finish"] /\ pc["finish"][1] # "dispatch"
      BY <1>5, <1>12, <2>2
    <3>2. (\A c \in Calls : pc[c][1] \notin Busy) => \A c \in Calls : pc'[c][1] \notin Busy
      BY <1>2, <1>5 DEF Busy
    <3> QED BY <1>1, <1>2, <3>1, <3>2 DEF Finalizing, At
  <2> QED BY <2>1, <2>2
<1>g. Evidenced'
  <2>1. \A v \in Verifs : At(v, "entered")' => At(v, "entered")
    BY <1>5 DEF At
  <2> QED BY <1>1, <1>2, <1>9, <2>1 DEF Evidenced, Seen
<1>h. CompletionStands'
  <2>1. CASE backend.status = "completed"
    BY <1>1, <1>2, <1>10, <1>14, <2>1 DEF CompletionStands
  <2>2. CASE backend.status # "completed" /\ backend'.status = "completed"
    <3>1. /\ backend'.coverage.passed /\ backend'.coverage = st.evidence /\ Seen(st.evidence)
          /\ st.evidence.tree = Tree
      BY <1>1, <1>11, <1>13, <2>2 DEF Evidenced
    <3>2. done \cap Tracked = st.evidence.saw \cap Tracked
      BY <3>1 DEF Seen, Tree
    <3>3. \A s \in Steps : Doubtful(s) => s \in st.resolved
      BY <1>1, <1>11, <1>13, <2>2 DEF Remembered, Noted
    <3> QED BY <1>2, <1>14, <3>1, <3>2, <3>3 DEF CompletionStands
  <2> QED BY <2>1, <2>2 DEF CompletionStands
<1>i. Recovered'
  <2>1. \A c \in Calls : pc'[c][1] \in Slotted => pc[c][1] \in Slotted
    BY <1>5 DEF Slotted
  <2>2. \A s \in Steps : Lost(s)' <=> Lost(s)
    BY <1>2, <1>14, <1>s DEF Lost
  <2> QED BY <1>1, <1>2, <1>8, <2>1, <2>2 DEF Recovered
<1>j. Enters
  BY <1>5 DEF Enters, At
<1> QED BY <1>a, <1>b, <1>c, <1>d, <1>e, <1>f, <1>g, <1>h, <1>i, <1>j DEF IInv


(* A step is admitted: its intent is on record before it waits for the slot.    *)
LEMMA AdmitKeeps ==
  ASSUME IInv, NEW c \in Steps, AdmitStep(c)
  PROVE  IInv' /\ Enters
<1> USE OpsAre
<1> DEFINE s == [st EXCEPT !.inflight = @ \cup {c},
                           !.epoch    = IF c \in Mutating THEN @ + 1 ELSE @,
                           !.evidence = IF c \in Mutating THEN None ELSE @,
                           !.status   = IF c \in Mutating THEN "running" ELSE @]
<1>1. /\ Shapes /\ Exclusive /\ Keyed /\ Begins /\ Remembered /\ Ended /\ Finalizing
      /\ Evidenced /\ CompletionStands /\ Recovered
  BY DEF IInv
<1>2. /\ pc[c][1] = "checked" /\ UNCHANGED <<backend, exec, proof, slot, done>>
      /\ Resuming(c) /\ c \in Ops \ {"shutdown"}
  BY DEF AdmitStep, At, calls, world, Resuming
<1>3. backend.status # "completed" /\ saved.status # "absent" /\ saved.status # "completed" /\ NoneLost
      /\ Holds(admissions, c)
  BY <1>1, <1>2 DEF Ended, Begins, Recovered, NoneLost, Exclusive, InAdmissions, At
<1>4. CASE Throw(c)
  <2>1. MethodStep(c)
    BY <1>2, <1>3, <1>4, ThrowStep DEF Slotted
  <2> QED BY <2>1, MethodKeeps
<1>5. CASE ~Throw(c)
  <2>1. st' = s /\ saved' = s /\ Return(c) /\ Goto(c, <<"launch">>)
    BY <1>3, <1>5 DEF AdmitStep, Persist, Closed
  <2>2. Placed(c) /\ pc'[c] = <<"launch">>
    BY <1>1, <2>1, CallPlaced DEF Next1, Return
  <2>3. /\ DOMAIN s = Fields /\ s.inflight = st.inflight \cup {c} /\ s.unknown = st.unknown
        /\ s.resolved = st.resolved /\ s.runs = st.runs /\ s.evidence \in {None, st.evidence}
        /\ s.status \in {st.status, "running"}
    BY <1>1 DEF Shapes, Fields
  <2> HIDE DEF s
  <2>4. \A q \in Ops : q # c => pc'[q] = pc[q] /\ (Resuming(q)' <=> Resuming(q))
    BY <2>2, Elsewhere DEF Placed
  <2>5. ~Resuming(c)' /\ st.status # "absent" /\ s.status # "absent"
    BY <1>1, <1>3, <2>2, <2>3 DEF Resuming, At, Begins
  <2>6. \A x \in Steps : (Doubtful(x)' <=> Doubtful(x)) /\ (Lost(x)' => Lost(x))
    <3>1. \A x \in Steps : Doubtful(x)' <=> Doubtful(x)
      BY <1>2 DEF Doubtful
    <3>2. ASSUME NEW x \in Steps, Lost(x)' PROVE Lost(x)
      <4>1. pc[x][1] \in Slotted => pc'[x][1] \in Slotted
        BY <1>2, <2>4 DEF Slotted
      <4> QED BY <2>1, <2>3, <3>1, <3>2, <4>1 DEF Lost
    <3> QED BY <3>1, <3>2
  <2>7. pc'["finish"] = pc["finish"] /\ pc["finish"][1] \in Outside
    <3>1. ~InAdmissions("finish")
      BY <1>1, <1>3 DEF Exclusive, Holds
    <3> QED BY <2>4, <3>1 DEF InAdmissions
  <2>a. Shapes'
    BY <1>1, <1>2, <2>1, <2>2, <2>3 DEF Shapes, Placed
  <2>b. Exclusive' /\ Keyed'
    BY <1>1, <2>2, PlacedKeeps
  <2>c. Begins'
    BY <1>1, <2>1, <2>4, <2>5 DEF Begins, At
  <2>d. Remembered'
    <3>1. ASSUME NEW x \in Steps, Doubtful(x)' \/ pc'[x][1] \in Busy PROVE x \in Noted(s)
      BY <1>1, <2>3, <2>4, <2>6, <3>1 DEF Remembered, Noted
    <3>2. ASSUME NEW x \in Steps, pc'[x][1] = "published" PROVE x \in s.unknown \cup s.resolved
      BY <1>1, <2>2, <2>3, <2>4, <3>2 DEF Remembered, At
    <3> QED BY <2>1, <3>1, <3>2 DEF Remembered, At
  <2>e. Ended'
    BY <1>1, <1>2, <1>3, <2>1, <2>3 DEF Ended
  <2>f. Finalizing'
    BY <2>7 DEF Finalizing, At, Outside
  <2>g. Evidenced'
    <3>1. \A v \in Verifs : At(v, "entered")' => At(v, "entered")
      BY <2>4 DEF At
    <3> QED BY <1>1, <1>2, <2>1, <2>3, <3>1 DEF Evidenced, Seen
  <2>h. CompletionStands'
    BY <1>2, <1>3 DEF CompletionStands
  <2>i. Recovered'
    <3>1. \A x \in Calls : pc'[x][1] \in Slotted => pc[x][1] \in Slotted
      BY <2>2, <2>4 DEF Slotted
    <3> QED BY <1>1, <1>2, <1>3, <2>6, <3>1 DEF Recovered, NoneLost
  <2>j. Enters
    BY <1>2, <2>4 DEF Enters, At
  <2> QED BY <2>a, <2>b, <2>c, <2>d, <2>e, <2>f, <2>g, <2>h, <2>i, <2>j DEF IInv
<1> QED BY <1>4, <1>5


(* The attempt begins.                                                         *)
LEMMA PrepareKeeps ==
  ASSUME IInv, Prepare
  PROVE  IInv' /\ Enters
<1> USE OpsAre
<1> DEFINE s == [Prepared EXCEPT !.status = "claiming"]
<1>1. /\ Shapes /\ Exclusive /\ Keyed /\ Begins /\ Remembered /\ Ended /\ Finalizing
      /\ Evidenced /\ CompletionStands /\ Recovered
  BY DEF IInv
<1>2. CASE Throw("start")
  <2>1. OtherStep("start")
    BY <1>2, TurnedAwayStep DEF Prepare
  <2> QED BY <2>1, OtherKeeps
<1>3. CASE ~Throw("start")
  <2>1. /\ Claimable(backend) /\ st' = s /\ saved' = Prepared /\ lifecycle' = Queue(lifecycle, "start")
        /\ Goto("start", <<"claim">>) /\ admissions' = admissions /\ pc["start"][1] = "admission"
        /\ UNCHANGED <<backend, exec, proof, slot, done>> /\ Holds(admissions, "start")
    BY <1>3 DEF Prepare, world, calls, At
  <2>2. pc'["start"] = <<"claim">>
    BY <1>1, <2>1, Gone
  <2>3. InAdmissions("start")' /\ ~InLifecycle("start")' /\ KeyedAt("start")' /\ Holds(admissions', "start")
    BY <2>1, <2>2 DEF InAdmissions, InLifecycle, KeyedAt, Outside, Holds
  <2>4. Placed("start")
    BY <1>1, <2>1, <2>3, PlacedIs DEF Next1
  <2>5. /\ st = Absent /\ saved = Absent
        /\ \A o \in Ops \ {"start", "shutdown"} : pc[o][1] \in {"idle", "over"}
        /\ \A o \in Ops \ {"start", "shutdown"} : pc'[o] = pc[o]
    BY <1>1, <2>1, <2>4 DEF Begins, At, Placed
  <2>6. \A c \in Steps : ~Doubtful(c) /\ ~Doubtful(c)' /\ pc'[c][1] \in {"idle", "over"}
    <3>1. Noted(st) = {}
      BY <2>5 DEF Noted, Absent, Prepared
    <3>2. \A c \in Steps : ~Doubtful(c)
      BY <1>1, <3>1 DEF Remembered
    <3> QED BY <2>1, <2>5, <3>2 DEF Doubtful
  <2>7. /\ DOMAIN st' = Fields /\ DOMAIN saved' = Fields /\ st'.status = "claiming" /\ saved'.status = "prepared"
        /\ st'.resolved = {} /\ saved'.resolved = {} /\ st'.evidence = None /\ saved'.evidence = None
        /\ st'.runs = {} /\ saved'.runs = {}
    BY <2>1 DEF Prepared, Fields
  <2>8. backend.status # "completed"
    BY <2>1 DEF Claimable
  <2>a. Shapes'
    BY <1>1, <2>1, <2>4, <2>7 DEF Shapes, Placed
  <2>b. Exclusive' /\ Keyed'
    BY <1>1, <2>4, PlacedKeeps
  <2>c. Begins'
    BY <2>2, <2>7 DEF Begins, At
  <2>d. Remembered'
    BY <2>6 DEF Remembered, Busy, At
  <2>e. Ended'
    BY <2>1, <2>7, <2>8 DEF Ended
  <2>f. Finalizing'
    BY <2>5 DEF Finalizing, At
  <2>g. Evidenced'
    BY <1>1, <2>1, <2>5, <2>7 DEF Evidenced, Seen, At
  <2>h. CompletionStands'
    BY <2>1, <2>8 DEF CompletionStands
  <2>i. Recovered'
    BY <2>5, <2>6 DEF Recovered, Lost, Slotted
  <2>j. Enters
    BY <2>5 DEF Enters, At
  <2> QED BY <2>a, <2>b, <2>c, <2>d, <2>e, <2>f, <2>g, <2>h, <2>i, <2>j DEF IInv
<1> QED BY <1>2, <1>3

(* A crash: what is on record is what the next process starts from.              *)
LEMMA CrashKeeps ==
  ASSUME IInv, Crash
  PROVE  IInv' /\ Enters
<1> USE OpsAre
<1>1. /\ Shapes /\ Exclusive /\ Keyed /\ Begins /\ Remembered /\ Ended /\ Finalizing
      /\ Evidenced /\ CompletionStands /\ Recovered
  BY DEF IInv
<1>2. /\ st' = Revived(saved) /\ saved' = saved /\ admissions' = <<>> /\ lifecycle' = <<>> /\ slot' = None
      /\ UNCHANGED <<backend, exec, proof, done>>
  BY DEF Crash, world
<1>3. DOMAIN pc' = Ops /\ \A o \in Ops : pc'[o][1] \in {"idle", "over"}
  BY DEF Crash, Idle, Over
<1>4. \A o \in Ops : ~Resuming(o)' /\ ~InAdmissions(o)' /\ ~InLifecycle(o)' /\ KeyedAt(o)'
  BY <1>3, AwayIs
<1>5. /\ DOMAIN st' = Fields /\ st'.status \in {saved.status, "reconciliation_required"}
      /\ st'.resolved = saved.resolved /\ st'.inflight = saved.inflight /\ st'.unknown = saved.unknown
      /\ st'.evidence = saved.evidence /\ st'.runs = saved.runs
      /\ st'.status = saved.status \/ st'.status = "reconciliation_required"
      /\ st'.status \in Working => saved.inflight = {}
  BY <1>1, <1>2 DEF Revived, Shapes, Fields, Working
<1>6. \A s \in Steps : Doubtful(s)' <=> Doubtful(s)
  BY <1>2 DEF Doubtful
<1>a. Shapes'
  <2>1. <<>> \in Seq(Ops)
    BY EmptySeq
  <2> QED BY <1>1, <1>2, <1>3, <1>5, <2>1 DEF Shapes
<1>b. Exclusive' /\ Keyed'
  BY <1>4 DEF Exclusive, Keyed
<1>c. Begins'
  <2>1. saved.status = "absent" => st' = Absent
    <3> SUFFICES ASSUME saved.status = "absent" PROVE st' = Absent
      OBVIOUS
    <3>1. saved = Absent
      BY <1>1 DEF Begins
    <3>2. Absent.inflight = {} /\ Absent.runs = {} /\ Absent.ops = <<>> /\ DOMAIN Absent.ops = {}
      BY DEF Absent, Prepared
    <3>3. StartedOps(Absent) = {}
      BY <3>2 DEF StartedOps
    <3>4. Revived(Absent) = [Absent EXCEPT !.status = @]
      BY <3>2, <3>3 DEF Revived
    <3>5. [Absent EXCEPT !.status = @] = Absent
      BY DEF Absent, Prepared
    <3> QED BY <1>2, <3>1, <3>4, <3>5
  <2> QED BY <1>1, <1>2, <1>3, <1>5, <2>1 DEF Begins, At, Outside
<1>d. Remembered'
  <2>1. ASSUME NEW s \in Steps, Doubtful(s)' \/ pc'[s][1] \in Busy PROVE s \in Noted(st') /\ s \in Noted(saved')
    BY <1>1, <1>2, <1>3, <1>5, <1>6, <2>1 DEF Remembered, Noted, Busy
  <2>2. \A s \in Steps : pc'[s][1] # "published"
    BY <1>3
  <2> QED BY <2>1, <2>2 DEF Remembered, At
<1>e. Ended'
  BY <1>1, <1>2, <1>3, <1>4, <1>5 DEF Ended, Working, Busy
<1>f. Finalizing'
  BY <1>3 DEF Finalizing, At
<1>g. Evidenced'
  BY <1>1, <1>2, <1>3, <1>5 DEF Evidenced, Seen, At
<1>h. CompletionStands'
  BY <1>1, <1>2, <1>5, <1>6 DEF CompletionStands, Ended
<1>i. Recovered'
  <2>1. st'.status \in Working => \A s \in Steps : ~Lost(s)'
    BY <1>1, <1>5, <1>6 DEF Lost, Remembered, Noted
  <2> QED BY <1>3, <1>4, <2>1 DEF Recovered, Slotted
<1>j. Enters
  BY <1>3 DEF Enters
<1> QED BY <1>a, <1>b, <1>c, <1>d, <1>e, <1>f, <1>g, <1>h, <1>i, <1>j DEF IInv

LEMMA InitHolds ==
  ASSUME AnyInit
  PROVE  IInv
<1> USE OpsAre
<1>1. PICK never \in SUBSET Ops, renews \in Nat : InitWith(never, renews)
  BY DEF AnyInit
<1>2. DOMAIN pc = Ops /\ \A o \in Ops : pc[o][1] \in {"idle", "over"}
  BY <1>1 DEF InitWith, Idle, Over
<1>3. /\ st = Absent /\ saved = Absent /\ DOMAIN Absent = Fields /\ Absent.status = "absent"
      /\ Absent.evidence = None /\ Absent.runs = {}
  BY <1>1 DEF InitWith, Absent, Prepared, Fields
<1>4. /\ DOMAIN exec = Calls /\ DOMAIN proof = Verifs /\ (\A s \in Steps : ~Doubtful(s)) /\ \A v \in Verifs : proof[v] = None
  BY <1>1 DEF InitWith, Doubtful
<1>5. /\ DOMAIN backend = {"status", "held", "live", "coverage", "receipts"} /\ backend.status = "ready"
      /\ backend.coverage = None
  BY <1>1 DEF InitWith, Untouched
<1>6. admissions \in Seq(Ops) /\ lifecycle \in Seq(Ops)
  BY <1>1, EmptySeq DEF InitWith
<1>7. \A o \in Ops : ~InAdmissions(o) /\ ~InLifecycle(o) /\ KeyedAt(o) /\ ~Resuming(o)
  BY <1>2 DEF InAdmissions, InLifecycle, KeyedAt, Resuming, At, Outside
<1>8. Shapes /\ Exclusive /\ Keyed
  BY <1>2, <1>3, <1>4, <1>5, <1>6, <1>7 DEF Shapes, Exclusive, Keyed
<1>9. Begins /\ Remembered
  BY <1>2, <1>3, <1>4 DEF Begins, Remembered, At, Outside, Busy
<1>10. Ended /\ Finalizing /\ CompletionStands
  BY <1>2, <1>3, <1>5 DEF Ended, Finalizing, CompletionStands, At
<1>11. Evidenced /\ Recovered
  BY <1>2, <1>3, <1>4, <1>5, <1>7 DEF Evidenced, Recovered, Lost, At, Slotted, Working
<1> QED BY <1>8, <1>9, <1>10, <1>11 DEF IInv


-----------------------------------------------------------------------------
(* Every step is one of these.                                                 *)
MethodMoves ==
  \/ \E o \in {"start", "renew", "finish", "reconcile"} : Fails(o)
  \/ Claim \/ Claimed \/ Starting \/ Started \/ Running
  \/ \E s \in Steps : CallStep(s) \/ CheckStep(s) \/ SettleStep(s)
  \/ \E v \in Verifs : \/ CallVerify(v) \/ CheckVerify(v) \/ AdmitVerify(v) \/ RegisterRun(v)
                       \/ DoubtRun(v) \/ StoreEvidence(v) \/ AwaitSubmit(v) \/ Submit(v)
                       \/ SubmittedEvidence(v) \/ Fails(v)
  \/ CallRenew \/ CheckRenew \/ Heartbeat \/ Renewed
  \/ CallFinish \/ Nest("finish") \/ Finalize \/ Dispose \/ Disposed \/ Readback
ReconcileMoves ==
  \/ CallReconcile \/ Nest("reconcile") \/ RecoverCalls \/ CheckOperations \/ Unanswered \/ EndOperations
  \/ ReconcileEffects \/ Reopen \/ Restart \/ Adopt \/ AdoptCompletion \/ Proceed \/ Confirm \/ Redone
  \/ Covered \/ \E key \in DOMAIN st.ops : ReconcileOperation(key)
RunMoves ==
  \/ \E c \in Calls : Execute(c)
  \/ \E s \in Steps : UncertainStep(s) \/ Publish(s) \/ Published(s)
  \/ \E v \in Verifs : UncertainRun(v)
OtherMoves ==
  \/ Environment \/ UNCHANGED vars \/ CallShutdown \/ ShutdownGoes \/ CallStart
  \/ \E s \in Steps : Effect(s)
Moves ==
  \/ MethodMoves \/ ReconcileMoves \/ RunMoves \/ OtherMoves
  \/ \E o \in Verifs \cup {"start", "renew", "finish", "reconcile"} : Dispatch(o)
  \/ (\E s \in Steps : AdmitStep(s)) \/ Prepare \/ Crash

LEMMA NextMoves == [Next]_vars => Moves
<1> USE OpsAre
<1>1. ASSUME NEW s \in Steps, CallStep(s) \/ StepGoes(s) \/ Effect(s) PROVE Moves
  BY <1>1 DEF StepGoes, Execute, Moves, MethodMoves, RunMoves, OtherMoves
<1>2. ASSUME NEW v \in Verifs, CallVerify(v) \/ VerifyGoes(v) PROVE Moves
  BY <1>2 DEF VerifyGoes, Execute, Backend, Moves, MethodMoves, RunMoves
<1>3. CallStart \/ StartGoes \/ CallRenew \/ RenewGoes \/ CallFinish \/ FinishGoes => Moves
  BY DEF StartGoes, RenewGoes, FinishGoes, Backend, Moves, MethodMoves, OtherMoves
<1>4. CallReconcile \/ ReconcileGoes => Moves
  BY DEF ReconcileGoes, Backend, Moves, MethodMoves, ReconcileMoves
<1>5. CallShutdown \/ ShutdownGoes \/ Environment \/ Crash \/ UNCHANGED vars => Moves
  BY DEF Moves, OtherMoves
<1> QED BY <1>1, <1>2, <1>3, <1>4, <1>5 DEF Next, Controller

LEMMA MethodMovesKeep ==
  ASSUME IInv, MethodMoves
  PROVE  IInv' /\ Enters
<1> USE OpsAre
<1>1. CASE \E o \in {"start", "renew", "finish", "reconcile"} : Fails(o)
  BY <1>1, StartFailsStep, RenewFailsStep, FinishFailsStep, ReconcileFailsStep, MethodKeeps
<1>2. CASE Claim \/ Claimed \/ Starting \/ Started \/ Running
  BY <1>2, ClaimStep, ClaimedStep, StartingStep, StartedStep, RunningStep, MethodKeeps
<1>3. CASE \E s \in Steps : CallStep(s) \/ CheckStep(s) \/ SettleStep(s)
  BY <1>3, CallStepStep, CheckStepStep, SettleStepStep, MethodKeeps
<1>4. CASE \E v \in Verifs : CallVerify(v) \/ CheckVerify(v) \/ AdmitVerify(v) \/ RegisterRun(v) \/ DoubtRun(v)
  BY <1>4, CallVerifyStep, CheckVerifyStep, AdmitVerifyStep, RegisterRunStep, DoubtRunStep, MethodKeeps
<1>5. CASE \E v \in Verifs : StoreEvidence(v) \/ AwaitSubmit(v) \/ Submit(v) \/ SubmittedEvidence(v) \/ Fails(v)
  BY <1>5, StoreEvidenceStep, AwaitSubmitStep, SubmitStep, SubmittedEvidenceStep, VerifyFailsStep, MethodKeeps
<1>6. CASE CallRenew \/ CheckRenew \/ Heartbeat \/ Renewed
  BY <1>6, CallRenewStep, CheckRenewStep, HeartbeatStep, RenewedStep, MethodKeeps
<1>7. CASE Finalize
  <2>1. PICK d \in {"complete", "review", "release"} : FinalizesAs(d)
    BY <1>7 DEF Finalize, FinalizesAs
  <2> QED BY <2>1, FinalizeStep, MethodKeeps
<1>8. CASE Dispose
  <2>1. pc["finish"][2] \in {"complete", "review", "release"}
    BY <1>8 DEF IInv, Keyed, KeyedAt, Kinds, Dispose
  <2>2. PICK kind \in {"complete", "review", "release"} : DisposesAs(kind)
    BY <1>8, <2>1 DEF Dispose, DisposesAs
  <2> QED BY <2>2, DisposeStep, MethodKeeps
<1>9. CASE CallFinish \/ Nest("finish") \/ Disposed \/ Readback
  BY <1>9, CallFinishStep, FinishNestStep, DisposedStep, ReadbackStep, MethodKeeps
<1> QED BY <1>1, <1>2, <1>3, <1>4, <1>5, <1>6, <1>7, <1>8, <1>9 DEF MethodMoves

LEMMA ReconcileMovesKeep ==
  ASSUME IInv, ReconcileMoves
  PROVE  IInv' /\ Enters
<1> USE OpsAre
<1>1. CASE RecoverCalls
  <2>1. PICK r : RecoversTo(r)
    <3>1. \E r : r \in WithRuns(WithSteps(st))
      <4> DEFINE known == {v \in WithSteps(st).runs : exec[v] = "known"}
      <4>1. \E e : e \in (IF known = {} THEN {WithSteps(st).evidence} ELSE {proof[v] : v \in known})
        OBVIOUS
      <4> QED BY <4>1 DEF WithRuns
    <3> QED BY <1>1, <3>1 DEF RecoverCalls, RecoversTo
  <2> QED BY <2>1, RecoverCallsStep, MethodKeeps
<1>2. CASE ReconcileEffects
  <2>1. CASE KnowsEffects
    BY <2>1, KnownEffectsStep, MethodKeeps
  <2>2. CASE \E verified : ConfirmsEffects(verified)
    BY <2>2, ConfirmEffectsStep, MethodKeeps
  <2> QED BY <1>2, <2>1, <2>2 DEF ReconcileEffects, KnowsEffects, ConfirmsEffects
<1>3. CASE \E key \in DOMAIN st.ops : ReconcileOperation(key)
  BY <1>3, ReconcileOperationStep, MethodKeeps
<1>4. CASE CallReconcile \/ Nest("reconcile") \/ CheckOperations \/ Unanswered \/ EndOperations
  BY <1>4, CallReconcileStep, ReconcileNestStep, CheckOperationsStep, UnansweredStep, EndOperationsStep, MethodKeeps
<1>5. CASE Reopen \/ Restart \/ Adopt \/ AdoptCompletion
  BY <1>5, ReopenStep, RestartStep, AdoptStep, AdoptCompletionStep, MethodKeeps
<1>6. CASE Proceed \/ Confirm \/ Redone \/ Covered
  BY <1>6, ProceedStep, ConfirmStep, RedoneStep, CoveredStep, MethodKeeps
<1> QED BY <1>1, <1>2, <1>3, <1>4, <1>5, <1>6 DEF ReconcileMoves

LEMMA RunMovesKeep ==
  ASSUME IInv, RunMoves
  PROVE  IInv' /\ Enters
<1> USE OpsAre
<1>1. CASE \E c \in Calls : Execute(c)
  BY <1>1, LaunchStep, TakeSlotStep, DeniedStep, EnterStep, SettleCallStep, RunKeeps DEF Execute
<1>2. CASE \E s \in Steps : UncertainStep(s) \/ Publish(s) \/ Published(s)
  BY <1>2, UncertainStepStep, PublishStep, PublishedStep, RunKeeps
<1>3. CASE \E v \in Verifs : UncertainRun(v)
  BY <1>3, UncertainRunStep, RunKeeps
<1> QED BY <1>1, <1>2, <1>3 DEF RunMoves

LEMMA OtherMovesKeep ==
  ASSUME IInv, OtherMoves
  PROVE  IInv' /\ Enters
<1>1. CASE Environment \/ UNCHANGED vars \/ \E s \in Steps : Effect(s)
  BY <1>1, EnvironmentStep, OtherKeeps
<1>2. CASE CallShutdown \/ ShutdownGoes
  BY <1>2, ShutdownStep, OtherKeeps
<1>3. CASE CallStart
  BY <1>3, CallStartStep, OtherKeeps
<1> QED BY <1>1, <1>2, <1>3 DEF OtherMoves

LEMMA StepKeeps ==
  ASSUME IInv, [Next]_vars
  PROVE  IInv' /\ Enters
<1>1. Moves
  BY NextMoves
<1> QED BY <1>1, MethodMovesKeep, ReconcileMovesKeep, RunMovesKeep, OtherMovesKeep, DispatchKeeps,
           AdmitKeeps, PrepareKeeps, CrashKeeps DEF Moves

-----------------------------------------------------------------------------
(* What the theorems below rest on holds whichever calls are never made.        *)
THEOREM Invariance == AnySpec => []IInv
<1>1. AnyInit => IInv
  BY InitHolds
<1>2. IInv /\ [Next]_vars => IInv'
  BY StepKeeps
<1> QED BY <1>1, <1>2, PTL DEF AnySpec

(* A started step without a known result is in the saved attempt, through        *)
(* crashes, lost replies and recovery, until a readback has confirmed it          *)
(* (AttemptAuthority, attempt-recovery.ts).                                      *)
THEOREM UncertaintyIsRemembered == AnySpec => []UncertainRemembered
<1>1. IInv => UncertainRemembered
  BY DEF IInv, Remembered, UncertainRemembered, Noted
<1> QED BY <1>1, Invariance, PTL

(* A completed item has passing evidence that saw every tracked effect, and no   *)
(* step of it is in doubt (finish, checkCompletionProof).                        *)
THEOREM CompletionsStand == AnySpec => []CompletionStands
<1>1. IInv => CompletionStands
  BY DEF IInv
<1> QED BY <1>1, Invariance, PTL

(* No handler of a step is entered while another step is in doubt                 *)
(* (publishUncertainty, AttemptAuthority.policy, validateRecoveredAttempt).       *)
THEOREM DoubtBlocksEffects == AnySpec => NoEffectPastDoubt
<1>1. ASSUME IInv, [Next]_vars
      PROVE  \A c \in Steps : At(c, "slotted") /\ pc'[c] = <<"entered">> =>
               \A s \in Steps \ {c} : Doubtful(s) => s \in st.resolved
  <2> USE OpsAre
  <2> SUFFICES ASSUME NEW c \in Steps, At(c, "slotted"), pc'[c] = <<"entered">>, NEW s \in Steps \ {c}, Doubtful(s)
               PROVE  s \in st.resolved
    OBVIOUS
  <2>1. Accepted(c)
    BY <1>1, StepKeeps DEF Enters
  <2>2. ~Lost(s) /\ slot = c /\ (pc[s][1] \in Slotted => slot = s)
    BY <1>1, <2>1 DEF IInv, Recovered, Accepted, At, Slotted
  <2> QED BY <2>1, <2>2 DEF Lost, Accepted
<1>2. [][IInv /\ [Next]_vars]_vars => NoEffectPastDoubt
  BY <1>1, PTL DEF NoEffectPastDoubt
<1> QED BY <1>2, Invariance, PTL DEF AnySpec
-----------------------------------------------------------------------------
(* What the attempt has on record of its operations, and what its backend took. *)
Opens     == {k \in backend.receipts : k[1] = "open"}
Ends      == {"complete", "review", "release"}
Endings   == {"completed", "needs_review", "released"}
Completed == backend.status = "completed"

\* The record of an operation says what became of it.
Tells(s) ==
  /\ backend.receipts \subseteq DOMAIN s.ops
  /\ \A k \in DOMAIN s.ops :
       /\ s.ops[k] \in {"started", "refused", "receipt", "absent"}
       /\ s.ops[k] = "receipt" => k \in backend.receipts
       /\ s.ops[k] = "absent" => k \notin backend.receipts
\* No operation behind a completion is in doubt, and an ending is the attempt's own.
Settled(s) == Completed => \A k \in DOMAIN s.ops : s.ops[k] = "started" => k[1] = "complete" \/ k \notin backend.receipts
Earned(status) ==
  status \in Endings => backend.status = status /\ \E k \in backend.receipts : k[1] \in Ends /\ Submitted[k[1]] = status
Ledger == \A s \in {st, saved} : Tells(s) /\ Settled(s) /\ Earned(s.status)

\* What the backend took is one claim first, and an ending last.
Orderly ==
  /\ backend.receipts # {} \/ backend.held => Opens # {}
  /\ \A j, k \in Opens : j = k
  /\ \A k \in backend.receipts : k[1] \in Ends => backend.status = Submitted[k[1]]

\* An operation under way is on record, and finish() has seen to all others.
Begun(s, key) == key \in DOMAIN s.ops /\ s.ops[key] = "started"
UnderWay(o) ==
  /\ At(o, "dispatch") =>
       /\ Begun(st, pc[o][2]) /\ (Completed \/ Begun(saved, pc[o][2]))
       /\ pc[o][2][1] = "open" => Opens = {}
  /\ pc[o][1] \in {"answered", "readback"} => pc[o][2] \in backend.receipts
  /\ o = "start" /\ At(o, "claim") => Opens = {}
  /\ o = "renew" /\ At(o, "checked") => ~Completed
  /\ o = "finish" /\ At(o, "finalizing") => StartedOps(st) = {}
  /\ o = "finish" /\ At(o, "dispatch") => StartedOps(st) \subseteq {pc[o][2]}
  /\ o = "finish" /\ pc[o][1] \in {"finalizing", "dispatch"} => Completed \/ saved.ops = st.ops
Methods == Verifs \cup {"start", "renew", "finish", "reconcile"}
OInv == Ledger /\ Orderly /\ \A o \in Methods : UnderWay(o)

(* A step of a method that turns an operation of the attempt, or none.         *)
Proper(key, v) ==
  /\ v \in {"started", "refused", "receipt", "absent"}
  /\ v = "receipt" => key \in backend.receipts
  /\ v = "absent" => key \notin backend.receipts
  /\ v = "started" => ~Completed \/ key[1] = "complete" \/ key \notin backend.receipts
Turns(key, v) == st'.ops = [k \in DOMAIN st.ops \cup {key} |-> IF k = key THEN v ELSE st.ops[k]]
OpsStep(o) ==
  /\ backend' = backend /\ saved' \in {saved, st'}
  /\ \A q \in Ops \ {o} : pc'[q] = pc[q]
  /\ st'.ops = st.ops \/ (Holds(lifecycle, o) /\ \E key, v : Turns(key, v) /\ Proper(key, v))
  /\ st'.status = st.status \/ Earned(st'.status)
  /\ o \in Methods => UnderWay(o)'

LEMMA MethodsAre ==
  /\ Methods \subseteq Ops
  /\ \A o \in Methods : pc[o][1] \in {"dispatch", "answered"} => InLifecycle(o)
  /\ pc["finish"][1] \in {"finalizing", "dispatch"} => InLifecycle("finish")
  /\ At("renew", "checked") => InLifecycle("renew")
<1> USE OpsAre
<1> QED BY DEF Methods, InLifecycle, Outside, At

LEMMA OpsKeep ==
  ASSUME IInv, OInv, NEW o \in Ops, OpsStep(o)
  PROVE  OInv'
<1> USE OpsAre, MethodsAre
<1>1. /\ Exclusive /\ Ledger /\ Orderly /\ \A q \in Methods : UnderWay(q)
      /\ backend' = backend /\ saved' \in {saved, st'} /\ \A q \in Ops \ {o} : pc'[q] = pc[q]
  BY DEF IInv, OInv, OpsStep
<1>2. Tells(st)' /\ Settled(st)'
  <2>1. CASE st'.ops = st.ops
    BY <1>1, <2>1 DEF Ledger, Tells, Settled, Completed
  <2>2. ASSUME NEW key, NEW v, Turns(key, v), Proper(key, v)
        PROVE  Tells(st)' /\ Settled(st)'
    <3>1. Tells(st) /\ Settled(st)
      BY <1>1 DEF Ledger
    <3>2. DOMAIN st'.ops = DOMAIN st.ops \cup {key} /\ \A k \in DOMAIN st'.ops : st'.ops[k] = IF k = key THEN v ELSE st.ops[k]
      BY <2>2 DEF Turns
    <3>3. Tells(st)'
      BY <1>1, <2>2, <3>1, <3>2 DEF Tells, Proper
    <3>4. Settled(st)'
      BY <1>1, <2>2, <3>1, <3>2 DEF Settled, Proper, Completed
    <3> QED BY <3>3, <3>4
  <2> QED BY <2>1, <2>2 DEF OpsStep
<1>3. Earned(st.status)'
  BY <1>1 DEF OpsStep, Ledger, Earned
<1>4. Ledger'
  <2>1. Tells(saved) /\ Settled(saved) /\ Earned(saved.status)
    BY <1>1 DEF Ledger
  <2>2. Tells(saved)' /\ Settled(saved)' /\ Earned(saved.status)'
    BY <1>1, <1>2, <1>3, <2>1 DEF Tells, Settled, Earned, Completed
  <2> QED BY <1>2, <1>3, <2>2 DEF Ledger
<1>5. Orderly'
  BY <1>1 DEF Orderly, Opens, Ends
<1>6. ASSUME NEW q \in Methods PROVE UnderWay(q)'
  <2>1. CASE q = o
    BY <2>1 DEF OpsStep
  <2>2. CASE q # o
    <3>1. /\ UnderWay(q) /\ pc'[q] = pc[q] /\ Opens' = Opens /\ (Completed' <=> Completed)
          /\ backend'.receipts = backend.receipts
      BY <1>1, <2>2 DEF Opens, Completed
    <3>2. pc[q][1] = "dispatch" \/ (q = "finish" /\ pc[q][1] = "finalizing") => st'.ops = st.ops
      BY <1>1, <2>2 DEF OpsStep, Exclusive, Holds, At
    <3>3. st'.ops = st.ops => saved'.ops \in {saved.ops, st.ops} /\ StartedOps(st)' = StartedOps(st)
      BY <1>1 DEF StartedOps
    <3> QED BY <3>1, <3>2, <3>3 DEF UnderWay, At, Begun
  <2> QED BY <2>1, <2>2
<1> QED BY <1>4, <1>5, <1>6 DEF OInv

-----------------------------------------------------------------------------
(* Steps that leave the operations alone.                                      *)
Aside(o) ==
  /\ pc'[o][1] \notin {"dispatch", "answered", "readback", "claim", "finalizing"}
  /\ o = "renew" => pc'[o][1] # "checked"
Quiet(o) ==
  /\ backend' = backend /\ saved' \in {saved, st'}
  /\ \A q \in Ops \ {o} : pc'[q] = pc[q]
  /\ Aside(o)
  /\ st'.ops = st.ops /\ (st'.status = st.status \/ st'.status \notin Endings)

LEMMA QuietOps ==
  ASSUME IInv, OInv, NEW o \in Ops, Quiet(o)
  PROVE  OInv'
<1>1. UnderWay(o)'
  BY DEF Quiet, Aside, UnderWay, At
<1> QED BY <1>1, OpsKeep DEF Quiet, OpsStep, Earned

LEMMA ThrowOps ==
  ASSUME IInv, OInv, NEW o \in Ops, Throw(o), backend' = backend
  PROVE  OInv'
<1>1. Shapes
  BY DEF IInv
<1>2. Quiet(o)
  BY <1>1 DEF Throw, Goto, Shapes, Quiet, Aside, attempt, Idle, Over
<1> QED BY <1>2, QuietOps

-----------------------------------------------------------------------------
(* Steps that begin an operation, and that receive its receipt.                *)
LEMMA IntendOps ==
  ASSUME IInv, OInv, NEW o \in Methods, NEW key, Intend(o, st, key), backend' = backend, Holds(lifecycle, o),
         ~Completed \/ key[1] = "complete" \/ key \notin backend.receipts,
         key[1] = "open" => Opens = {},
         o = "finish" => StartedOps(st) = {} /\ (Completed \/ saved.ops = st.ops)
  PROVE  OInv'
<1> USE MethodsAre
<1>1. Shapes /\ (saved.status = "completed" => Completed)
  BY DEF IInv, Ended, Completed
<1>2. /\ DOMAIN st'.ops = DOMAIN st.ops \cup {key}
      /\ \A k \in DOMAIN st'.ops : st'.ops[k] = IF k = key THEN "started" ELSE st.ops[k]
      /\ Turns(key, "started") /\ st'.status = st.status
  BY <1>1 DEF Intend, Persist, WithOp, Shapes, Fields, Turns
<1>3. saved' \in {saved, st'} /\ (Completed \/ saved' = st')
  BY <1>1 DEF Intend, Persist, Closed
<1>4. pc'[o] = <<"dispatch", key>> /\ \A q \in Ops \ {o} : pc'[q] = pc[q]
  BY <1>1, Gone DEF Intend
<1>5. UnderWay(o)'
  <2>1. Opens' = Opens /\ (Completed' <=> Completed)
    BY DEF Opens, Completed
  <2>2. Begun(st, key)'
    BY <1>2 DEF Begun
  <2>3. Completed' \/ Begun(saved, key)'
    BY <1>3, <2>1, <2>2 DEF Begun
  <2>4. o = "finish" => StartedOps(st)' \subseteq {key}
    BY <1>2 DEF StartedOps, Undecided
  <2> QED BY <1>3, <1>4, <2>1, <2>2, <2>3, <2>4 DEF UnderWay, At
<1>6. Proper(key, "started")
  BY DEF Proper
<1> QED BY <1>2, <1>3, <1>4, <1>5, <1>6, OpsKeep DEF OpsStep

LEMMA BeginOps ==
  ASSUME IInv, OInv, NEW o \in Methods, NEW key, Begin(o, st, key), backend' = backend, Holds(lifecycle, o),
         ~Completed \/ key[1] = "complete" \/ key \notin backend.receipts,
         key[1] = "open" => Opens = {},
         o = "finish" => StartedOps(st) = {} /\ (Completed \/ saved.ops = st.ops)
  PROVE  OInv'
BY IntendOps, ThrowOps, MethodsAre DEF Begin

LEMMA ReceiptOps ==
  ASSUME IInv, OInv, NEW o \in Methods, At(o, "answered"), backend' = backend,
         Persist(Receipted(pc[o][2])), NEW to, Goto(o, to),
         to[1] \notin {"dispatch", "answered", "claim", "finalizing"},
         to[1] = "readback" => to[2] = pc[o][2], o = "renew" => to[1] # "checked"
  PROVE  OInv'
<1> USE MethodsAre
<1> DEFINE key == pc[o][2]
<1>1. Shapes /\ Exclusive /\ UnderWay(o)
  BY DEF IInv, OInv
<1>2. Holds(lifecycle, o) /\ key \in backend.receipts
  BY <1>1 DEF Exclusive, At, UnderWay
<1>3. pc'[o] = to /\ \A q \in Ops \ {o} : pc'[q] = pc[q]
  BY <1>1, Gone
<1>4. Turns(key, "receipt") /\ st'.status = st.status /\ saved' \in {saved, st'}
  BY <1>1 DEF Persist, Receipted, WithOp, Shapes, Fields, Turns
<1>5. Proper(key, "receipt") /\ UnderWay(o)'
  BY <1>2, <1>3 DEF Proper, UnderWay, At
<1> QED BY <1>2, <1>3, <1>4, <1>5, OpsKeep DEF OpsStep

(* What a method saves that holds the lifecycle and turns one operation.         *)
LEMMA TurnOps ==
  ASSUME IInv, OInv, NEW o \in Methods, Holds(lifecycle, o), backend' = backend,
         NEW key, NEW v, Proper(key, v), Turns(key, v), st'.status = st.status, saved' \in {saved, st'},
         \A q \in Ops \ {o} : pc'[q] = pc[q], Aside(o)
  PROVE  OInv'
<1>1. UnderWay(o)'
  BY DEF Aside, UnderWay, At
<1> QED BY <1>1, OpsKeep, MethodsAre DEF OpsStep

-----------------------------------------------------------------------------
(* start() and renew().                                                        *)
LEMMA PrepareOps ==
  ASSUME IInv, OInv, Prepare
  PROVE  OInv'
<1> USE OpsAre
<1>1. /\ Shapes /\ Begins /\ Ledger /\ Orderly /\ backend' = backend /\ \A o \in Methods : UnderWay(o)
  BY DEF IInv, OInv, Prepare, world
<1>2. CASE Throw("start")
  BY <1>1, <1>2, ThrowOps
<1>3. CASE Goto("start", <<"claim">>) /\ st' = [Prepared EXCEPT !.status = "claiming"] /\ saved' = Prepared
  <2>1. st = Absent /\ \A o \in Ops \ {"start", "shutdown"} : pc[o][1] \in {"idle", "over"}
    BY <1>1 DEF Prepare, Begins
  <2>2. backend.receipts = {}
    <3>1. DOMAIN st.ops = {}
      BY <2>1 DEF Absent, Prepared
    <3> QED BY <1>1, <3>1 DEF Ledger, Tells
  <2>3. pc'["start"] = <<"claim">> /\ \A q \in Ops \ {"start"} : pc'[q] = pc[q]
    BY <1>1, <1>3, Gone
  <2>4. Ledger'
    <3>1. /\ DOMAIN st'.ops = {} /\ DOMAIN saved'.ops = {}
          /\ st'.status = "claiming" /\ saved'.status = "prepared"
      BY <1>3 DEF Prepared
    <3> QED BY <1>1, <2>2, <3>1 DEF Ledger, Tells, Settled, Earned, Endings
  <2>5. Orderly' /\ Opens' = {}
    BY <1>1, <2>2 DEF Orderly, Opens, Ends
  <2>6. ASSUME NEW o \in Methods PROVE UnderWay(o)'
    BY <2>1, <2>3, <2>5 DEF UnderWay, At, Methods
  <2> QED BY <2>4, <2>5, <2>6 DEF OInv
<1> QED BY <1>2, <1>3 DEF Prepare

LEMMA StartOps ==
  ASSUME IInv, OInv, Claim \/ Claimed \/ Starting \/ Started \/ Running
  PROVE  OInv'
<1> USE OpsAre
<1>1. /\ Shapes /\ Exclusive /\ backend' = backend /\ "start" \in Methods /\ UnderWay("start")
      /\ pc["start"][1] \notin Outside => ~Completed
  BY DEF IInv, OInv, Ended, Resuming, Completed, Claim, Claimed, Starting, Started, Running, world, Methods
<1>2. CASE Claim
  <2>1. Holds(lifecycle, "start") /\ ~Completed /\ Opens = {} /\ Begin("start", st, NextKey("open"))
    BY <1>1, <1>2 DEF Claim, At, Outside, UnderWay
  <2> QED BY <1>1, <2>1, BeginOps
<1>3. CASE Starting
  <2>1. Holds(lifecycle, "start") /\ ~Completed
    BY <1>1, <1>3 DEF Starting, At, Outside, Exclusive, InLifecycle
  <2>2. NextKey("start")[1] # "open"
    BY DEF NextKey
  <2> QED BY <1>1, <1>3, <2>1, <2>2, BeginOps, ThrowOps DEF Starting
<1>4. CASE Claimed \/ Started
  <2>1. PICK to \in {<<"claimed">>, <<"started">>} : Goto("start", to)
    BY <1>4 DEF Claimed, Started
  <2> QED BY <1>1, <1>4, <2>1, ReceiptOps DEF Claimed, Started
<1>5. CASE Running
  <2>1. Quiet("start")
    BY <1>1, <1>5 DEF Running, Quiet, Aside, Persist, Goto, Shapes, Fields, Idle, Endings
  <2> QED BY <2>1, QuietOps
<1> QED BY <1>2, <1>3, <1>4, <1>5

LEMMA RenewOps ==
  ASSUME IInv, OInv, CallRenew \/ CheckRenew \/ Heartbeat \/ Renewed
  PROVE  OInv'
<1> USE OpsAre
<1>1. /\ Shapes /\ Exclusive /\ backend' = backend /\ "renew" \in Methods /\ UnderWay("renew")
      /\ st.status \in Working => ~Completed
  BY DEF IInv, OInv, Ended, Completed, CallRenew, CheckRenew, Heartbeat, Renewed, world, Methods
<1>2. CASE CallRenew
  <2>1. Quiet("renew")
    BY <1>1, <1>2 DEF CallRenew, Quiet, Aside, attempt, Goto, Shapes
  <2> QED BY <2>1, QuietOps
<1>3. CASE CheckRenew
  <2>1. CASE Throw("renew")
    BY <1>1, <2>1, ThrowOps
  <2>2. CASE Goto("renew", <<"checked">>) /\ UNCHANGED attempt /\ ~Completed
    <3>1. pc'["renew"] = <<"checked">> /\ \A q \in Ops \ {"renew"} : pc'[q] = pc[q]
      BY <1>1, <2>2, Gone
    <3>2. UnderWay("renew")'
      BY <1>1, <2>2, <3>1 DEF UnderWay, At, Completed
    <3> QED BY <1>1, <2>2, <3>1, <3>2, OpsKeep DEF OpsStep, attempt
  <2> QED BY <1>1, <1>3, <2>1, <2>2 DEF CheckRenew
<1>4. CASE Heartbeat
  <2>1. Holds(lifecycle, "renew") /\ ~Completed
    BY <1>1, <1>4 DEF Heartbeat, At, Exclusive, InLifecycle, UnderWay
  <2>2. NextKey("heartbeat")[1] # "open"
    BY DEF NextKey
  <2>3. CASE Goto("renew", <<"failed", None>>) /\ UNCHANGED attempt
    <3>1. Quiet("renew")
      BY <1>1, <2>3 DEF Quiet, Aside, attempt, Goto, Shapes
    <3> QED BY <3>1, QuietOps
  <2> QED BY <1>1, <1>4, <2>1, <2>2, <2>3, IntendOps DEF Heartbeat
<1>5. CASE Renewed
  BY <1>1, <1>5, ReceiptOps DEF Renewed, Idle
<1> QED BY <1>2, <1>3, <1>4, <1>5

-----------------------------------------------------------------------------
(* step() and verify().                                                        *)
LEMMA StepOps ==
  ASSUME IInv, OInv, NEW s \in Steps, CallStep(s) \/ CheckStep(s) \/ AdmitStep(s) \/ SettleStep(s)
  PROVE  OInv'
<1> USE OpsAre
<1>1. Shapes /\ backend' = backend
  BY DEF IInv, CallStep, CheckStep, AdmitStep, SettleStep, world
<1>2. CASE Throw(s)
  BY <1>1, <1>2, ThrowOps
<1>3. CASE ~Throw(s)
  <2>1. PICK to \in {<<"admission">>, <<"checked">>, <<"launch">>, Over} : Goto(s, to)
    BY <1>3 DEF CallStep, CheckStep, AdmitStep, SettleStep
  <2>2. /\ st'.ops = st.ops /\ saved' \in {saved, st'}
        /\ st'.status = st.status \/ st'.status \notin Endings
    BY <1>1, <1>3 DEF CallStep, CheckStep, AdmitStep, SettleStep, attempt, Persist, Shapes, Fields, Endings
  <2>3. pc'[s] = to /\ \A q \in Ops \ {s} : pc'[q] = pc[q]
    BY <1>1, <2>1, Gone
  <2>4. Quiet(s)
    BY <1>1, <2>2, <2>3 DEF Quiet, Aside, Over
  <2> QED BY <2>4, QuietOps
<1> QED BY <1>2, <1>3

LEMMA VerifyOps ==
  ASSUME IInv, OInv, NEW v \in Verifs,
         CallVerify(v) \/ CheckVerify(v) \/ AdmitVerify(v) \/ RegisterRun(v) \/ DoubtRun(v) \/ StoreEvidence(v) \/ AwaitSubmit(v)
  PROVE  OInv'
<1> USE OpsAre
<1>1. Shapes /\ backend' = backend
  BY DEF IInv, CallVerify, CheckVerify, AdmitVerify, RegisterRun, DoubtRun, StoreEvidence, AwaitSubmit, world
<1>2. CASE Throw(v)
  BY <1>1, <1>2, ThrowOps
<1>3. CASE ~Throw(v)
  <2>1. PICK to \in {<<"admission">>, <<"checked">>, <<"register">>, <<"launch">>, <<"stored">>, <<"submit">>, Over} : Goto(v, to)
    BY <1>3 DEF CallVerify, CheckVerify, AdmitVerify, RegisterRun, DoubtRun, StoreEvidence, AwaitSubmit
  <2>2. /\ st'.ops = st.ops /\ saved' \in {saved, st'}
        /\ st'.status = st.status \/ st'.status \notin Endings
    BY <1>1, <1>3 DEF CallVerify, CheckVerify, AdmitVerify, RegisterRun, DoubtRun, StoreEvidence, AwaitSubmit,
                      attempt, Persist, Shapes, Fields, Endings
  <2>3. pc'[v] = to /\ \A q \in Ops \ {v} : pc'[q] = pc[q]
    BY <1>1, <2>1, Gone
  <2>4. Quiet(v)
    BY <1>1, <2>2, <2>3 DEF Quiet, Aside, Over
  <2> QED BY <2>4, QuietOps
<1> QED BY <1>2, <1>3

(* An operation of a verification is new, or refused.                           *)
LEMMA SubmitOps ==
  ASSUME IInv, OInv, NEW v \in Verifs, Submit(v) \/ SubmittedEvidence(v)
  PROVE  OInv'
<1> USE OpsAre
<1>1. /\ Shapes /\ Exclusive /\ backend' = backend /\ v \in Methods /\ UnderWay(v) /\ Tells(st)
  BY DEF IInv, OInv, Ledger, Submit, SubmittedEvidence, world, Methods
<1> DEFINE key == <<"evidence", v>>
<1>2. CASE SubmittedEvidence(v)
  BY <1>1, <1>2, ReceiptOps DEF SubmittedEvidence, Over
<1>3. CASE Submit(v) /\ Throw(v)
  BY <1>1, <1>3, ThrowOps
<1>4. CASE Submit(v) /\ key \notin DOMAIN st.ops /\ Begin(v, st, key)
  BY <1>1, <1>4, BeginOps DEF Submit, Tells
<1>5. CASE Submit(v) /\ st' = WithOp(st, key, "refused") /\ UNCHANGED saved /\ Goto(v, Over)
  <2>1. Turns(key, "refused") /\ st'.status = st.status /\ Proper(key, "refused")
    BY <1>1, <1>5 DEF WithOp, Shapes, Fields, Turns, Proper
  <2>2. pc'[v] = Over /\ \A q \in Ops \ {v} : pc'[q] = pc[q]
    BY <1>1, <1>5, Gone
  <2> QED BY <1>1, <1>5, <2>1, <2>2, TurnOps DEF Submit, Aside, Over
<1> QED BY <1>2, <1>3, <1>4, <1>5 DEF Submit

LEMMA RunOps ==
  ASSUME IInv, OInv, RunMoves
  PROVE  OInv'
<1> USE OpsAre
<1>1. Shapes
  BY DEF IInv
<1>2. PICK c \in Calls : Execute(c) \/ (c \in Steps /\ (UncertainStep(c) \/ Publish(c) \/ Published(c))) \/ (c \in Verifs /\ UncertainRun(c))
  BY DEF RunMoves
<1>3. PICK to \in {<<"queued">>, <<"slotted">>, <<"settle">>, Over, <<"entered">>, <<"store">>, <<"uncertain">>,
                   <<"published">>, <<"doubt">>} : Goto(c, to)
  BY <1>2 DEF Execute, Launch, TakeSlot, Denied, Enter, Settle, UncertainStep, UncertainRun, Publish, Published
<1>4. /\ backend' = backend /\ st'.ops = st.ops /\ saved' \in {saved, st'}
      /\ st'.status = st.status \/ st'.status \notin Endings
  BY <1>1, <1>2 DEF Execute, Launch, TakeSlot, Denied, Enter, Settle, UncertainStep, UncertainRun, Publish,
                    Published, world, attempt, Persist, Shapes, Fields, Endings
<1>5. pc'[c] = to /\ \A q \in Ops \ {c} : pc'[q] = pc[q]
  BY <1>1, <1>3, Gone
<1>6. Quiet(c)
  BY <1>4, <1>5 DEF Quiet, Aside, Over
<1> QED BY <1>6, QuietOps

-----------------------------------------------------------------------------
(* finish().                                                                   *)
LEMMA FinalizeOps ==
  ASSUME IInv, OInv, CallFinish \/ Nest("finish") \/ Finalize
  PROVE  OInv'
<1> USE OpsAre
<1> DEFINE o == "finish"
<1>1. Shapes /\ backend' = backend /\ o \in Methods /\ (saved.status = "completed" => Completed)
  BY DEF IInv, Ended, Completed, CallFinish, Nest, Finalize, world, Methods
<1>2. CASE CallFinish \/ Nest(o)
  <2>1. Quiet(o)
    BY <1>1, <1>2 DEF CallFinish, Nest, Quiet, Aside, attempt, Goto, Shapes
  <2> QED BY <2>1, QuietOps
<1>3. CASE Finalize /\ Throw(o)
  BY <1>1, <1>3, ThrowOps
<1>4. CASE Finalize /\ ~Throw(o)
  <2>1. PICK d : /\ Finalizable(d) /\ Persist([st EXCEPT !.status = "finalizing"])
                 /\ Goto(o, <<"finalizing", d>>)
    BY <1>4 DEF Finalize
  <2>2. /\ st'.ops = st.ops /\ st'.status = "finalizing" /\ StartedOps(st)' = {}
        /\ saved' \in {saved, st'} /\ (Completed' \/ saved' = st')
    BY <1>1, <2>1 DEF Finalizable, Persist, Closed, Shapes, Fields, StartedOps, Completed
  <2>3. pc'[o] = <<"finalizing", d>> /\ \A q \in Ops \ {o} : pc'[q] = pc[q]
    BY <1>1, <2>1, Gone
  <2>4. UnderWay(o)'
    BY <2>2, <2>3 DEF UnderWay, At
  <2> QED BY <1>1, <2>2, <2>3, <2>4, OpsKeep DEF OpsStep, Earned, Endings
<1> QED BY <1>2, <1>3, <1>4

(* A completion or another ending is asked for once: behind an ending of the     *)
(* backend's there is no other.                                                *)
LEMMA DisposeOps ==
  ASSUME IInv, OInv, Dispose \/ Disposed
  PROVE  OInv'
<1> USE OpsAre
<1> DEFINE o == "finish"
<1>1. /\ Shapes /\ Exclusive /\ Keyed /\ Orderly /\ backend' = backend /\ o \in Methods /\ UnderWay(o)
  BY DEF IInv, OInv, Dispose, Disposed, world, Methods
<1>2. CASE Disposed
  BY <1>1, <1>2, ReceiptOps DEF Disposed
<1>3. CASE Dispose
  <2>1. PICK kind \in Ends : Begin(o, st, NextKey(kind))
    BY <1>1, <1>3 DEF Dispose, Keyed, KeyedAt, Kinds, Ends
  <2>2. Holds(lifecycle, o) /\ StartedOps(st) = {} /\ (Completed \/ saved.ops = st.ops)
    BY <1>1, <1>3 DEF Dispose, At, Exclusive, InLifecycle, Outside, UnderWay
  <2>3. NextKey(kind)[1] = kind
    BY DEF NextKey
  <2>4. Completed /\ kind # "complete" => NextKey(kind) \notin backend.receipts
    BY <1>1, <2>3 DEF Orderly, Completed, Ends, Submitted
  <2> QED BY <1>1, <2>1, <2>2, <2>3, <2>4, BeginOps DEF Ends
<1> QED BY <1>2, <1>3

LEMMA ReadbackOps ==
  ASSUME IInv, OInv, Readback
  PROVE  OInv'
<1> USE OpsAre
<1> DEFINE o == "finish"
           key == pc[o][2]
           assured == backend.status = Submitted[key[1]] /\ (key[1] = "complete" => Proven)
<1>1. Shapes /\ Keyed /\ backend' = backend /\ o \in Methods /\ UnderWay(o)
  BY DEF IInv, OInv, Readback, world, Methods
<1>2. key[1] \in Ends /\ key \in backend.receipts
  BY <1>1 DEF Readback, At, Keyed, KeyedAt, Kinds, Ends, UnderWay
<1>3. Persist([st EXCEPT !.status = IF assured THEN Submitted[key[1]] ELSE "reconciliation_required"])
  BY DEF Readback
<1>4. /\ st'.ops = st.ops /\ saved' \in {saved, st'}
      /\ st'.status = IF assured THEN Submitted[key[1]] ELSE "reconciliation_required"
  BY <1>1, <1>3 DEF Persist, Shapes, Fields
<1>5. Earned(st'.status)
  BY <1>2, <1>4 DEF Earned, Endings
<1>6. pc'[o] = Idle /\ \A q \in Ops \ {o} : pc'[q] = pc[q]
  BY <1>1, Gone DEF Readback
<1>7. UnderWay(o)'
  BY <1>6 DEF UnderWay, At, Idle
<1> QED BY <1>1, <1>4, <1>5, <1>6, <1>7, OpsKeep DEF OpsStep

LEMMA FailsOps ==
  ASSUME IInv, OInv, NEW o \in Methods, Fails(o)
  PROVE  OInv'
<1> USE OpsAre, MethodsAre
<1>1. Shapes
  BY DEF IInv
<1>2. Quiet(o)
  BY <1>1 DEF Fails, Quiet, Aside, world, Persist, Goto, Shapes, Fields, Endings, Idle, Over
<1> QED BY <1>2, QuietOps

-----------------------------------------------------------------------------
(* reconcile().                                                                *)
LEMMA StagesOps ==
  ASSUME IInv, OInv,
         \/ CallReconcile \/ Nest("reconcile") \/ RecoverCalls \/ CheckOperations \/ Unanswered
         \/ EndOperations \/ ReconcileEffects \/ Proceed \/ Covered
  PROVE  OInv'
<1> USE OpsAre
<1> DEFINE o == "reconcile"
<1>1. Shapes /\ backend' = backend /\ o \in Ops
  BY DEF IInv, CallReconcile, Nest, RecoverCalls, CheckOperations, Unanswered, EndOperations, ReconcileEffects,
         Proceed, Covered, world
<1>2. CASE Throw(o)
  BY <1>1, <1>2, ThrowOps
<1>3. CASE ~Throw(o)
  <2>1. PICK to \in {<<"admission">>, <<"lifecycle">>, <<"recovered">>, <<"operations">>, <<"effects">>,
                     <<"restore">>, <<"confirm">>, Idle} : Goto(o, to)
    BY <1>3 DEF CallReconcile, Nest, RecoverCalls, CheckOperations, Unanswered, EndOperations, ReconcileEffects,
                Proceed, Covered, Resume
  <2>2. /\ st'.ops = st.ops /\ saved' \in {saved, st'}
        /\ st'.status = st.status \/ st'.status \notin Endings
    <3>1. CASE RecoverCalls
      <4>1. ASSUME NEW r \in WithRuns(WithSteps(st)) PROVE r.ops = st.ops /\ r.status = st.status
        <5> DEFINE s == WithSteps(st)
        <5>1. DOMAIN s = Fields /\ s.ops = st.ops /\ s.status = st.status
          BY <1>1 DEF WithSteps, Shapes, Fields
        <5> HIDE DEF s
        <5>2. PICK runs, unknown, e : r = [s EXCEPT !.runs = runs, !.unknown = unknown, !.evidence = e]
          BY <4>1 DEF WithRuns, s
        <5> QED BY <5>1, <5>2 DEF Fields
      <4> QED BY <1>3, <3>1, <4>1 DEF RecoverCalls, attempt, Persist
    <3>2. CASE ReconcileEffects \/ Covered
      BY <1>1, <1>3, <3>2 DEF ReconcileEffects, Covered, Resume, attempt, Persist, Shapes, Fields, Endings
    <3> QED BY <1>3, <3>1, <3>2 DEF CallReconcile, Nest, CheckOperations, Unanswered, EndOperations, Proceed, attempt
  <2>3. pc'[o] = to /\ \A q \in Ops \ {o} : pc'[q] = pc[q]
    BY <1>1, <2>1, Gone
  <2>4. Quiet(o)
    BY <1>1, <2>2, <2>3 DEF Quiet, Aside, Idle
  <2> QED BY <1>1, <2>4, QuietOps
<1> QED BY <1>2, <1>3

(* The backend's receipt, or its proof that there is none, is what it says.      *)
LEMMA SettlementOps ==
  ASSUME IInv, OInv, NEW key, ReconcileOperation(key)
  PROVE  OInv'
<1> USE OpsAre
<1> DEFINE o == "reconcile"
           v == IF key \in backend.receipts THEN "receipt" ELSE "absent"
<1>1. /\ Shapes /\ Exclusive /\ o \in Methods /\ backend' = backend /\ pc[o][1] = "operations"
  BY DEF IInv, ReconcileOperation, At, world, Methods
<1>2. Holds(lifecycle, o)
  BY <1>1 DEF Exclusive, InLifecycle, Outside
<1>3. Turns(key, v) /\ st'.status = st.status /\ saved' \in {saved, st'} /\ Proper(key, v)
  BY <1>1 DEF ReconcileOperation, Receipted, WithOp, Shapes, Fields, Turns, Proper
<1>4. pc'[o][1] \in {"operations", "idle"} /\ \A q \in Ops \ {o} : pc'[q] = pc[q]
  BY <1>1 DEF ReconcileOperation, Goto, Shapes, Idle
<1> HIDE DEF v
<1> QED BY <1>1, <1>2, <1>3, <1>4, TurnOps DEF Aside

LEMMA RestoreOps ==
  ASSUME IInv, OInv, Reopen \/ Restart \/ Confirm \/ Redone
  PROVE  OInv'
<1> USE OpsAre
<1> DEFINE o == "reconcile"
<1>0. At(o, "confirm") => ~Completed
  BY DEF IInv, Ended, Resuming, Completed, At
<1>1. /\ Shapes /\ Exclusive /\ Tells(st) /\ o \in Methods /\ backend' = backend
      /\ At(o, "confirm") => ~Completed
  BY <1>0 DEF IInv, OInv, Ledger, Reopen, Restart, Confirm, Redone, world, Methods
<1>2. CASE Throw(o)
  BY <1>1, <1>2, ThrowOps
<1>3. CASE Reopen /\ Begin(o, st, NextKey("open"))
  <2>1. Holds(lifecycle, o) /\ ~Completed
    BY <1>1, <1>3 DEF Reopen, Restoring, Reopens, At, Exclusive, InLifecycle, Outside, Completed
  <2>2. ASSUME NEW k \in Opens PROVE FALSE
    <3>1. k \in DOMAIN st.ops /\ st.ops[k] \in {"started", "refused", "receipt"}
      BY <1>1, <2>2 DEF Opens, Tells
    <3> QED BY <1>3, <2>2, <3>1 DEF Reopen, Reopens, Resolved, NeverOpened, HasReceipt, StartedOps, Undecided, Opens
  <2> QED BY <1>1, <1>3, <2>1, <2>2, BeginOps
<1>4. CASE Restart /\ Begin(o, st, NextKey("start"))
  <2>1. Holds(lifecycle, o) /\ ~Completed
    BY <1>1, <1>4 DEF Restart, Restoring, At, Exclusive, InLifecycle, Outside, Completed
  <2>2. NextKey("start")[1] = "start"
    BY DEF NextKey
  <2> QED BY <1>1, <1>4, <2>1, <2>2, BeginOps
<1>5. CASE Confirm /\ Begin(o, st, OwnKey)
  <2>1. Holds(lifecycle, o) /\ ~Completed
    BY <1>1, <1>5 DEF Confirm, At, Exclusive, InLifecycle, Outside
  <2>2. OwnKey[1] = "evidence"
    BY DEF OwnKey
  <2> QED BY <1>1, <1>5, <2>1, <2>2, BeginOps
<1>6. CASE Confirm /\ Goto(o, Idle) /\ st'.status \in {"blocked", "running", "verifying"} /\ st'.ops = st.ops /\ saved' \in {saved, st'}
  <2>1. Quiet(o)
    BY <1>1, <1>6 DEF Quiet, Aside, Goto, Shapes, Idle, Endings
  <2> QED BY <1>1, <2>1, QuietOps
<1>7. CASE Redone
  <2>1. /\ At(o, "answered") /\ Goto(o, Onward[pc[o][2][1]])
        /\ Onward[pc[o][2][1]] \in {<<"restore">>, <<"confirm">>, <<"covered">>}
    BY <1>7 DEF IInv, Redone, At, Keyed, KeyedAt, Kinds, Onward
  <2> QED BY <1>1, <1>7, <2>1, ReceiptOps DEF Redone
<1>8. CASE Confirm /\ ~Throw(o) /\ ~Begin(o, st, OwnKey)
  <2>1. Goto(o, Idle) /\ st'.status \in {"blocked", "running", "verifying"} /\ st'.ops = st.ops /\ saved' \in {saved, st'}
    BY <1>1, <1>8 DEF Confirm, Resume, Persist, Shapes, Fields
  <2> QED BY <1>6, <1>8, <2>1
<1> QED BY <1>2, <1>3, <1>4, <1>5, <1>7, <1>8 DEF Reopen, Restart

LEMMA AdoptOps ==
  ASSUME IInv, OInv, Adopt \/ AdoptCompletion
  PROVE  OInv'
<1> USE OpsAre
<1> DEFINE o == "reconcile"
<1>1. Shapes /\ Tells(st) /\ o \in Methods /\ backend' = backend
  BY DEF IInv, OInv, Ledger, Adopt, AdoptCompletion, world, Methods
<1>2. CASE Throw(o)
  BY <1>1, <1>2, ThrowOps
<1>3. CASE ~Throw(o)
  <2>1. PICK status : /\ Persist([st EXCEPT !.status = status]) /\ Goto(o, Idle)
                      /\ Earned(status)
    <3>1. CASE Adopt
      <4>1. PICK key \in DOMAIN st.ops : key[1] = TerminalKind[backend.status] /\ st.ops[key] = "receipt"
        BY <3>1 DEF Adopt, Adopts, HasReceipt
      <4>2. key \in backend.receipts /\ backend.status \in {"released", "needs_review", "blocked"}
        BY <1>1, <3>1, <4>1 DEF Adopt, Adopts, TerminalKind, Tells
      <4>3. Earned(backend.status)
        BY <4>1, <4>2 DEF Earned, Ends, Endings, Submitted, TerminalKind
      <4> QED BY <3>1, <4>3 DEF Adopt
    <3>2. CASE AdoptCompletion
      <4>1. Earned("completed")
        BY <1>1, <1>3, <3>2 DEF AdoptCompletion, HasReceipt, Tells, Earned, Ends, Submitted
      <4> QED BY <1>3, <3>2, <4>1 DEF AdoptCompletion
    <3> QED BY <3>1, <3>2
  <2>2. st'.ops = st.ops /\ saved' \in {saved, st'} /\ st'.status = status
    BY <1>1, <2>1 DEF Persist, Shapes, Fields
  <2>3. pc'[o] = Idle /\ \A q \in Ops \ {o} : pc'[q] = pc[q]
    BY <1>1, <2>1, Gone
  <2>4. UnderWay(o)'
    BY <2>3 DEF UnderWay, At, Idle
  <2> QED BY <1>1, <2>1, <2>2, <2>3, <2>4, OpsKeep DEF OpsStep
<1> QED BY <1>2, <1>3

-----------------------------------------------------------------------------
(* The backend takes an operation.                                             *)
LEMMA TakenOps ==
  ASSUME IInv, OInv, NEW o \in Methods, At(o, "dispatch"), NEW key, key = pc[o][2],
         key \notin backend.receipts, Legal(backend, key[1]), backend' = After(backend, key, EvidenceOf(key)),
         NEW to, Goto(o, to), to \in {<<"answered", key>>, <<"failed", key>>}, UNCHANGED attempt
  PROVE  OInv'
<1> USE OpsAre, MethodsAre
<1> DEFINE kind == key[1]
<1>1. Shapes /\ Exclusive /\ Keyed /\ Ledger /\ Orderly /\ \A q \in Methods : UnderWay(q)
  BY DEF IInv, OInv
<1>2. /\ kind \in {"open", "start", "heartbeat", "evidence", "complete", "review", "release"}
      /\ kind = "open" => o \in {"start", "reconcile"}
      /\ kind = "complete" => o = "finish"
  BY <1>1 DEF At, Keyed, KeyedAt, Kinds
<1>3. /\ backend'.receipts = backend.receipts \cup {key}
      /\ backend'.status = IF kind \in DOMAIN Submitted THEN Submitted[kind] ELSE backend.status
      /\ backend'.held = ((backend.held \/ kind = "open") /\ kind # "release")
  BY <1>1 DEF After, Shapes
<1>4. /\ ~Completed /\ (Completed' => kind = "complete")
      /\ kind = "open" => Opens = {} /\ backend.receipts = {}
      /\ kind # "open" => backend.held /\ backend.status \in {"claimed", "running"}
  <2>1. kind = "open" => Opens = {} /\ backend.receipts = {}
    BY <1>1 DEF UnderWay, Orderly
  <2>2. ~Completed /\ (kind # "open" => backend.held /\ backend.status \in {"claimed", "running"})
    BY <1>2 DEF Legal, Claimable, Owned, Completed
  <2>3. Completed' => kind = "complete"
    BY <1>2, <1>3, <2>2 DEF Completed, Submitted
  <2> QED BY <2>1, <2>2, <2>3
<1>5. \A k \in backend.receipts : k[1] \notin Ends
  BY <1>1, <1>4 DEF Orderly, Ends, Submitted
<1>6. Begun(st, key) /\ Begun(saved, key)
  BY <1>1, <1>4 DEF UnderWay
<1>7. ASSUME NEW s \in {st, saved} PROVE (Tells(s) /\ Settled(s) /\ Earned(s.status))'
  <2>1. Tells(s) /\ Earned(s.status) /\ Begun(s, key) /\ s' = s
    BY <1>1, <1>6 DEF Ledger, attempt
  <2>2. Tells(s)'
    BY <1>3, <2>1 DEF Tells, Begun
  <2>3. Settled(s)'
    <3>1. SUFFICES ASSUME Completed', NEW k \in DOMAIN s.ops, s.ops[k] = "started" PROVE k[1] = "complete"
      BY <2>1 DEF Settled
    <3>2. o = "finish" /\ StartedOps(st) \subseteq {key} /\ saved.ops = st.ops /\ kind = "complete"
      BY <1>1, <1>2, <1>4, <3>1 DEF UnderWay, At
    <3> QED BY <3>1, <3>2 DEF StartedOps, Undecided
  <2>4. Earned(s.status)'
    BY <1>5, <2>1 DEF Earned
  <2> QED BY <2>2, <2>3, <2>4
<1>8. Ledger'
  <2>1. st' = st /\ saved' = saved
    BY DEF attempt
  <2> QED BY <1>7, <2>1 DEF Ledger
<1>9. Opens' = IF kind = "open" THEN {key} ELSE Opens
  BY <1>3, <1>4 DEF Opens
<1>10. Orderly'
  BY <1>1, <1>2, <1>3, <1>4, <1>5, <1>9 DEF Orderly, Ends, Submitted
<1>11. ASSUME NEW q \in Methods PROVE UnderWay(q)'
  <2>1. CASE q = o
    BY <1>1, <1>3, <2>1, Gone DEF UnderWay, At
  <2>2. CASE q # o
    <3>1. UnderWay(q) /\ pc'[q] = pc[q] /\ st' = st /\ saved' = saved /\ Holds(lifecycle, o)
      BY <1>1, <2>2, Gone DEF attempt, Exclusive, At
    <3>2. /\ ~At(q, "dispatch") /\ ~(q = "finish" /\ At(q, "finalizing")) /\ ~(q = "renew" /\ At(q, "checked"))
      BY <1>1, <2>2, <3>1 DEF Exclusive, Holds, At
    <3>3. q = "start" /\ At(q, "claim") => kind # "open"
      BY <1>1, <1>2, <2>2 DEF Exclusive, InAdmissions, Outside, Holds, At
    <3> QED BY <1>3, <1>9, <3>1, <3>2, <3>3 DEF UnderWay, At
  <2> QED BY <2>1, <2>2
<1> QED BY <1>8, <1>10, <1>11 DEF OInv

LEMMA DispatchOps ==
  ASSUME IInv, OInv, NEW o \in Methods, Dispatch(o)
  PROVE  OInv'
<1> USE OpsAre, MethodsAre
<1> DEFINE key == pc[o][2]
<1>1. Shapes /\ At(o, "dispatch") /\ st' = st /\ saved' = saved /\ UNCHANGED attempt
  BY DEF IInv, Dispatch, attempt
<1>2. PICK to \in {<<"answered", key>>, <<"failed", key>>} : Goto(o, to)
  BY DEF Dispatch
<1>3. pc'[o] = to /\ \A q \in Ops \ {o} : pc'[q] = pc[q]
  BY <1>1, <1>2, Gone
<1>4. CASE backend' = backend /\ (to[1] = "failed" \/ key \in backend.receipts)
  <2>1. UnderWay(o)'
    BY <1>2, <1>3, <1>4 DEF UnderWay, At
  <2> QED BY <1>1, <1>3, <1>4, <2>1, OpsKeep DEF OpsStep
<1>5. CASE key \notin backend.receipts /\ Legal(backend, key[1]) /\ backend' = After(backend, key, EvidenceOf(key))
  BY <1>1, <1>2, <1>5, TakenOps
<1>6. (to[1] = "failed" /\ backend' = backend) \/ backend' \in Taken(key)
  BY <1>1, <1>2, <1>3 DEF Dispatch, Goto, Shapes
<1> QED BY <1>4, <1>5, <1>6 DEF Taken

-----------------------------------------------------------------------------
(* The world, crashes and shutdown.                                            *)
LEMMA OtherOps ==
  ASSUME IInv, OInv, OtherMoves
  PROVE  OInv'
<1> USE OpsAre, MethodsAre
<1>1. Shapes /\ Ledger /\ Orderly /\ \A o \in Methods : UnderWay(o)
  BY DEF IInv, OInv
<1>2. CASE pc' = pc /\ UNCHANGED <<attempt, backend>>
  <2>1. st' = st /\ saved' = saved /\ backend' = backend
    BY <1>2 DEF attempt
  <2> QED BY <1>1, <1>2, <2>1 DEF OInv, Ledger, Tells, Settled, Earned, Orderly, Opens, UnderWay, At, Begun, Completed, StartedOps
<1>3. CASE Expire \/ Foreign
  <2>1. st' = st /\ saved' = saved /\ pc' = pc /\ backend'.receipts = backend.receipts
    BY <1>1, <1>3 DEF Expire, Foreign, attempt, Shapes
  <2>2. /\ (Completed' <=> Completed)
        /\ backend'.status = backend.status \/ backend.status \in {"claimed", "running"}
        /\ backend'.held => backend.held
    BY <1>1, <1>3 DEF Expire, Foreign, Shapes, Completed
  <2>3. Ledger'
    BY <1>1, <2>1, <2>2 DEF Ledger, Tells, Settled, Earned, Endings
  <2>4. Opens' = Opens /\ Orderly'
    BY <1>1, <2>1, <2>2 DEF Orderly, Opens, Ends, Submitted
  <2>5. \A o \in Methods : UnderWay(o)'
    BY <1>1, <2>1, <2>2, <2>4 DEF UnderWay, At, Begun, StartedOps
  <2> QED BY <2>3, <2>4, <2>5 DEF OInv
<1>4. CASE CallShutdown \/ ShutdownGoes \/ CallStart
  <2>1. PICK o \in {"shutdown", "start"} :
          /\ UNCHANGED <<attempt, backend>>
          /\ \E to \in {<<"drain", Inflight>>, <<"admission">>, <<"admitted">>, <<"lifecycle">>, Stopped} : Goto(o, to)
    BY <1>4 DEF CallShutdown, ShutdownGoes, DrainCalls, DrainAdmissions, AwaitLifecycle, GiveUp, CallStart, world
  <2>2. Quiet(o)
    BY <1>1, <2>1, Gone DEF Quiet, Aside, attempt, Stopped
  <2> QED BY <2>2, QuietOps
<1>5. Environment \/ UNCHANGED vars \/ (\E s \in Steps : Effect(s)) =>
        Expire \/ Foreign \/ (pc' = pc /\ UNCHANGED <<attempt, backend>>)
  BY DEF Environment, Revoke, Edit, Effect, vars, world
<1> QED BY <1>2, <1>3, <1>4, <1>5 DEF OtherMoves

LEMMA CrashOps ==
  ASSUME IInv, OInv, Crash
  PROVE  OInv'
<1> USE MethodsAre
<1>1. Shapes /\ Ledger /\ Orderly
  BY DEF IInv, OInv
<1>2. saved' = saved /\ backend' = backend /\ \A o \in Ops : pc'[o] \in {Idle, Over}
  BY DEF Crash, world
<1>3. st'.ops = saved.ops /\ st'.status \in {saved.status, "reconciliation_required"}
  BY <1>1 DEF Crash, Revived, Shapes, Fields
<1>4. Ledger'
  BY <1>1, <1>2, <1>3 DEF Ledger, Tells, Settled, Earned, Endings, Completed
<1>5. Orderly'
  BY <1>1, <1>2 DEF Orderly, Opens
<1>6. \A o \in Methods : UnderWay(o)'
  BY <1>2 DEF UnderWay, At, Idle, Over
<1> QED BY <1>4, <1>5, <1>6 DEF OInv

LEMMA OpsInit == AnyInit => OInv
<1> SUFFICES ASSUME AnyInit PROVE OInv
  OBVIOUS
<1>1. /\ st = Absent /\ saved = Absent /\ backend = Untouched /\ \A o \in Ops : pc[o] \in {Idle, Over}
  BY DEF AnyInit, InitWith
<1>2. backend.receipts = {} /\ ~backend.held /\ DOMAIN Absent.ops = {} /\ Absent.status = "absent"
  BY <1>1 DEF Untouched, Absent, Prepared
<1>3. Ledger /\ Orderly
  BY <1>1, <1>2 DEF Ledger, Tells, Settled, Earned, Endings, Orderly, Opens
<1>4. \A o \in Methods : UnderWay(o)
  BY <1>1, MethodsAre DEF UnderWay, At, Idle, Over
<1> QED BY <1>3, <1>4 DEF OInv

LEMMA OpsStepKeeps ==
  ASSUME IInv, OInv, [Next]_vars
  PROVE  OInv'
<1> USE OpsAre
<1>1. CASE MethodMoves
  <2>1. CASE \E o \in Methods : Fails(o)
    BY <2>1, FailsOps
  <2>2. CASE Claim \/ Claimed \/ Starting \/ Started \/ Running \/ CallRenew \/ CheckRenew \/ Heartbeat \/ Renewed
    BY <2>2, StartOps, RenewOps
  <2>3. CASE \E s \in Steps : CallStep(s) \/ CheckStep(s) \/ SettleStep(s)
    BY <2>3, StepOps
  <2>4. CASE \E v \in Verifs : \/ CallVerify(v) \/ CheckVerify(v) \/ AdmitVerify(v) \/ RegisterRun(v)
                               \/ DoubtRun(v) \/ StoreEvidence(v) \/ AwaitSubmit(v) \/ Submit(v)
                               \/ SubmittedEvidence(v)
    BY <2>4, VerifyOps, SubmitOps
  <2>5. CASE CallFinish \/ Nest("finish") \/ Finalize \/ Dispose \/ Disposed \/ Readback
    BY <2>5, FinalizeOps, DisposeOps, ReadbackOps
  <2> QED BY <1>1, <2>1, <2>2, <2>3, <2>4, <2>5 DEF MethodMoves, Methods
<1>2. CASE ReconcileMoves
  BY <1>2, StagesOps, SettlementOps, RestoreOps, AdoptOps DEF ReconcileMoves
<1>3. CASE \E o \in Methods : Dispatch(o)
  BY <1>3, DispatchOps
<1>4. CASE (\E s \in Steps : AdmitStep(s)) \/ Prepare \/ Crash
  BY <1>4, StepOps, PrepareOps, CrashOps
<1>5. Moves
  BY NextMoves
<1> QED BY <1>1, <1>2, <1>3, <1>4, <1>5, RunOps, OtherOps DEF Moves, Methods

-----------------------------------------------------------------------------
(* Whatever replies are lost, calls race and processes die, the backend was made  *)
(* to do what one attempt asked for: one claim, an ending of its own, and no       *)
(* operation in doubt behind a completion (finish, reconcile, restoreLifecycle).   *)
THEOREM OneAttemptsOperations == AnySpec => []BackendOperations
<1>1. ASSUME OInv PROVE BackendOperations
  <2>1. Ledger /\ Orderly
    BY <1>1 DEF OInv
  <2>2. OneClaim
    <3>1. CASE Opens = {}
      BY <3>1, FS_EmptySet DEF OneClaim, Opens
    <3>2. CASE Opens # {}
      <4>1. PICK k \in Opens : Opens = {k}
        BY <2>1, <3>2 DEF Orderly
      <4>2. Cardinality({k}) = 1
        BY FS_Singleton
      <4> QED BY <4>1, <4>2 DEF OneClaim, Opens
    <3> QED BY <3>1, <3>2
  <2>3. OwnEnding
    BY <2>1 DEF OwnEnding, Ledger, Earned, Endings, Ends, Submitted
  <2>4. NoUnknownOperation
    BY <2>1 DEF NoUnknownOperation, Ledger, Settled, Completed
  <2> QED BY <2>2, <2>3, <2>4 DEF BackendOperations
<1>2. IInv /\ OInv /\ [Next]_vars => OInv'
  BY OpsStepKeeps
<1> QED BY <1>1, <1>2, OpsInit, Invariance, PTL DEF AnySpec
-----------------------------------------------------------------------------
(* How shutdown() comes to the end of what is under way.                       *)
Before(m, c) == \E i \in 1..Len(m) : m[i] = c /\ \A j \in 1..i : m[j] # "shutdown"
Vacant(m)    == \A i \in 1..Len(m) : m[i] # "shutdown"
Shutting     == pc["shutdown"][1]
Early        == {"idle", "over", "drain"}
Runs(c)      == c \in Calls /\ pc[c][1] \in {"entered", "uncertain", "published"}
Settles      == {"settle", "store", "doubt"}

\* Overtaken before it was in flight, and refused by its policy since.
Late(c) == c \in Steps /\ At(c, "settle") /\ exec[c] = "rejected"

\* Who is to settle is ahead of it in the queue, or late.
InLine ==
  /\ pc["shutdown"] \in {Idle, Over, Stopped, <<"admission">>, <<"admitted">>, <<"lifecycle">>} \/ Shutting = "drain"
  /\ Shutting \in Early => Vacant(admissions)
  /\ Shutting \in Early \cup {"admission"} =>
       \A c \in Calls : pc[c][1] \in Settles => Before(admissions, c) \/ Late(c)
\* Whose handler may run is waited for.
Awaited ==
  /\ Shutting = "drain" => \A c \in Calls : Runs(c) => c \in pc["shutdown"][2]
  /\ Shutting \notin Early => \A c \in Calls : ~Runs(c)
\* Behind the first mutex nobody is past his admission, behind the second
\* nobody is at the backend.
Past ==
  /\ Shutting \in {"admitted", "lifecycle", "stopped"} =>
       /\ \A c \in Calls : pc[c][1] \in Settles => Late(c)
       /\ \A v \in Verifs : ~At(v, "checked")
       /\ pc["start"][1] \in Outside
       /\ pc["finish"][1] \in Outside \cup {"lifecycle"} /\ pc["reconcile"][1] \in Outside \cup {"lifecycle"}
  /\ Shutting = "stopped" => \A o \in Methods : ~InLifecycle(o)
SInv == InLine /\ Awaited /\ Past

(* Places in a queue.                                                          *)
LEMMA BeforeIs ==
  ASSUME NEW m \in Seq(Ops), NEW c \in Ops \ {"shutdown"}
  PROVE  /\ Vacant(m) => Before(Append(m, c), c) /\ Vacant(Append(m, c))
         /\ \A o \in Ops : Before(m, c) => Before(Append(m, o), c)
         /\ m # <<>> /\ Vacant(m) => Vacant(Tail(m))
         /\ Before(m, c) /\ Head(m) # c => Before(Tail(m), c)
         /\ Holds(m, "shutdown") => ~Before(m, c)
<1>1. ASSUME NEW o \in Ops
      PROVE  /\ Len(Append(m, o)) = Len(m) + 1 /\ Append(m, o)[Len(m) + 1] = o
             /\ \A i \in 1..Len(m) : Append(m, o)[i] = m[i]
  BY AppendProperties
<1>2. Len(m) \in Nat
  BY LenProperties
<1>3. Vacant(m) => Before(Append(m, c), c) /\ Vacant(Append(m, c))
  <2> SUFFICES ASSUME Vacant(m) PROVE Before(Append(m, c), c) /\ Vacant(Append(m, c))
    OBVIOUS
  <2>1. \A j \in 1..Len(m) + 1 : j \in 1..Len(m) \/ j = Len(m) + 1
    BY <1>2
  <2>2. \A j \in 1..Len(m) + 1 : Append(m, c)[j] # "shutdown"
    BY <1>1, <2>1 DEF Vacant
  <2>3. Len(m) + 1 \in 1..Len(m) + 1
    BY <1>2
  <2> QED BY <1>1, <2>2, <2>3 DEF Before, Vacant
<1>4. ASSUME NEW o \in Ops, Before(m, c) PROVE Before(Append(m, o), c)
  <2>1. PICK i \in 1..Len(m) : m[i] = c /\ \A j \in 1..i : m[j] # "shutdown"
    BY <1>4 DEF Before
  <2>2. i \in 1..Len(m) + 1 /\ \A j \in 1..i : j \in 1..Len(m)
    BY <1>2
  <2> QED BY <1>1, <2>1, <2>2 DEF Before
<1>5. m # <<>> => /\ Len(Tail(m)) = Len(m) - 1 /\ Head(m) = m[1] /\ Len(m) >= 1
                  /\ \A i \in 1..Len(m) - 1 : Tail(m)[i] = m[i + 1]
  BY <1>2, HeadTailProperties, EmptySeq
<1>6. m # <<>> /\ Vacant(m) => Vacant(Tail(m))
  <2>1. \A i \in 1..Len(m) - 1 : i + 1 \in 1..Len(m)
    BY <1>2
  <2> QED BY <1>5, <2>1 DEF Vacant
<1>7. ASSUME Before(m, c), Head(m) # c PROVE Before(Tail(m), c)
  <2>1. PICK i \in 1..Len(m) : m[i] = c /\ \A j \in 1..i : m[j] # "shutdown"
    BY <1>7 DEF Before
  <2>2. m # <<>>
    BY <1>2, <2>1, EmptySeq
  <2>3. i # 1
    BY <1>5, <1>7, <2>1, <2>2
  <2>4. i - 1 \in 1..Len(m) - 1 /\ \A j \in 1..i - 1 : j \in 1..Len(m) - 1 /\ j + 1 \in 1..i
    BY <1>2, <2>1, <2>3
  <2>5. Tail(m)[i - 1] = m[i]
    BY <1>2, <1>5, <2>2, <2>4
  <2>6. \A j \in 1..i - 1 : Tail(m)[j] # "shutdown"
    BY <1>5, <2>1, <2>2, <2>4
  <2> QED BY <1>5, <2>1, <2>2, <2>4, <2>5, <2>6 DEF Before
<1>8. Holds(m, "shutdown") => ~Before(m, c)
  <2>1. ASSUME Holds(m, "shutdown"), Before(m, c) PROVE FALSE
    <3>1. PICK i \in 1..Len(m) : \A j \in 1..i : m[j] # "shutdown"
      BY <2>1 DEF Before
    <3>2. 1 \in 1..i
      BY <1>2
    <3> QED BY <1>5, <2>1, <3>1, <3>2 DEF Holds
  <2> QED BY <2>1
<1> QED BY <1>3, <1>4, <1>6, <1>7, <1>8

(* A step of another method while shutdown() waits.                            *)
ShutStep(o) ==
  /\ \A q \in Ops \ {o} : pc'[q] = pc[q]
  /\ \A q \in Calls \ {o} : exec'[q] = exec[q]
  /\ admissions' \in Next1(admissions, o)
  /\ Runs(o)' => Runs(o) \/ ~Stopping
  /\ o \in Calls /\ pc'[o][1] \in Settles => (Runs(o) /\ admissions' = Queue(admissions, o)) \/ Late(o)'
  /\ o \in Verifs /\ pc'[o][1] = "checked" => ~Stopping
  /\ o = "start" /\ pc'[o][1] \notin Outside => pc[o][1] \notin Outside \/ ~Stopping
  /\ o \in {"finish", "reconcile"} /\ pc'[o][1] \notin Outside \cup {"lifecycle"} =>
       pc[o][1] \notin Outside \cup {"lifecycle"} \/ ~Stopping
  /\ o \in Methods /\ InLifecycle(o)' => InLifecycle(o) \/ ~Stopping

LEMMA ShutKeeps ==
  ASSUME IInv, SInv, NEW o \in Ops \ {"shutdown"}, ShutStep(o)
  PROVE  SInv'
<1> USE OpsAre
<1>1. /\ InLine /\ Awaited /\ Past /\ admissions \in Seq(Ops)
      /\ pc'["shutdown"] = pc["shutdown"] /\ \A q \in Ops \ {o} : pc'[q] = pc[q]
      /\ Shutting' = Shutting /\ "shutdown" \in Ops
  BY DEF IInv, Shapes, SInv, ShutStep, Shutting
<1>2. Shutting \notin {"idle", "over"} => Stopping
  BY DEF Stopping, Shutting, Idle, Over
<1>3. \A c \in Calls \ {o} : pc'[c] = pc[c] /\ (Late(c)' <=> Late(c)) /\ (Runs(c)' <=> Runs(c))
  BY <1>1 DEF ShutStep, Late, Runs, At
<1>4. ASSUME NEW q \in Ops \ {o, "shutdown"}, Before(admissions, q) PROVE Before(admissions, q)'
  <2>1. /\ admissions # <<>> => Tail(admissions) \in Seq(Ops)
        /\ Holds(admissions, o) => admissions # <<>> /\ Head(admissions) # q
    BY <1>1, <1>4, HeadTailProperties DEF Holds
  <2>2. Before(Queue(admissions, o), q)
    BY <1>1, <1>4, BeforeIs DEF Queue
  <2>3. ASSUME Holds(admissions, o)
        PROVE  Before(Tail(admissions), q) /\ Before(Queue(Tail(admissions), o), q)
    <3>1. Before(Tail(admissions), q)
      BY <1>1, <1>4, <2>1, <2>3, BeforeIs
    <3> QED BY <2>1, <2>3, <3>1, BeforeIs DEF Queue
  <2> QED BY <1>4, <2>2, <2>3 DEF ShutStep, Next1, Left
<1>5. ASSUME Vacant(admissions)
      PROVE  Vacant(admissions)' /\ (admissions' = Queue(admissions, o) => Before(admissions, o)')
  <2>1. admissions # <<>> => Tail(admissions) \in Seq(Ops) /\ Vacant(Tail(admissions))
    BY <1>1, <1>5, HeadTailProperties, BeforeIs
  <2>2. /\ Vacant(Queue(admissions, o)) /\ Before(Queue(admissions, o), o)
        /\ admissions # <<>> => Vacant(Queue(Tail(admissions), o))
    BY <1>1, <1>5, <2>1, BeforeIs DEF Queue
  <2> QED BY <1>5, <2>1, <2>2 DEF ShutStep, Next1, Left, Holds
<1>6. InLine'
  <2>1. Shutting \in Early => Vacant(admissions)'
    BY <1>1, <1>5 DEF InLine
  <2>2. ASSUME Shutting \in Early \cup {"admission"}, NEW c \in Calls, pc'[c][1] \in Settles
        PROVE  Before(admissions, c)' \/ Late(c)'
    <3>1. CASE c = o
      <4>1. CASE Shutting \in Early
        BY <1>1, <1>5, <2>2, <3>1, <4>1 DEF InLine, ShutStep
      <4>2. CASE Shutting \notin Early
        BY <1>1, <2>2, <3>1, <4>2 DEF Awaited, ShutStep
      <4> QED BY <4>1, <4>2
    <3>2. CASE c # o
      BY <1>1, <1>3, <1>4, <2>2, <3>2 DEF InLine
    <3> QED BY <3>1, <3>2
  <2> QED BY <1>1, <2>1, <2>2 DEF InLine
<1>7. Awaited'
  <2>1. ASSUME NEW c \in Calls, Stopping, Runs(c)' PROVE Runs(c)
    BY <1>3, <2>1 DEF ShutStep
  <2> QED BY <1>1, <1>2, <2>1 DEF Awaited, Early
<1>8. Past'
  <2>1. CASE Shutting \in {"admitted", "lifecycle", "stopped"}
    <3>1. Stopping /\ Shutting \notin Early
      BY <1>2, <2>1 DEF Early
    <3>2. \A c \in Calls : pc'[c][1] \in Settles => Late(c)'
      BY <1>1, <1>3, <2>1, <3>1 DEF Past, Awaited, ShutStep
    <3>3. \A v \in Verifs : pc'[v][1] # "checked"
      BY <1>1, <2>1, <3>1 DEF Past, ShutStep, At
    <3>4. /\ pc'["start"][1] \in Outside
          /\ pc'["finish"][1] \in Outside \cup {"lifecycle"} /\ pc'["reconcile"][1] \in Outside \cup {"lifecycle"}
      BY <1>1, <2>1, <3>1 DEF Past, ShutStep
    <3>5. Shutting = "stopped" => \A q \in Methods : ~InLifecycle(q)'
      <4>1. ASSUME NEW q \in Methods, Shutting = "stopped" PROVE ~InLifecycle(q)'
        <5>1. CASE q = o
          BY <1>1, <3>1, <4>1, <5>1 DEF Past, ShutStep
        <5>2. CASE q # o
          <6>1. pc'[q] = pc[q]
            BY <1>1, <5>2, MethodsAre
          <6> QED BY <1>1, <4>1, <6>1 DEF Past, InLifecycle
        <5> QED BY <5>1, <5>2
      <4> QED BY <4>1
    <3> QED BY <1>1, <3>2, <3>3, <3>4, <3>5 DEF Past, At
  <2> QED BY <1>1, <2>1 DEF Past
<1> QED BY <1>6, <1>7, <1>8 DEF SInv

(* Who has returned from shutdown() finds everybody at rest.                    *)
Rest(o) ==
  CASE o = "start" -> Outside
    [] o = "renew" -> {"idle", "over", "lifecycle"}
    [] OTHER -> Outside \cup {"lifecycle"}
Leading == {"start", "renew", "finish", "reconcile"}
LEMMA StoppedIs ==
  ASSUME SInv, pc["shutdown"] = Stopped
  PROVE  /\ Stopping
         /\ \A o \in Leading : pc[o][1] \in Rest(o)
         /\ \A c \in Calls : (pc[c][1] \in Settles => Late(c)) /\ ~Runs(c)
         /\ \A v \in Verifs : pc[v][1] \notin {"checked", "dispatch", "answered", "failed"}
<1>1. Shutting = "stopped" /\ Stopping
  BY DEF Shutting, Stopped, Stopping, Idle, Over
<1>2. \A o \in Methods : ~InLifecycle(o)
  BY <1>1 DEF SInv, Past
<1>3. \A o \in Leading : pc[o][1] \in Rest(o)
  BY <1>1, <1>2 DEF SInv, Past, Leading, Rest, Methods, InLifecycle
<1>4. \A c \in Calls : (pc[c][1] \in Settles => Late(c)) /\ ~Runs(c)
  BY <1>1 DEF SInv, Past, Awaited, Early
<1>5. \A v \in Verifs : pc[v][1] \notin {"checked", "dispatch", "answered", "failed"}
  BY <1>1, <1>2 DEF SInv, Past, Methods, InLifecycle, At
<1> QED BY <1>1, <1>3, <1>4, <1>5

(* A step after which shutdown() ends as it should, and what is left after it.   *)
GivesUp(s) == exec[s] = "rejected" /\ st' = [st EXCEPT !.inflight = @ \ {s}]
Overtaken(v) == st' \in {[st EXCEPT !.runs = @ \cup {v}], [st EXCEPT !.runs = @ \ {v}]}
Silent ==
  /\ done' = done /\ backend'.receipts = backend.receipts /\ saved' \in {saved, st'}
  /\ st' = st \/ (\E v \in Verifs : Overtaken(v)) \/ \E s \in Steps : GivesUp(s)
Shuts == SInv' /\ (pc["shutdown"] = Stopped /\ pc'["shutdown"] = Stopped => Silent)

LEMMA LeadingShuts ==
  ASSUME IInv, SInv, NEW o \in Leading, \A q \in Ops \ {o} : pc'[q] = pc[q],
         admissions' \in Next1(admissions, o), exec' = exec,
         ~Stopping \/ InLifecycle(o) \/ pc'[o][1] \in Rest(o),
         pc["shutdown"] = Stopped => UNCHANGED <<attempt, backend, done>>
  PROVE  Shuts
<1> USE OpsAre
<1>1. /\ o \in Ops \ {"shutdown"} /\ o \notin Calls
  BY DEF Leading
<1>2. InLifecycle(o) => pc[o][1] \notin Rest(o)
  BY DEF Leading, InLifecycle, Rest
<1>3. InLifecycle(o)' => InLifecycle(o) \/ ~Stopping
  BY <1>1 DEF Leading, InLifecycle, Rest
<1>4. ShutStep(o)
  BY <1>1, <1>2, <1>3 DEF ShutStep, Leading, Rest, Runs
<1> QED BY <1>1, <1>4, ShutKeeps DEF Shuts, Silent, attempt

LEMMA StartShuts ==
  ASSUME IInv, SInv, CallStart \/ Prepare \/ Claim \/ Claimed \/ Starting \/ Started \/ Running
  PROVE  Shuts
<1> USE OpsAre
<1> DEFINE o == "start"
<1>1. PICK to : Goto(o, to)
  BY DEF CallStart, Prepare, Claim, Claimed, Starting, Started, Running, Begin, Intend, Throw
<1>2. pc'[o] = to /\ \A q \in Ops \ {o} : pc'[q] = pc[q]
  BY <1>1, Gone DEF IInv
<1>3. admissions' \in Next1(admissions, o) /\ backend' = backend /\ done' = done /\ exec' = exec
  BY DEF CallStart, Prepare, Claim, Claimed, Starting, Started, Running, Begin, Intend, Throw, Return, mutexes, Next1, world, calls
<1>4. ~Stopping \/ InLifecycle(o) \/ pc'[o][1] \in Rest(o)
  <2>1. CASE CallStart \/ Throw(o) \/ ~Stopping
    BY <1>2, <2>1, Gone DEF IInv, CallStart, Throw, Rest, Outside, Idle
  <2>2. CASE Claimed \/ Starting \/ Started \/ Running
    BY <2>2 DEF Claimed, Starting, Started, Running, InLifecycle, At, Outside
  <2> QED BY <2>1, <2>2 DEF Prepare, Claim, Begin
<1>5. ASSUME pc["shutdown"] = Stopped PROVE attempt' = attempt
  <2>1. Stopping /\ pc[o][1] \in Outside
    BY <1>5, StoppedIs DEF Leading, Rest
  <2> QED BY <2>1 DEF CallStart, Prepare, Claim, Claimed, Starting, Started, Running, Throw, attempt, At, Outside
<1> QED BY <1>2, <1>3, <1>4, <1>5, LeadingShuts DEF Leading

LEMMA RenewShuts ==
  ASSUME IInv, SInv, CallRenew \/ CheckRenew \/ Heartbeat \/ Renewed
  PROVE  Shuts
<1> USE OpsAre
<1> DEFINE o == "renew"
<1>1. PICK to : Goto(o, to)
  BY DEF CallRenew, CheckRenew, Heartbeat, Renewed, Intend, Throw
<1>2. pc'[o] = to /\ \A q \in Ops \ {o} : pc'[q] = pc[q]
  BY <1>1, Gone DEF IInv
<1>3. admissions' \in Next1(admissions, o) /\ backend' = backend /\ done' = done /\ exec' = exec
  BY DEF CallRenew, CheckRenew, Heartbeat, Renewed, Intend, Throw, Return, mutexes, Next1, world, calls
<1>4. ~Stopping \/ InLifecycle(o) \/ pc'[o][1] \in Rest(o)
  <2>1. CASE CallRenew \/ Throw(o) \/ ~Stopping
    BY <1>2, <2>1, Gone DEF IInv, CallRenew, Throw, Rest, Idle
  <2>2. CASE Heartbeat \/ Renewed
    BY <2>2 DEF Heartbeat, Renewed, InLifecycle, At
  <2> QED BY <2>1, <2>2 DEF CheckRenew
<1>5. ASSUME pc["shutdown"] = Stopped PROVE attempt' = attempt
  <2>1. Stopping /\ pc[o][1] \in {"idle", "over", "lifecycle"}
    BY <1>5, StoppedIs DEF Leading, Rest
  <2> QED BY <2>1 DEF CallRenew, CheckRenew, Heartbeat, Renewed, Throw, attempt, At
<1> QED BY <1>2, <1>3, <1>4, <1>5, LeadingShuts DEF Leading

LEMMA FinishShuts ==
  ASSUME IInv, SInv, CallFinish \/ Nest("finish") \/ Finalize \/ Dispose \/ Disposed \/ Readback
  PROVE  Shuts
<1> USE OpsAre
<1> DEFINE o == "finish"
<1>1. PICK to : Goto(o, to)
  BY DEF CallFinish, Nest, Finalize, Dispose, Disposed, Readback, Begin, Intend, Throw
<1>2. pc'[o] = to /\ \A q \in Ops \ {o} : pc'[q] = pc[q]
  BY <1>1, Gone DEF IInv
<1>3. admissions' \in Next1(admissions, o) /\ backend' = backend /\ done' = done /\ exec' = exec
  BY DEF CallFinish, Nest, Finalize, Dispose, Disposed, Readback, Begin, Intend, Throw, Return, mutexes, Next1, world, calls
<1>4. ~Stopping \/ InLifecycle(o) \/ pc'[o][1] \in Rest(o)
  <2>1. CASE CallFinish \/ Nest(o) \/ Throw(o) \/ ~Stopping
    BY <1>2, <2>1, Gone DEF IInv, CallFinish, Nest, Throw, Rest, Outside, Idle
  <2>2. CASE Dispose \/ Disposed \/ Readback
    BY <2>2 DEF Dispose, Disposed, Readback, InLifecycle, At, Outside
  <2> QED BY <2>1, <2>2 DEF Finalize, Finalizable
<1>5. ASSUME pc["shutdown"] = Stopped PROVE attempt' = attempt
  <2>1. Stopping /\ pc[o][1] \in Outside \cup {"lifecycle"}
    BY <1>5, StoppedIs DEF Leading, Rest
  <2> QED BY <2>1 DEF CallFinish, Nest, Finalize, Finalizable, Dispose, Disposed, Readback, Throw, attempt, At, Outside
<1> QED BY <1>2, <1>3, <1>4, <1>5, LeadingShuts DEF Leading

LEMMA ReconcileShuts ==
  ASSUME IInv, SInv, ReconcileMoves
  PROVE  Shuts
<1> USE OpsAre
<1> DEFINE o == "reconcile"
<1>1. (\E to : Goto(o, to)) \/ pc' = pc
  BY DEF ReconcileMoves, CallReconcile, Nest, RecoverCalls, CheckOperations, Unanswered, EndOperations,
         ReconcileEffects, Reopen, Restart, Adopt, AdoptCompletion, Proceed, Confirm, Redone, Covered, Resume,
         ReconcileOperation, Begin, Intend, Throw
<1>2. \A q \in Ops \ {o} : pc'[q] = pc[q]
  BY <1>1, Gone DEF IInv
<1>3. admissions' \in Next1(admissions, o) /\ backend' = backend /\ done' = done /\ exec' = exec
  BY DEF ReconcileMoves, CallReconcile, Nest, RecoverCalls, CheckOperations, Unanswered, EndOperations,
         ReconcileEffects, Reopen, Restart, Adopt, AdoptCompletion, Proceed, Confirm, Redone, Covered, Resume,
         ReconcileOperation, Begin, Intend, Throw, Return, mutexes, Next1, world, calls
<1>4. CASE CallReconcile \/ Nest(o) \/ RecoverCalls
  <2>1. ~Stopping \/ pc'[o][1] \in Rest(o)
    BY <1>4, Gone DEF IInv, CallReconcile, Nest, RecoverCalls, Throw, Rest, Outside, Idle
  <2>2. ASSUME pc["shutdown"] = Stopped PROVE attempt' = attempt
    BY <1>4, <2>2, StoppedIs DEF CallReconcile, Nest, RecoverCalls, Throw, attempt
  <2> QED BY <1>2, <1>3, <2>1, <2>2, LeadingShuts DEF Leading
<1>5. CASE ~(CallReconcile \/ Nest(o) \/ RecoverCalls)
  <2>1. pc[o][1] \notin Outside \cup {"lifecycle"}
    BY <1>5 DEF ReconcileMoves, CheckOperations, Unanswered, EndOperations,
         ReconcileEffects, Reopen, Restart, Adopt, AdoptCompletion, Proceed, Confirm, Redone, Covered,
         ReconcileOperation, Restoring, At, Outside
  <2>2. InLifecycle(o) /\ pc["shutdown"] # Stopped
    BY <2>1, StoppedIs DEF InLifecycle, Leading, Rest
  <2> QED BY <1>2, <1>3, <2>2, LeadingShuts DEF Leading
<1> QED BY <1>4, <1>5

LEMMA RunningShuts ==
  ASSUME IInv, SInv, NEW c \in Calls, NEW to, Goto(c, to), admissions' \in Next1(admissions, c),
         \A q \in Calls \ {c} : exec'[q] = exec[q], to[1] \notin Settles,
         to[1] \in {"entered", "uncertain", "published"} => Runs(c) \/ ~Stopping,
         c \in Verifs /\ to[1] = "checked" => ~Stopping,
         to[1] \in {"dispatch", "answered", "failed"} => ~Stopping \/ (c \in Verifs => InLifecycle(c)),
         pc["shutdown"] = Stopped => Silent
  PROVE  Shuts
<1> USE OpsAre
<1>1. pc'[c] = to /\ c \in Ops \ {"shutdown"} /\ c \notin Leading /\ \A q \in Ops \ {c} : pc'[q] = pc[q]
  BY Gone DEF IInv, Leading
<1>2. c \in Methods /\ InLifecycle(c)' => InLifecycle(c) \/ ~Stopping
  BY <1>1 DEF Methods, InLifecycle, Leading
<1>3. Runs(c)' => Runs(c) \/ ~Stopping
  BY <1>1 DEF Runs
<1>4. ShutStep(c)
  BY <1>1, <1>2, <1>3 DEF ShutStep, Leading
<1> QED BY <1>1, <1>4, ShutKeeps DEF Shuts

(* A call that waits to settle was running, or is late.                         *)
LEMMA SettlingShuts ==
  ASSUME IInv, SInv, NEW c \in Calls, NEW to, Goto(c, to), to[1] \in Settles,
         \A q \in Calls \ {c} : exec'[q] = exec[q], admissions' = Queue(admissions, c),
         UNCHANGED <<attempt, backend, done>>,
         Runs(c) \/ (c \in Steps /\ to = <<"settle">> /\ exec'[c] = "rejected")
  PROVE  Shuts
<1> USE OpsAre
<1>1. pc'[c] = to /\ c \in Ops \ {"shutdown"} /\ c \notin Leading /\ \A q \in Ops \ {c} : pc'[q] = pc[q]
  BY Gone DEF IInv, Leading
<1>2. ~Runs(c)' /\ (c \in Methods => ~InLifecycle(c)')
  BY <1>1 DEF Runs, Methods, InLifecycle, Leading, Settles
<1>3. Runs(c) \/ Late(c)'
  BY <1>1 DEF Late, At
<1>4. ShutStep(c)
  BY <1>1, <1>2, <1>3 DEF ShutStep, Leading, Next1, Settles
<1> QED BY <1>1, <1>4, ShutKeeps DEF Shuts, Silent, attempt

LEMMA StepShuts ==
  ASSUME IInv, SInv, NEW s \in Steps, CallStep(s) \/ CheckStep(s) \/ AdmitStep(s) \/ SettleStep(s)
  PROVE  Shuts
<1> USE OpsAre
<1>1. PICK to \in {<<"admission">>, <<"checked">>, <<"launch">>, Over} : Goto(s, to)
  <2>1. CASE Throw(s)
    BY <2>1 DEF Throw, Over
  <2>2. CASE ~Throw(s)
    BY <2>2 DEF CallStep, CheckStep, AdmitStep, SettleStep, Over
  <2> QED BY <2>1, <2>2
<1>2. admissions' \in Next1(admissions, s) /\ backend' = backend /\ done' = done /\ exec' = exec
  BY DEF CallStep, CheckStep, AdmitStep, SettleStep, Throw, Return, mutexes, Next1, world, calls
<1>3. ASSUME pc["shutdown"] = Stopped PROVE Silent
  <2>1. Stopping /\ (At(s, "settle") => exec[s] = "rejected")
    BY <1>3, StoppedIs DEF Settles, Late, At
  <2>2. CASE SettleStep(s)
    <3>1. Persist([st EXCEPT !.inflight = @ \ {s}, !.status = @, !.unknown = @])
      BY <2>1, <2>2 DEF SettleStep, Doubtful
    <3>2. [st EXCEPT !.inflight = @ \ {s}, !.status = @, !.unknown = @] = [st EXCEPT !.inflight = @ \ {s}]
      BY DEF IInv, Shapes, Fields
    <3>3. GivesUp(s) /\ saved' \in {saved, st'}
      BY <2>1, <2>2, <3>1, <3>2 DEF GivesUp, SettleStep, Persist
    <3> QED BY <1>2, <3>3 DEF Silent
  <2>3. CASE ~SettleStep(s)
    <3>1. attempt' = attempt
      BY <2>1, <2>3 DEF CallStep, CheckStep, AdmitStep, Throw
    <3> QED BY <1>2, <3>1 DEF Silent, attempt
  <2> QED BY <2>2, <2>3
<1> QED BY <1>1, <1>2, <1>3, RunningShuts DEF Settles, Over

LEMMA VerifyShuts ==
  ASSUME IInv, SInv, NEW v \in Verifs,
         \/ CallVerify(v) \/ CheckVerify(v) \/ AdmitVerify(v) \/ DoubtRun(v) \/ StoreEvidence(v)
         \/ AwaitSubmit(v) \/ Submit(v) \/ SubmittedEvidence(v) \/ Fails(v)
  PROVE  Shuts
<1> USE OpsAre
<1>1. PICK to : /\ Goto(v, to) /\ to[1] \in {"admission", "checked", "register", "stored", "submit", "over", "dispatch"}
                /\ to[1] \in {"checked", "dispatch"} => ~Stopping
  BY DEF CallVerify, CheckVerify, AdmitVerify, Drained, DoubtRun, StoreEvidence, AwaitSubmit, Submit,
         SubmittedEvidence, Fails, Begin, Intend, Throw, Over
<1>2. admissions' \in Next1(admissions, v) /\ backend' = backend /\ done' = done /\ exec' = exec
  <2>1. AdmitVerify(v) => Holds(admissions, v)
    BY DEF IInv, Exclusive, InAdmissions, AdmitVerify, At
  <2> QED BY <2>1 DEF CallVerify, CheckVerify, AdmitVerify, DoubtRun, StoreEvidence, AwaitSubmit, Submit,
                      SubmittedEvidence, Fails, Begin, Intend, Throw, Return, mutexes, Next1, world, calls
<1>3. ASSUME pc["shutdown"] = Stopped PROVE Silent
  <2>1. Stopping /\ pc[v][1] \notin Settles /\ pc[v][1] \notin {"checked", "dispatch", "answered", "failed"}
    BY <1>3, StoppedIs DEF Late
  <2>2. attempt' = attempt
    BY <2>1 DEF CallVerify, CheckVerify, AdmitVerify, DoubtRun, StoreEvidence, AwaitSubmit, Submit,
                SubmittedEvidence, Fails, Begin, Throw, At, Settles
  <2> QED BY <1>2, <2>2 DEF Silent, attempt
<1> QED BY <1>1, <1>2, <1>3, RunningShuts DEF Settles

(* verify() is overtaken between its admissions.                                *)
LEMMA RegisterShuts ==
  ASSUME IInv, SInv, NEW v \in Verifs, RegisterRun(v)
  PROVE  Shuts
<1> USE OpsAre
<1>1. PICK to \in {Over, <<"launch">>} : Goto(v, to)
  BY DEF RegisterRun
<1>2. admissions' \in Next1(admissions, v) /\ UNCHANGED <<backend, done, exec>>
  BY DEF RegisterRun, Return, Next1, world, calls
<1>3. Silent
  BY <1>2 DEF RegisterRun, Persist, Silent, Overtaken, attempt
<1> QED BY <1>1, <1>2, <1>3, RunningShuts DEF Settles, Over

LEMMA RunShuts ==
  ASSUME IInv, SInv, RunMoves
  PROVE  Shuts
<1> USE OpsAre
<1>1. ASSUME NEW c \in Calls, Launch(c) \/ TakeSlot(c) PROVE Shuts
  <2>1. /\ \E to \in {<<"queued">>, <<"slotted">>} : Goto(c, to)
        /\ UNCHANGED <<admissions, attempt, backend, done>> /\ \A q \in Calls \ {c} : exec'[q] = exec[q]
    BY <1>1 DEF IInv, Shapes, Launch, TakeSlot, mutexes, world, calls
  <2> QED BY <2>1, RunningShuts DEF Next1, Settles, Silent, attempt
<1>2. ASSUME NEW c \in Calls, Denied(c) PROVE Shuts
  <2>1. UNCHANGED <<backend, done>> /\ exec'[c] = "rejected" /\ \A q \in Calls \ {c} : exec'[q] = exec[q]
    BY <1>2 DEF IInv, Shapes, Denied, world
  <2>2. CASE c \in Steps
    <3>1. Goto(c, <<"settle">>) /\ admissions' = Queue(admissions, c) /\ attempt' = attempt
      BY <1>2, <2>2 DEF Denied
    <3> QED BY <2>1, <2>2, <3>1, SettlingShuts DEF Settles
  <2>3. CASE c \notin Steps
    <3>1. Goto(c, Over) /\ admissions' = admissions /\ c \in Verifs /\ Persist([st EXCEPT !.runs = @ \ {c}])
      BY <1>2, <2>3 DEF Denied
    <3>2. Silent
      BY <2>1, <3>1 DEF Persist, Silent, Overtaken
    <3> QED BY <2>1, <3>1, <3>2, RunningShuts DEF Next1, Settles, Over
  <2> QED BY <2>2, <2>3
<1>3. ASSUME NEW c \in Calls, Enter(c) PROVE Shuts
  <2>1. /\ Goto(c, <<"entered">>) /\ UNCHANGED <<admissions, attempt, backend, done, exec>>
        /\ ~Stopping
    BY <1>3 DEF Enter, Accepted, mutexes, world
  <2> QED BY <2>1, RunningShuts DEF Next1, Settles, Silent, attempt
<1>4. ASSUME NEW c \in Calls, Settle(c) \/ (c \in Verifs /\ UncertainRun(c)) \/ (c \in Steps /\ Published(c)) PROVE Shuts
  <2>1. /\ \E to \in {<<"settle">>, <<"store">>, <<"doubt">>} : Goto(c, to)
        /\ Runs(c) /\ admissions' = Queue(admissions, c) /\ UNCHANGED <<attempt, backend, done>>
        /\ \A q \in Calls \ {c} : exec'[q] = exec[q]
    BY <1>4 DEF IInv, Shapes, Settle, UncertainRun, Published, world, Runs, At
  <2> QED BY <2>1, SettlingShuts DEF Settles
<1>5. ASSUME NEW c \in Steps, UncertainStep(c) PROVE Shuts
  <2>1. /\ Goto(c, <<"uncertain">>) /\ admissions' = Queue(admissions, c) /\ UNCHANGED <<attempt, backend, done>>
        /\ Runs(c) /\ \A q \in Calls \ {c} : exec'[q] = exec[q]
    BY <1>5 DEF IInv, Shapes, UncertainStep, world, Runs, At
  <2> QED BY <2>1, RunningShuts DEF Next1, Settles, Silent, attempt
<1>6. ASSUME NEW s \in Steps, Publish(s) PROVE Shuts
  <2>1. /\ Goto(s, <<"published">>) /\ admissions' = Tail(admissions) /\ Holds(admissions, s) /\ exec' = exec
        /\ Runs(s)
    BY <1>6 DEF Publish, calls, Runs, At
  <2>2. pc["shutdown"] # Stopped
    BY <2>1, StoppedIs
  <2> QED BY <2>1, <2>2, RunningShuts DEF Next1, Settles
<1> QED BY <1>1, <1>2, <1>3, <1>4, <1>5, <1>6 DEF RunMoves, Execute

LEMMA BackendShuts ==
  ASSUME IInv, SInv, NEW o \in Methods, Dispatch(o) \/ (o \in Leading /\ Fails(o))
  PROVE  Shuts
<1> USE OpsAre, MethodsAre
<1>1. InLifecycle(o)
  <2>1. CASE Dispatch(o)
    BY <2>1 DEF Dispatch, At
  <2>2. CASE o \in Leading /\ Fails(o)
    BY <2>2 DEF Fails, Leading, InLifecycle, At, Outside
  <2> QED BY <2>1, <2>2
<1>2. pc["shutdown"] # Stopped
  BY <1>1, StoppedIs DEF SInv, Past, Shutting, Stopped
<1>3. admissions' \in Next1(admissions, o) /\ exec' = exec
  BY DEF Dispatch, Fails, Return, Next1, mutexes, calls
<1>4. PICK to : Goto(o, to) /\ to[1] \in {"answered", "failed", "idle", "over"}
  BY DEF Dispatch, Fails, Idle, Over
<1>5. CASE o \in Leading
  BY <1>1, <1>2, <1>3, <1>4, <1>5, LeadingShuts, Gone DEF IInv
<1>6. CASE o \in Verifs
  BY <1>1, <1>2, <1>3, <1>4, <1>6, RunningShuts DEF Settles
<1> QED BY <1>5, <1>6 DEF Methods, Leading

-----------------------------------------------------------------------------
(* shutdown() itself, crashes and the world.                                   *)
LEMMA OtherShuts ==
  ASSUME IInv, SInv, Environment \/ UNCHANGED vars \/ \E s \in Steps : Effect(s)
  PROVE  Shuts
<1> USE OpsAre
<1>1. UNCHANGED <<pc, attempt, admissions, exec>>
  BY DEF Environment, Expire, Foreign, Revoke, Edit, Effect, vars, mutexes, calls
<1>2. st' = st /\ saved' = saved /\ pc' = pc /\ admissions' = admissions /\ exec' = exec
  BY <1>1 DEF attempt
<1>3. SInv'
  BY <1>2 DEF SInv, InLine, Awaited, Past, Shutting, Runs, Late, At, InLifecycle, Early, Outside
<1>4. ASSUME pc["shutdown"] = Stopped PROVE done' = done /\ backend'.receipts = backend.receipts
  <2>1. \A s \in Steps : ~Effect(s)
    BY <1>4, StoppedIs DEF Effect, Runs, At
  <2> QED BY <2>1 DEF IInv, Shapes, Environment, Expire, Foreign, Revoke, Edit, vars, world
<1> QED BY <1>2, <1>3, <1>4 DEF Shuts, Silent

LEMMA ShutdownShuts ==
  ASSUME IInv, SInv, CallShutdown \/ ShutdownGoes
  PROVE  Shuts
<1> USE OpsAre, MethodsAre
<1> DEFINE o == "shutdown"
<1>1. /\ Shapes /\ Exclusive /\ InLine /\ Awaited /\ Past /\ admissions \in Seq(Ops)
      /\ UNCHANGED <<attempt, backend, done, exec>> /\ st' = st /\ saved' = saved
  BY DEF IInv, Shapes, SInv, CallShutdown, ShutdownGoes, DrainCalls, DrainAdmissions, AwaitLifecycle, GiveUp, world, attempt, calls
<1>2. PICK to : Goto(o, to) /\ to \in {<<"drain", Inflight>>, <<"admission">>, <<"admitted">>, <<"lifecycle">>, Stopped}
  BY DEF CallShutdown, ShutdownGoes, DrainCalls, DrainAdmissions, AwaitLifecycle, GiveUp
<1>3. /\ pc'[o] = to /\ \A q \in Ops \ {o} : pc'[q] = pc[q]
      /\ Shutting' = to[1]
      /\ \A c \in Calls : (Runs(c)' <=> Runs(c)) /\ (Late(c)' <=> Late(c)) /\ pc'[c] = pc[c]
      /\ \A q \in Methods : InLifecycle(q)' <=> InLifecycle(q)
  <2>1. pc'[o] = to /\ \A q \in Ops \ {o} : pc'[q] = pc[q]
    BY <1>1, <1>2, Gone
  <2>2. \A q \in Methods : InLifecycle(q)' <=> InLifecycle(q)
    BY <2>1 DEF Methods, InLifecycle
  <2> QED BY <1>1, <2>1, <2>2 DEF Shutting, Runs, Late, At
<1>4. CASE CallShutdown
  <2>1. Shutting = "idle" /\ to = <<"drain", Inflight>> /\ admissions' = admissions
    BY <1>2, <1>3, <1>4, Gone DEF IInv, CallShutdown, At, Shutting, mutexes
  <2>2. \A c \in Calls : Runs(c) => c \in Inflight
    BY DEF Runs, Inflight
  <2> QED BY <1>1, <1>3, <2>1, <2>2 DEF SInv, InLine, Awaited, Past, Early, At, Shuts, Silent, Stopped, Shutting
<1>5. CASE DrainCalls
  <2>1. /\ Shutting = "drain" /\ to = <<"admission">> /\ admissions' = Append(admissions, o)
        /\ pc[o][2] \cap Inflight = {}
    BY <1>2, <1>3, <1>5, Gone DEF IInv, DrainCalls, At, Shutting, Queue
  <2>2. \A c \in Calls : Runs(c) => c \in Inflight
    BY DEF Runs, Inflight
  <2>3. \A c \in Calls : ~Runs(c)
    BY <1>1, <2>1, <2>2 DEF Awaited
  <2>4. \A c \in Calls : Before(admissions, c) => Before(admissions', c)
    BY <1>1, <2>1, BeforeIs
  <2>5. \A c \in Calls : pc[c][1] \in Settles => Before(admissions', c) \/ Late(c)
    BY <1>1, <2>1, <2>4 DEF InLine, Early
  <2> QED BY <1>1, <1>3, <2>1, <2>3, <2>5 DEF SInv, InLine, Awaited, Past, Early, At, Shuts, Silent, Stopped, Shutting
<1>6. CASE DrainAdmissions
  <2>1. Shutting = "admission" /\ to = <<"admitted">> /\ Holds(admissions, o)
    BY <1>2, <1>3, <1>6, Gone DEF IInv, DrainAdmissions, At, Shutting
  <2>2. \A c \in Calls : ~Before(admissions, c)
    BY <1>1, <2>1, BeforeIs
  <2>3. \A c \in Calls : pc[c][1] \in Settles => Late(c)
    BY <1>1, <2>1, <2>2 DEF InLine
  <2>4. \A q \in Ops \ {o} : ~InAdmissions(q)
    BY <1>1, <2>1 DEF Exclusive, Holds
  <2>5. /\ \A v \in Verifs : ~At(v, "checked")
        /\ \A q \in {"start", "finish", "reconcile"} : pc[q][1] \in Outside
    BY <2>4 DEF InAdmissions
  <2> QED BY <1>1, <1>3, <2>1, <2>3, <2>5 DEF SInv, InLine, Awaited, Past, Early, At, Shuts, Silent, Stopped, Shutting
<1>7. CASE AwaitLifecycle
  <2>1. Shutting = "admitted" /\ to = <<"lifecycle">>
    BY <1>2, <1>3, <1>7, Gone DEF IInv, AwaitLifecycle, At, Shutting
  <2> QED BY <1>1, <1>3, <2>1 DEF SInv, InLine, Awaited, Past, Early, At, Shuts, Silent, Stopped, Shutting
<1>8. CASE GiveUp
  <2>1. Shutting = "lifecycle" /\ to = Stopped /\ Holds(lifecycle, o)
    BY <1>2, <1>3, <1>8, Gone DEF IInv, GiveUp, At, Shutting
  <2>2. \A q \in Methods : ~InLifecycle(q)
    BY <1>1, <2>1 DEF Exclusive, Holds, Methods
  <2> QED BY <1>1, <1>3, <2>1, <2>2 DEF SInv, InLine, Awaited, Past, Early, At, Shuts, Silent, Stopped, Shutting
<1> QED BY <1>4, <1>5, <1>6, <1>7, <1>8 DEF ShutdownGoes

LEMMA CrashShuts ==
  ASSUME IInv, SInv, Crash
  PROVE  Shuts
<1> USE OpsAre
<1>1. /\ admissions' = <<>> /\ saved' = saved /\ backend' = backend /\ done' = done
      /\ \A q \in Ops : pc'[q] \in {Idle, Over}
  BY DEF Crash, world
<1>2. Shutting' \in {"idle", "over"} /\ \A c \in Calls : pc'[c][1] \in {"idle", "over"}
  BY <1>1 DEF Shutting, Idle, Over
<1>3. InLine' /\ Awaited' /\ Past'
  BY <1>1, <1>2 DEF InLine, Awaited, Past, Early, Vacant, Settles, At, Shutting
<1>4. pc'["shutdown"] # Stopped
  BY <1>1 DEF Stopped, Idle, Over
<1> QED BY <1>3, <1>4 DEF Shuts, SInv

LEMMA ShutsInit == AnyInit => SInv
<1> USE OpsAre
<1> SUFFICES ASSUME AnyInit PROVE SInv
  OBVIOUS
<1>1. admissions = <<>> /\ \A q \in Ops : pc[q] \in {Idle, Over}
  BY DEF AnyInit, InitWith
<1>2. Shutting \in {"idle", "over"} /\ \A c \in Calls : pc[c][1] \in {"idle", "over"}
  BY <1>1 DEF Shutting, Idle, Over
<1> QED BY <1>1, <1>2 DEF SInv, InLine, Awaited, Past, Early, Vacant, Settles, At, Shutting

LEMMA StepsShut ==
  ASSUME IInv, SInv, [Next]_vars
  PROVE  Shuts
<1> USE OpsAre
<1>1. CASE MethodMoves
  <2>1. CASE \E o \in Leading : Fails(o)
    BY <2>1, BackendShuts DEF Leading, Methods
  <2>2. CASE Claim \/ Claimed \/ Starting \/ Started \/ Running \/ CallRenew \/ CheckRenew \/ Heartbeat \/ Renewed
    BY <2>2, StartShuts, RenewShuts
  <2>3. CASE \E s \in Steps : CallStep(s) \/ CheckStep(s) \/ SettleStep(s)
    BY <2>3, StepShuts
  <2>4. CASE \E v \in Verifs : \/ CallVerify(v) \/ CheckVerify(v) \/ AdmitVerify(v) \/ RegisterRun(v)
                               \/ DoubtRun(v) \/ StoreEvidence(v) \/ AwaitSubmit(v) \/ Submit(v)
                               \/ SubmittedEvidence(v) \/ Fails(v)
    BY <2>4, VerifyShuts, RegisterShuts
  <2>5. CASE CallFinish \/ Nest("finish") \/ Finalize \/ Dispose \/ Disposed \/ Readback
    BY <2>5, FinishShuts
  <2> QED BY <1>1, <2>1, <2>2, <2>3, <2>4, <2>5 DEF MethodMoves, Leading
<1>2. CASE \E o \in Methods : Dispatch(o)
  BY <1>2, BackendShuts
<1>3. CASE OtherMoves
  BY <1>3, OtherShuts, ShutdownShuts, StartShuts DEF OtherMoves
<1>4. CASE (\E s \in Steps : AdmitStep(s)) \/ Prepare \/ Crash
  BY <1>4, StepShuts, StartShuts, CrashShuts
<1>5. Moves
  BY NextMoves
<1> QED BY <1>1, <1>2, <1>3, <1>4, <1>5, ReconcileShuts, RunShuts DEF Moves, Methods

(* After shutdown() has returned no handler is entered and nothing is asked of    *)
(* the backend or done; and of the attempt nothing is written, but for the run of  *)
(* a verification overtaken between its admissions, and the giving up of a call    *)
(* overtaken before it was in flight (controller.ts:1165, 676, 571 and 746).       *)
THEOREM ShutdownIsFinal == AnySpec => QuietAfterShutdown
<1>1. SInv /\ IInv /\ [Next]_vars => SInv'
  BY StepsShut DEF Shuts
<1>2. ASSUME SInv, IInv, [Next]_vars, pc["shutdown"] = Stopped, pc'["shutdown"] = Stopped
      PROVE  /\ done' = done /\ backend'.receipts = backend.receipts
             /\ \A c \in Calls : At(c, "slotted") => pc'[c] # <<"entered">>
             /\ saved' \in {saved, st'}
             /\ \/ st' = st
                \/ \E v \in Verifs : st' \in {[st EXCEPT !.runs = @ \cup {v}], [st EXCEPT !.runs = @ \ {v}]}
                \/ \E s \in Steps : exec[s] = "rejected" /\ st' = [st EXCEPT !.inflight = @ \ {s}]
  <2>1. Silent
    BY <1>2, StepsShut DEF Shuts
  <2>2. \A c \in Calls : At(c, "slotted") => pc'[c] # <<"entered">>
    BY <1>2, StoppedIs, StepKeeps DEF Enters, Accepted
  <2> QED BY <2>1, <2>2 DEF Silent, Overtaken, GivesUp
<1>3. [][SInv /\ IInv /\ [Next]_vars]_vars => QuietAfterShutdown
  BY <1>2, PTL DEF QuietAfterShutdown
<1> QED BY <1>1, <1>3, ShutsInit, Invariance, PTL DEF AnySpec
=============================================================================
