------------------------ MODULE ToolExecutor_proofs ------------------------
(***************************************************************************)
(* What ToolExecutor.invoke promises, for any invocations, sinks and          *)
(* policies, whatever they throw and whenever authority, signals, deadlines   *)
(* and the catalog change.                                                   *)
(*                                                                         *)
(* The invariant says where an invocation can be (Placed), what the journals  *)
(* hold of it there (Logged), what its observers have heard (Heard) and what  *)
(* it was granted (Granted).  All four are about one invocation, so a step    *)
(* keeps them for the others (Elsewhere); Shared alone relates two.           *)
(* Three things make it inductive.  Whatever throws, an invocation whose      *)
(* handler was not entered says "not_started", in every journal: it is what   *)
(* a retried finish relies on.  There is one settlement of a handler that     *)
(* was entered, which a journal has or still waits for, even where the        *)
(* caller is told "unknown".  And a reference found invalid when the intent   *)
(* became durable stays so, for a policy that comes back issues a later one.  *)
(***************************************************************************)
EXTENDS ToolExecutor, SequenceTheorems, TLAPS

PCs ==
  {"idle", "requesting", "screening", "authorizing", "decided", "queued", "dispatching",
   "admitting", "admitted", "starting", "running", "settling", "observing", "returned", "threw"}
Stages == {"early", "slot", "final", "inner", "outer"}
Types  == {"requested", "admitted", "rejected", "started", "settled"}
Events == [type : Types, phase : Phases, outcome : Outcomes]

\* Each variable has its type.
Typed ==
  /\ pc \in [Invocations -> PCs] /\ stage \in [Invocations -> Stages] /\ at \in [Invocations -> Nat]
  /\ mode \in [Invocations -> {"parallel-safe", "exclusive"}]
  /\ journalState \in [Invocations -> {"none", "requested", "admitted", "started"}]
  /\ phase \in [Invocations -> Phases] /\ outcome \in [Invocations -> Outcomes]
  /\ asked \in [Invocations -> SUBSET Refs] /\ receiptRefs \in [Invocations -> SUBSET Refs]
  /\ revoked \in [Invocations -> SUBSET Refs] /\ denied \in [Invocations -> BOOLEAN]
  /\ entered \in [Invocations -> BOOLEAN] /\ upset \in [Invocations -> BOOLEAN]
  /\ heard \in [Invocations -> [SinkIds -> Outcomes \cup {Nothing}]]
  /\ told \in [Invocations -> [outcome : Outcomes, phase : Phases] \cup {Nothing}]
  /\ slots \subseteq Invocations
  /\ log \in [SinkIds -> [Invocations -> Seq(Events)]]
  /\ grant \in [PolicyIds -> [ref : 1..MaxRefs, ok : BOOLEAN]] /\ lapsed \subseteq Refs

\* Where an invocation can be: in the stage of its catch block, at a sink, a
\* policy or an observer that there is, and with the receipt of that place.
Placed(i) ==
  /\ stage[i] = "early" =>
       pc[i] \notin {"dispatching", "admitting", "admitted", "starting", "running"}
  /\ stage[i] = "slot"  => pc[i] \notin {"idle", "requesting", "screening", "queued", "running"}
  /\ stage[i] = "final" =>
       pc[i] \in {"authorizing", "decided", "running", "settling", "observing", "returned"}
  /\ stage[i] = "inner" => pc[i] \in {"observing", "returned"} /\ entered[i]
  /\ stage[i] = "outer" => pc[i] \in {"settling", "observing", "returned", "threw"}
  /\ pc[i] = "threw" => stage[i] \in {"early", "outer"}
  /\ pc[i] \in Recording => at[i] >= 1 /\ (Sinks # <<>> => at[i] \in SinkIds)
  /\ pc[i] = "authorizing" => at[i] \in PolicyIds
  /\ pc[i] = "observing" => at[i] \in 1..(Len(Sinks) + 1)
  /\ pc[i] \in {"idle", "screening", "decided", "queued", "dispatching", "admitted", "running"} =>
       at[i] = 1
  /\ stage[i] = "final" => journalState[i] = "started"
  /\ pc[i] = "starting" \/ (stage[i] = "final" /\ pc[i] \in {"authorizing", "decided"}) =>
       phase[i] = "started"
  /\ stage[i] \in {"slot", "final", "inner"} /\ ~Over(i) => i \in slots
  /\ entered[i] => /\ pc[i] \in {"running", "settling", "observing", "returned", "threw"}
                   /\ stage[i] \in {"final", "inner", "outer"}
                   /\ journalState[i] = "started" /\ phase[i] # "not_started"
                   /\ pc[i] = "settling" => phase[i] = "settled"
  /\ ~entered[i] => /\ pc[i] # "running"
                    /\ pc[i] \in {"settling", "observing", "returned"} =>
                         phase[i] = "not_started" /\ outcome[i] = "failed"
  /\ told[i] # Nothing =>
       pc[i] = "returned" /\ told[i] = [outcome |-> outcome[i], phase |-> phase[i]]

Last(events) == events[Len(events)]

\* What the journals hold of an invocation.
Logged(i) ==
  /\ pc[i] = "starting" => \A s \in SinkIds : s < at[i] => Prior(log[s][i]) = "started"
  /\ \/ stage[i] = "final" /\ ~entered[i] /\ pc[i] \in {"authorizing", "decided"}
     \/ pc[i] = "running"
     => \A s \in SinkIds : Prior(log[s][i]) = "started"
  /\ ~entered[i] =>
       \A s \in SinkIds : Final(log[s][i]) =>
         Last(log[s][i]).phase = "not_started" /\ Last(log[s][i]).outcome = "failed"
  /\ entered[i] =>
       /\ \A s \in SinkIds : Has(log[s][i], "started")
       /\ pc[i] = "settling" =>
            \A s \in SinkIds :
              IF s < at[i] THEN Last(log[s][i]) = Event("settled", "settled", outcome[i])
                           ELSE Prior(log[s][i]) = "started"
       /\ \E out \in Outcomes : \A s \in SinkIds :
            Prior(log[s][i]) = "started" \/ Last(log[s][i]) = Event("settled", "settled", out)
       /\ pc[i] \in {"observing", "returned"} /\ outcome[i] # "unknown" =>
            \A s \in SinkIds : Last(log[s][i]) = Event("settled", "settled", outcome[i])

\* What its observers have heard.
Heard(i) ==
  /\ pc[i] = "observing" => \A s \in SinkIds : s < at[i] => heard[i][s] = outcome[i]
  /\ pc[i] = "returned" => \A s \in SinkIds : heard[i][s] = outcome[i]
  /\ entered[i] /\ stage[i] \in {"inner", "outer"} => \A s \in SinkIds : heard[i][s] # Nothing

\* Which authority it has.
Granted(i) ==
  /\ \A r \in asked[i] \cup receiptRefs[i] \cup revoked[i] : r[2] <= grant[r[1]].ref
  /\ \A r \in revoked[i] : ~Valid(r)
  /\ pc[i] = "starting" => asked[i] = {}
  /\ stage[i] = "final" /\ pc[i] \in {"authorizing", "decided"} =>
       revoked[i] \subseteq receiptRefs[i] /\ asked[i] \cap revoked[i] = {}
  /\ pc[i] = "authorizing" =>
       \A p \in PolicyIds : p < at[i] => \E n \in 1..MaxRefs : <<p, n>> \in asked[i]
  /\ pc[i] = "decided" /\ ~denied[i] =>
       \A p \in PolicyIds : \E n \in 1..MaxRefs : <<p, n>> \in asked[i]

\* A writer is alone, and an invocation that entered is heard before it goes.
Shared ==
  /\ \A i, j \in slots : i # j => mode[i] = "parallel-safe" /\ mode[j] = "parallel-safe"
  /\ \A i \in Invocations : entered[i] => i \in slots \/ \A s \in SinkIds : heard[i][s] # Nothing

IInv == Typed /\ Shared /\ \A i \in Invocations : Placed(i) /\ Logged(i) /\ Heard(i) /\ Granted(i)

Each(i) == Placed(i) /\ Logged(i) /\ Heard(i) /\ Granted(i)

\* What a step of one invocation leaves to the others.
Others(i) ==
  /\ \A j \in Invocations \ {i} :
       /\ pc'[j] = pc[j] /\ stage'[j] = stage[j] /\ at'[j] = at[j] /\ mode'[j] = mode[j]
       /\ journalState'[j] = journalState[j] /\ phase'[j] = phase[j] /\ outcome'[j] = outcome[j]
       /\ asked'[j] = asked[j] /\ receiptRefs'[j] = receiptRefs[j] /\ revoked'[j] = revoked[j]
       /\ denied'[j] = denied[j] /\ entered'[j] = entered[j]
       /\ heard'[j] = heard[j] /\ told'[j] = told[j]
       /\ \A s \in SinkIds : log'[s][j] = log[s][j]
       /\ j \in slots' <=> j \in slots
  /\ UNCHANGED <<grant, lapsed>>

\* Each part of the invariant is about one invocation, and a step of another
\* leaves it alone.
LEMMA Elsewhere ==
  ASSUME NEW i \in Invocations, NEW j \in Invocations \ {i}, Others(i), Each(j)
  PROVE  Each(j)'
<1>0. /\ pc'[j] = pc[j] /\ stage'[j] = stage[j] /\ at'[j] = at[j]
      /\ journalState'[j] = journalState[j] /\ phase'[j] = phase[j] /\ outcome'[j] = outcome[j]
      /\ asked'[j] = asked[j] /\ receiptRefs'[j] = receiptRefs[j] /\ revoked'[j] = revoked[j]
      /\ denied'[j] = denied[j] /\ entered'[j] = entered[j]
      /\ heard'[j] = heard[j] /\ told'[j] = told[j]
      /\ \A s \in SinkIds : log'[s][j] = log[s][j]
      /\ j \in slots' <=> j \in slots
      /\ UNCHANGED <<grant, lapsed>>
  BY DEF Others
<1>1. Placed(j)'  BY <1>0 DEF Each, Placed, Over
<1>2. Logged(j)'  BY <1>0 DEF Each, Logged
<1>3. Heard(j)'  BY <1>0 DEF Each, Heard
<1>4. Granted(j)'  BY <1>0 DEF Each, Granted, Valid
<1>. QED  BY <1>1, <1>2, <1>3, <1>4 DEF Each

\* After a step of i, the invariant has to be shown of i only.
LEMMA Assemble ==
  ASSUME IInv, NEW i \in Invocations, Others(i), Typed', Shared', Each(i)'
  PROVE  IInv'
<1>1. \A j \in Invocations : Each(j)  BY DEF IInv, Each
<1>2. ASSUME NEW j \in Invocations PROVE Each(j)'
  <2>1. CASE j = i  BY <2>1
  <2>2. CASE j # i  BY <2>2, <1>1, Elsewhere
  <2>. QED  BY <2>1, <2>2
<1>. QED  BY <1>2 DEF IInv, Each

\* Before the first call nothing is recorded, heard, granted or shared.
LEMMA Starts == Init => IInv
<1>. SUFFICES ASSUME Init PROVE IInv  OBVIOUS
<1>. USE ExecutorAssumption
<1>1. Typed  BY DEF Init, Typed, PCs, Stages, Phases, Outcomes, Refs, PolicyIds, SinkIds
<1>2. Shared  BY DEF Init, Shared
<1>3. ASSUME NEW i \in Invocations PROVE Placed(i)
  BY DEF Init, Placed, SinkIds
<1>4. ASSUME NEW i \in Invocations PROVE Logged(i)
  BY DEF Init, Logged, Final, Prior
<1>5. ASSUME NEW i \in Invocations PROVE Heard(i)  BY DEF Init, Heard
<1>6. ASSUME NEW i \in Invocations PROVE Granted(i)  BY DEF Init, Granted, Valid
<1>. QED  BY <1>1, <1>2, <1>3, <1>4, <1>5, <1>6 DEF IInv

\* reject (executor.ts 137-188): an invocation whose handler was not entered ends
\* as "not_started", whatever its journals have stored of it.
LEMMA RejectKeeps ==
  ASSUME IInv, NEW i \in Invocations, NEW st \in Stages, Reject(i, st),
         ~entered[i], told[i] = Nothing,
         st # "inner", st = "final" => journalState[i] = "started",
         st \in {"slot", "final"} => i \in slots,
         UNCHANGED <<mode, journalState, receiptRefs, denied, entered, heard, told, slots,
                     grant, lapsed, revoked>>,
         asked' \in [Invocations -> SUBSET Refs],
         \A j \in Invocations : asked'[j] = asked[j],
         log' \in [SinkIds -> [Invocations -> Seq(Events)]],
         \A j \in Invocations \ {i} : \A s \in SinkIds : log'[s][j] = log[s][j],
         \A s \in SinkIds : Final(log'[s][i]) =>
           Last(log'[s][i]).phase = "not_started" /\ Last(log'[s][i]).outcome = "failed"
  PROVE  IInv'
<1>0. Typed  BY DEF IInv
<1>1. Typed'
  BY <1>0 DEF Typed, Reject, Finish, Goto, PCs, Phases, Outcomes
<1>2. Others(i)
  BY <1>0 DEF Reject, Finish, Goto, Others
<1>3. /\ pc'[i] = IF journalState[i] # "none" THEN "settling" ELSE "observing"
      /\ stage'[i] = st /\ at'[i] = 1 /\ phase'[i] = "not_started" /\ outcome'[i] = "failed"
  BY <1>0 DEF Typed, Reject, Finish, Goto
<1>4. Placed(i)'
  BY <1>0, <1>3, ExecutorAssumption DEF Placed, SinkIds
<1>5. Logged(i)'  BY <1>3 DEF Logged
<1>6. Heard(i)'  BY <1>3 DEF Heard, SinkIds
<1>7. Granted(i)'  BY <1>3 DEF IInv, Granted, Valid
<1>8. Shared'  BY DEF IInv, Shared
<1>. QED  BY <1>1, <1>2, <1>4, <1>5, <1>6, <1>7, <1>8, Assemble DEF Each

\* Hypotheses of RejectKeeps that most steps have in common.
Untouched(i) ==
  /\ UNCHANGED <<mode, journalState, receiptRefs, denied, entered, heard, told, slots, log,
                 grant, lapsed, revoked>>
  /\ asked' \in [Invocations -> SUBSET Refs]
  /\ \A j \in Invocations : asked'[j] = asked[j]

\* A rejection before the handler, in a step that touches no journal.
LEMMA PlainReject ==
  ASSUME IInv, NEW i \in Invocations, NEW st \in Stages, Reject(i, st), Untouched(i),
         pc[i] \notin {"running", "settling", "observing", "returned", "threw"},
         st # "inner", st = "final" => journalState[i] = "started",
         st \in {"slot", "final"} => i \in slots
  PROVE  IInv'
<1>1. ~entered[i] /\ told[i] = Nothing /\ Logged(i) /\ Typed  BY DEF IInv, Placed
<1>2. /\ log' \in [SinkIds -> [Invocations -> Seq(Events)]]
      /\ \A j \in Invocations \ {i} : \A s \in SinkIds : log'[s][j] = log[s][j]
      /\ \A s \in SinkIds : Final(log'[s][i]) =>
           Last(log'[s][i]).phase = "not_started" /\ Last(log'[s][i]).outcome = "failed"
  BY <1>1 DEF Untouched, Logged, Typed
<1>. QED  BY <1>1, <1>2, RejectKeeps DEF Untouched

\* invoke is called, or refuses its parameters.
LEMMA CallKeeps ==
  ASSUME IInv, NEW i \in Invocations, Call(i)  PROVE  IInv'
<1>0. Typed /\ Each(i) /\ Shared  BY DEF IInv, Each
<1>1. CASE Reject(i, "early")
  BY <1>0, <1>1, PlainReject DEF Call, Untouched, At, Stages, world, Typed
<1>2. CASE Goto(i, "requesting") /\ UNCHANGED <<stage, at, phase, outcome, upset>>
  <2>1. Typed'  BY <1>0, <1>2 DEF Call, Typed, Goto, PCs, world
  <2>2. Others(i)  BY <1>0, <1>2 DEF Call, Typed, Goto, Others, world
  <2>3. pc[i] = "idle" /\ pc'[i] = "requesting"  BY <1>0, <1>2 DEF Call, At, Typed, Goto
  <2>4. Each(i)'
    BY <1>0, <1>2, <2>3, ExecutorAssumption DEF Call, Each, Placed, Logged, Heard, Granted,
       Valid, SinkIds, world
  <2>5. Shared'  BY <1>0, <1>2 DEF Call, Shared
  <2>. QED  BY <2>1, <2>2, <2>4, <2>5, Assemble
<1>. QED  BY <1>1, <1>2 DEF Call

\* After "requested": refused, or asked of the first policy.
LEMMA ScreenKeeps ==
  ASSUME IInv, NEW i \in Invocations, Screen(i)  PROVE  IInv'
<1>0. Typed /\ Each(i) /\ Shared  BY DEF IInv, Each
<1>1. CASE Reject(i, "early") /\ UNCHANGED asked
  BY <1>0, <1>1, PlainReject DEF Screen, Untouched, At, Stages, world, Typed
<1>2. CASE Ask(i)
  <2>1. Typed'  BY <1>0, <1>2 DEF Screen, Ask, Typed, Goto, PCs, world
  <2>2. Others(i)  BY <1>0, <1>2 DEF Screen, Ask, Typed, Goto, Others, world
  <2>3. pc[i] = "screening" /\ pc'[i] = "authorizing" /\ asked'[i] = {}
    BY <1>0, <1>2 DEF Screen, At, Typed, Goto, Ask
  <2>4. Each(i)'
    BY <1>0, <1>2, <2>3, ExecutorAssumption DEF Screen, Ask, Each, Placed, Logged, Heard,
       Granted, Valid, SinkIds, PolicyIds, world
  <2>5. Shared'  BY <1>0, <1>2 DEF Screen, Shared
  <2>. QED  BY <2>1, <2>2, <2>4, <2>5, Assemble
<1>. QED  BY <1>1, <1>2 DEF Screen

\* In the reservation: refused, or asked of the first policy again.
LEMMA DispatchKeeps ==
  ASSUME IInv, NEW i \in Invocations, Dispatch(i)  PROVE  IInv'
<1>0. Typed /\ Each(i) /\ Shared  BY DEF IInv, Each
<1>a. At(i, "dispatching") /\ stage[i] = "slot" /\ i \in slots /\ stage[i] \in Stages
  BY <1>0 DEF Dispatch, At, Each, Placed, Typed, Stages, Over
<1>1. CASE Reject(i, "slot") /\ UNCHANGED asked
  BY <1>0, <1>1, <1>a, PlainReject DEF Dispatch, Untouched, At, world, Typed
<1>2. CASE Ask(i)
  <2>1. Typed'  BY <1>0, <1>2 DEF Dispatch, Ask, Typed, Goto, PCs, world
  <2>2. Others(i)  BY <1>0, <1>2 DEF Dispatch, Ask, Typed, Goto, Others, world
  <2>3. pc[i] = "dispatching" /\ pc'[i] = "authorizing" /\ asked'[i] = {}
    BY <1>0, <1>2 DEF Dispatch, At, Typed, Goto, Ask
  <2>4. Each(i)'
    BY <1>0, <1>a, <1>2, <2>3, ExecutorAssumption DEF Dispatch, Ask, Each, Placed, Logged,
       Heard, Granted, Valid, SinkIds, PolicyIds, world
  <2>5. Shared'  BY <1>0, <1>2 DEF Dispatch, Shared
  <2>. QED  BY <2>1, <2>2, <2>4, <2>5, Assemble
<1>. QED  BY <1>1, <1>2 DEF Dispatch

\* A policy throws.
LEMMA PolicyThrowsKeeps ==
  ASSUME IInv, NEW i \in Invocations, PolicyThrows(i)  PROVE  IInv'
<1>0. Typed /\ Each(i) /\ Shared  BY DEF IInv, Each
<1>. QED
  BY <1>0, PlainReject DEF PolicyThrows, Untouched, At, Stages, world, Typed

\* The scheduler refuses an entry whose signal or deadline is over.
LEMMA DropKeeps ==
  ASSUME IInv, NEW i \in Invocations, Drop(i)  PROVE  IInv'
<1>0. Typed /\ Each(i) /\ Shared  BY DEF IInv, Each
<1>. QED  BY <1>0, PlainReject DEF Drop, Untouched, At, Stages, world, Typed

\* One policy answers: its reference is new among those asked, and not one that
\* was found invalid.
LEMMA AuthorizeKeeps ==
  ASSUME IInv, NEW i \in Invocations, Authorize(i)  PROVE  IInv'
<1>0. Typed /\ Each(i) /\ Shared  BY DEF IInv, Each
<1>. DEFINE r == <<at[i], grant[at[i]].ref>>
<1>a. /\ pc[i] = "authorizing" /\ at[i] \in PolicyIds /\ r \in Refs
      /\ UNCHANGED <<stage, mode, journalState, phase, outcome, receiptRefs, entered, upset, heard,
                     told, slots, log, grant, lapsed, revoked>>
  BY <1>0 DEF Authorize, At, Each, Placed, Typed, receipt, world, Refs
<1>1. CASE Valid(r)
  <2>1. /\ asked' = [asked EXCEPT ![i] = @ \cup {r}] /\ UNCHANGED denied
        /\ at' = [at EXCEPT ![i] = IF at[i] < Len(Policies) THEN @ + 1 ELSE 1]
        /\ IF at[i] < Len(Policies) THEN UNCHANGED pc ELSE Goto(i, "decided")
    BY <1>1 DEF Authorize
  <2>2. Typed'
    <3>1. asked' \in [Invocations -> SUBSET Refs]  BY <1>0, <1>a, <2>1 DEF Typed
    <3>2. at' \in [Invocations -> Nat]  BY <1>0, <1>a, <2>1 DEF Typed
    <3>3. pc' = pc \/ Goto(i, "decided")  BY <2>1
    <3>4. pc' \in [Invocations -> PCs]  BY <1>0, <3>3 DEF Typed, Goto, PCs
    <3>. QED  BY <1>0, <1>a, <2>1, <3>1, <3>2, <3>4 DEF Typed
  <2>3. Others(i)  BY <1>0, <1>a, <2>1 DEF Typed, Goto, Others
  <2>4. /\ asked'[i] = asked[i] \cup {r} /\ denied'[i] = denied[i]
        /\ \/ at[i] < Len(Policies) /\ pc'[i] = "authorizing" /\ at'[i] = at[i] + 1
           \/ at[i] = Len(Policies) /\ pc'[i] = "decided" /\ at'[i] = 1
    BY <1>0, <1>a, <2>1, ExecutorAssumption DEF Typed, Goto, PolicyIds
  <2>5. Placed(i)'
    BY <1>0, <1>a, <2>4, ExecutorAssumption DEF Each, Placed, Recording, PolicyIds, Over
  <2>6. Logged(i)'  BY <1>0, <1>a, <2>4 DEF Each, Logged
  <2>7. Heard(i)'  BY <1>0, <1>a, <2>4 DEF Each, Heard
  <2>8. Granted(i)'
    <3>1. \A q \in asked'[i] \cup receiptRefs'[i] \cup revoked'[i] : q[2] <= grant'[q[1]].ref
      BY <1>0, <1>a, <2>4 DEF Each, Granted, Refs
    <3>2. \A q \in revoked'[i] : ~Valid(q)'
      BY <1>0, <1>a DEF Each, Granted, Valid
    <3>3. stage'[i] = "final" =>
            revoked'[i] \subseteq receiptRefs'[i] /\ asked'[i] \cap revoked'[i] = {}
      BY <1>0, <1>a, <1>1, <2>4 DEF Each, Granted
    <3>4. \A p \in PolicyIds : p < at[i] => \E n \in 1..MaxRefs : <<p, n>> \in asked'[i]
      BY <1>0, <1>a, <2>4 DEF Each, Granted
    <3>5. \E n \in 1..MaxRefs : <<at[i], n>> \in asked'[i]
      BY <1>0, <1>a, <2>4 DEF Refs
    <3>6. pc'[i] = "authorizing" =>
            \A p \in PolicyIds : p < at'[i] => \E n \in 1..MaxRefs : <<p, n>> \in asked'[i]
      BY <1>a, <2>4, <3>4, <3>5 DEF PolicyIds
    <3>7. pc'[i] = "decided" => \A p \in PolicyIds : \E n \in 1..MaxRefs : <<p, n>> \in asked'[i]
      BY <1>a, <2>4, <3>4, <3>5 DEF PolicyIds
    <3>. QED  BY <2>4, <3>1, <3>2, <3>3, <3>6, <3>7 DEF Granted
  <2>9. Shared'  BY <1>0, <1>a DEF Shared
  <2>. QED  BY <2>2, <2>3, <2>5, <2>6, <2>7, <2>8, <2>9, Assemble DEF Each
<1>2. CASE ~Valid(r)
  <2>1. /\ denied' = [denied EXCEPT ![i] = TRUE]
        /\ at' = [at EXCEPT ![i] = 1] /\ Goto(i, "decided") /\ UNCHANGED asked
    BY <1>2 DEF Authorize
  <2>2. Typed'  BY <1>0, <1>a, <2>1 DEF Typed, Goto, PCs
  <2>3. Others(i)  BY <1>0, <1>a, <2>1 DEF Typed, Goto, Others
  <2>4. denied'[i] = TRUE /\ at'[i] = 1 /\ pc'[i] = "decided"
    BY <1>0, <2>1 DEF Typed, Goto
  <2>5. Placed(i)'
    BY <1>0, <1>a, <2>4, ExecutorAssumption DEF Each, Placed, SinkIds, Over
  <2>6. Logged(i)'  BY <1>0, <1>a, <2>4 DEF Each, Logged
  <2>7. Heard(i)'  BY <1>0, <1>a, <2>4 DEF Each, Heard
  <2>8. Granted(i)'  BY <1>0, <1>a, <2>1, <2>4 DEF Each, Granted, Valid
  <2>9. Shared'  BY <1>0, <1>a DEF Shared
  <2>. QED  BY <2>2, <2>3, <2>5, <2>6, <2>7, <2>8, <2>9, Assemble DEF Each
<1>. QED  BY <1>1, <1>2

\* The first decision.
LEMMA DecideEarlyKeeps ==
  ASSUME IInv, NEW i \in Invocations, DecideEarly(i)  PROVE  IInv'
<1>0. Typed /\ Each(i) /\ Shared  BY DEF IInv, Each
<1>1. CASE Reject(i, "early")
  BY <1>0, <1>1, PlainReject DEF DecideEarly, Untouched, At, world, Typed
<1>2. CASE Goto(i, "queued") /\ UNCHANGED <<stage, at, phase, outcome, upset>>
  <2>1. Typed'  BY <1>0, <1>2 DEF DecideEarly, Typed, Goto, PCs, world
  <2>2. Others(i)  BY <1>0, <1>2 DEF DecideEarly, Typed, Goto, Others, world
  <2>3. pc[i] = "decided" /\ stage[i] = "early" /\ pc'[i] = "queued"
    BY <1>0, <1>2 DEF DecideEarly, At, Typed, Goto
  <2>4. Each(i)'
    BY <1>0, <1>2, <2>3, ExecutorAssumption DEF DecideEarly, Each, Placed, Logged, Heard,
       Granted, Valid, Recording, world
  <2>5. Shared'  BY <1>0, <1>2 DEF DecideEarly, Shared
  <2>. QED  BY <2>1, <2>2, <2>4, <2>5, Assemble
<1>. QED  BY <1>1, <1>2 DEF DecideEarly

\* The scheduler starts the operation: only here can two invocations come to share.
LEMMA AdmitKeeps ==
  ASSUME IInv, NEW i \in Invocations, Admit(i)  PROVE  IInv'
<1>0. Typed /\ Each(i) /\ Shared  BY DEF IInv, Each
<1>1. Typed'  BY <1>0 DEF Admit, Typed, Goto, PCs, Stages, world, receipt
<1>2. Others(i)  BY <1>0 DEF Admit, Typed, Goto, Others, world, receipt
<1>3. /\ pc[i] = "queued" /\ pc'[i] = "dispatching" /\ stage'[i] = "slot" /\ slots' = slots \cup {i}
  BY <1>0 DEF Admit, At, Typed, Goto
<1>4. Each(i)'
  BY <1>0, <1>3, ExecutorAssumption DEF Admit, Each, Placed, Logged, Heard, Granted, Valid,
     Recording, world, receipt
<1>5. Shared'  BY <1>0, <1>3 DEF Admit, Shared
<1>. QED  BY <1>1, <1>2, <1>4, <1>5, Assemble

\* The second decision: the receipt takes the references of this round.
LEMMA DecideInSlotKeeps ==
  ASSUME IInv, NEW i \in Invocations, DecideInSlot(i)  PROVE  IInv'
<1>0. Typed /\ Each(i) /\ Shared  BY DEF IInv, Each
<1>a. At(i, "decided") /\ stage[i] = "slot" /\ i \in slots
  BY <1>0 DEF DecideInSlot, At, Each, Placed, Over
<1>1. CASE Reject(i, "slot") /\ UNCHANGED receiptRefs
  BY <1>0, <1>a, <1>1, PlainReject DEF DecideInSlot, Untouched, At, world, Typed
<1>2. CASE /\ receiptRefs' = [receiptRefs EXCEPT ![i] = asked[i]]
           /\ Goto(i, "admitting") /\ UNCHANGED <<stage, at, phase, outcome, upset>>
  <2>1. Typed'  BY <1>0, <1>2 DEF DecideInSlot, Typed, Goto, PCs, world
  <2>2. Others(i)  BY <1>0, <1>2 DEF DecideInSlot, Typed, Goto, Others, world
  <2>3. pc[i] = "decided" /\ pc'[i] = "admitting" /\ receiptRefs'[i] = asked[i]
    BY <1>0, <1>a, <1>2 DEF At, Typed, Goto
  <2>4. Each(i)'
    BY <1>0, <1>a, <1>2, <2>3, ExecutorAssumption DEF DecideInSlot, Each, Placed, Logged,
       Heard, Granted, Valid, SinkIds, world
  <2>5. Shared'  BY <1>0, <1>2 DEF DecideInSlot, Shared
  <2>. QED  BY <2>1, <2>2, <2>4, <2>5, Assemble
<1>. QED  BY <1>1, <1>2 DEF DecideInSlot

\* finalStop, then the receipt says "started" and the policies are asked anew.
LEMMA IntendKeeps ==
  ASSUME IInv, NEW i \in Invocations, Intend(i)  PROVE  IInv'
<1>0. Typed /\ Each(i) /\ Shared  BY DEF IInv, Each
<1>a. At(i, "admitted") /\ stage[i] = "slot" /\ i \in slots
  BY <1>0 DEF Intend, At, Each, Placed, Over, Typed, Stages
<1>1. CASE Reject(i, "slot") /\ UNCHANGED asked
  BY <1>0, <1>a, <1>1, PlainReject DEF Intend, Untouched, At, Stages, world, Typed
<1>2. CASE /\ phase' = [phase EXCEPT ![i] = "started"]
           /\ outcome' = [outcome EXCEPT ![i] = "unknown"]
           /\ asked' = [asked EXCEPT ![i] = {}]
           /\ Goto(i, "starting") /\ UNCHANGED <<stage, at, upset>>
  <2>1. Typed'  BY <1>0, <1>2 DEF Intend, Typed, Goto, PCs, world, Phases, Outcomes
  <2>2. Others(i)  BY <1>0, <1>2 DEF Intend, Typed, Goto, Others, world
  <2>3. /\ pc[i] = "admitted" /\ pc'[i] = "starting" /\ asked'[i] = {}
        /\ phase'[i] = "started" /\ outcome'[i] = "unknown"
    BY <1>0, <1>a, <1>2 DEF At, Typed, Goto
  <2>4. Each(i)'
    BY <1>0, <1>a, <1>2, <2>3, ExecutorAssumption DEF Intend, Each, Placed, Logged, Heard,
       Granted, Valid, SinkIds, world
  <2>5. Shared'  BY <1>0, <1>2 DEF Intend, Shared
  <2>. QED  BY <2>1, <2>2, <2>4, <2>5, Assemble
<1>. QED  BY <1>1, <1>2 DEF Intend

\* A stream whose last event is "started" has one, and is not final.
LEMMA StartedIsHad ==
  ASSUME NEW e \in Seq(Events), Prior(e) = "started"
  PROVE  Has(e, "started") /\ ~Final(e) /\ e # <<>>
BY DEF Prior, Has, Final

\* The handler is entered: by now every journal ends in "started".
LEMMA EnterKeeps ==
  ASSUME IInv, NEW i \in Invocations, Enter(i)  PROVE  IInv'
<1>0. Typed /\ Each(i) /\ Shared  BY DEF IInv, Each
<1>a. /\ At(i, "decided") /\ stage[i] = "final" /\ i \in slots /\ ~entered[i]
      /\ journalState[i] = "started" /\ phase[i] = "started"
  BY <1>0 DEF Enter, At, Each, Placed, Over
<1>1. CASE Reject(i, "final") /\ UNCHANGED entered
  BY <1>0, <1>a, <1>1, PlainReject DEF Enter, Untouched, At, world, Typed
<1>2. CASE /\ entered' = [entered EXCEPT ![i] = TRUE]
           /\ Goto(i, "running") /\ UNCHANGED <<stage, at, phase, outcome, upset>>
  <2>1. Typed'  BY <1>0, <1>2 DEF Enter, Typed, Goto, PCs, world
  <2>2. Others(i)  BY <1>0, <1>2 DEF Enter, Typed, Goto, Others, world
  <2>3. pc[i] = "decided" /\ pc'[i] = "running" /\ entered'[i] = TRUE
    BY <1>0, <1>a, <1>2 DEF At, Typed, Goto
  <2>4. Placed(i)'
    BY <1>0, <1>a, <1>2, <2>3 DEF Enter, Each, Placed, Recording
  <2>5. Logged(i)'
    <3>1. \A s \in SinkIds : Prior(log[s][i]) = "started" /\ Has(log[s][i], "started")
      BY <1>0, <1>a, StartedIsHad DEF Each, Logged, At, Typed
    <3>. QED  BY <1>2, <2>3, <3>1 DEF Enter, Logged, Outcomes
  <2>6. Heard(i)'  BY <1>0, <1>a, <1>2, <2>3 DEF Enter, Each, Heard
  <2>7. Granted(i)'  BY <1>0, <1>2, <2>3 DEF Enter, Each, Granted, Valid, world
  <2>8. Shared'  BY <1>0, <1>a, <1>2 DEF Enter, Shared, Typed
  <2>. QED  BY <2>1, <2>2, <2>4, <2>5, <2>6, <2>7, <2>8, Assemble DEF Each
<1>. QED  BY <1>1, <1>2 DEF Enter

\* The handler's outcome becomes the one that the journals will settle on.
LEMMA HandlerEndsKeeps ==
  ASSUME IInv, NEW i \in Invocations, HandlerEnds(i)  PROVE  IInv'
<1>0. Typed /\ Each(i) /\ Shared  BY DEF IInv, Each
<1>1. PICK out \in Outcomes : Finish(i, "final", "settled", out, TRUE)  BY DEF HandlerEnds
<1>2. Typed'
  BY <1>0, <1>1 DEF HandlerEnds, Finish, Typed, Goto, PCs, Stages, Phases, world
<1>3. Others(i)  BY <1>0, <1>1 DEF HandlerEnds, Finish, Typed, Goto, Others, world
<1>4. /\ pc[i] = "running" /\ stage[i] = "final" /\ entered[i] /\ i \in slots
      /\ journalState[i] = "started"
  BY <1>0 DEF HandlerEnds, At, Each, Placed, Over
<1>5. /\ pc'[i] = "settling" /\ stage'[i] = "final" /\ at'[i] = 1
      /\ phase'[i] = "settled" /\ outcome'[i] = out
  BY <1>0, <1>1, <1>4 DEF Finish, Typed, Goto
<1>6. Placed(i)'
  BY <1>0, <1>4, <1>5, ExecutorAssumption DEF HandlerEnds, Each, Placed, SinkIds
<1>7. Logged(i)'  BY <1>0, <1>4, <1>5 DEF HandlerEnds, Each, Logged, SinkIds, Outcomes
<1>8. Heard(i)'  BY <1>0, <1>5 DEF HandlerEnds, Each, Heard
<1>9. Granted(i)'  BY <1>0, <1>5 DEF HandlerEnds, Each, Granted, Valid, world
<1>10. Shared'  BY <1>0 DEF HandlerEnds, Shared
<1>. QED  BY <1>2, <1>3, <1>6, <1>7, <1>8, <1>9, <1>10, Assemble DEF Each

\* One observer hears the outcome.
LEMMA HearKeeps ==
  ASSUME IInv, NEW i \in Invocations, Hear(i)  PROVE  IInv'
<1>0. Typed /\ Each(i) /\ Shared  BY DEF IInv, Each
<1>a. /\ pc[i] = "observing" /\ at[i] \in SinkIds
      /\ heard' = [heard EXCEPT ![i][at[i]] = outcome[i]]
      /\ at' = [at EXCEPT ![i] = @ + 1]
      /\ upset' = upset \/ upset' = [upset EXCEPT ![i] = TRUE]
      /\ UNCHANGED <<pc, stage, mode, journalState, phase, outcome, receiptRefs, asked, denied,
                     entered, told, slots, log, grant, lapsed, revoked>>
  BY <1>0 DEF Hear, At, Each, Placed, SinkIds, receipt, world
<1>1. Typed'
  <2>1. at' \in [Invocations -> Nat]  BY <1>0, <1>a DEF Typed
  <2>2. heard' \in [Invocations -> [SinkIds -> Outcomes \cup {Nothing}]]  BY <1>0, <1>a DEF Typed
  <2>3. upset' \in [Invocations -> BOOLEAN]  BY <1>0, <1>a DEF Typed
  <2>. QED  BY <1>0, <1>a, <2>1, <2>2, <2>3 DEF Typed
<1>2. Others(i)  BY <1>0, <1>a DEF Typed, Others
<1>3. /\ at'[i] = at[i] + 1
      /\ \A s \in SinkIds : heard'[i][s] = IF s = at[i] THEN outcome[i] ELSE heard[i][s]
      /\ outcome[i] # Nothing
  BY <1>0, <1>a, ExecutorAssumption DEF Typed
<1>4. Placed(i)'
  BY <1>0, <1>a, <1>3 DEF Each, Placed, Recording, SinkIds, Over
<1>5. Logged(i)'  BY <1>0, <1>a DEF Each, Logged
<1>6. Heard(i)'  BY <1>0, <1>a, <1>3 DEF Each, Heard, SinkIds
<1>7. Granted(i)'  BY <1>0, <1>a DEF Each, Granted, Valid
<1>8. Shared'
  <2>1. \A j \in Invocations : \A s \in SinkIds : heard[j][s] # Nothing => heard'[j][s] # Nothing
    BY <1>0, <1>a, <1>3
  <2>. QED  BY <1>0, <1>a, <2>1 DEF Shared
<1>. QED  BY <1>1, <1>2, <1>4, <1>5, <1>6, <1>7, <1>8, Assemble DEF Each

\* A second finish, after an observer threw: by then every observer has heard an
\* outcome, so that the reservation may go (executor.ts 323-346).
LEMMA UnknownKeeps ==
  ASSUME IInv, NEW i \in Invocations, NEW st \in {"inner", "outer"},
         Finish(i, st, "started", "unknown", FALSE),
         pc[i] = "observing", at[i] > Len(Sinks), entered[i],
         st = "inner" => i \in slots,
         UNCHANGED <<mode, journalState, receiptRefs, asked, denied, entered, heard, told, slots,
                     log, grant, lapsed, revoked>>
  PROVE  IInv'
<1>0. Typed /\ Each(i) /\ Shared  BY DEF IInv, Each
<1>1. Typed'  BY <1>0 DEF Finish, Typed, Goto, PCs, Stages, Phases, Outcomes
<1>2. Others(i)  BY <1>0 DEF Finish, Typed, Goto, Others
<1>3. /\ pc'[i] = "observing" /\ stage'[i] = st /\ at'[i] = 1
      /\ phase'[i] = "started" /\ outcome'[i] = "unknown"
  BY <1>0 DEF Finish, Typed, Goto
<1>4. Placed(i)'  BY <1>0, <1>3, ExecutorAssumption DEF Each, Placed, Recording, SinkIds, Over
<1>5. Logged(i)'  BY <1>0, <1>3 DEF Each, Logged
<1>6. Heard(i)'
  <2>1. outcome[i] # Nothing  BY <1>0, ExecutorAssumption DEF Typed
  <2>2. \A s \in SinkIds : s < at[i]  BY <1>0, ExecutorAssumption DEF SinkIds, Typed
  <2>3. \A s \in SinkIds : heard[i][s] # Nothing  BY <1>0, <2>1, <2>2 DEF Each, Heard
  <2>. QED  BY <1>3, <2>3 DEF Heard, SinkIds
<1>7. Granted(i)'  BY <1>0, <1>3 DEF Each, Granted, Valid
<1>8. Shared'  BY <1>0 DEF Shared
<1>. QED  BY <1>1, <1>2, <1>4, <1>5, <1>6, <1>7, <1>8, Assemble DEF Each

\* The end of finish: the caller is answered with what all have heard, or the
\* error of an observer goes to the next catch block.
LEMMA EndFinishKeeps ==
  ASSUME IInv, NEW i \in Invocations, EndFinish(i)  PROVE  IInv'
<1>0. Typed /\ Each(i) /\ Shared  BY DEF IInv, Each
<1>a. /\ pc[i] = "observing" /\ at[i] > Len(Sinks)
      /\ UNCHANGED <<mode, journalState, receiptRefs, asked, denied, entered, heard, slots,
                     log, grant, lapsed, revoked>>
  BY DEF EndFinish, At, world
<1>b. told[i] = Nothing /\ stage[i] \in Stages  BY <1>0, <1>a DEF Each, Placed, Typed
<1>c. \A s \in SinkIds : heard[i][s] = outcome[i]
  <2>1. \A s \in SinkIds : s < at[i]  BY <1>0, <1>a, ExecutorAssumption DEF SinkIds, Typed
  <2>. QED  BY <1>0, <1>a, <2>1 DEF Each, Heard
<1>1. CASE upset[i]
  <2>0. Raise(i) /\ UNCHANGED told  BY <1>1 DEF EndFinish, Raise
  <2>1. CASE stage[i] \in {"slot", "final"} /\ entered[i]
    <3>1. Finish(i, "inner", "started", "unknown", FALSE)  BY <2>0, <2>1 DEF Raise
    <3>2. i \in slots  BY <1>0, <1>a, <2>1 DEF Each, Placed, Over
    <3>. QED  BY <1>a, <2>0, <2>1, <3>1, <3>2, UnknownKeeps
  <2>2. CASE stage[i] = "inner"
    <3>1. Finish(i, "outer", "started", "unknown", FALSE)  BY <2>0, <2>2 DEF Raise
    <3>2. entered[i]  BY <1>0, <2>2 DEF Each, Placed
    <3>. QED  BY <1>a, <2>0, <3>1, <3>2, UnknownKeeps
  <2>3. CASE stage[i] \in {"slot", "final"} /\ ~entered[i]
    <3>1. Reject(i, "outer")  BY <2>0, <2>3 DEF Raise
    <3>2. /\ \A s \in SinkIds : Final(log'[s][i]) =>
                Last(log'[s][i]).phase = "not_started" /\ Last(log'[s][i]).outcome = "failed"
          /\ asked' \in [Invocations -> SUBSET Refs]
          /\ log' \in [SinkIds -> [Invocations -> Seq(Events)]]
      BY <1>0, <1>a, <2>3 DEF Each, Logged, Typed
    <3>3. "outer" \in Stages  BY DEF Stages
    <3>. QED  BY <1>a, <1>b, <2>0, <2>3, <3>1, <3>2, <3>3, RejectKeeps
  <2>4. CASE stage[i] \in {"early", "outer"}
    <3>0. Goto(i, "threw") /\ UNCHANGED <<phase, outcome, stage, at, upset>>
      BY <2>0, <2>4 DEF Raise
    <3>1. Typed'  BY <1>0, <1>a, <2>0, <3>0 DEF Typed, Goto, PCs
    <3>2. Others(i)  BY <1>0, <1>a, <2>0, <3>0 DEF Typed, Goto, Others
    <3>3. pc'[i] = "threw"  BY <1>0, <3>0 DEF Typed, Goto
    <3>4. Each(i)'
      BY <1>0, <1>a, <1>b, <2>0, <2>4, <3>0, <3>3 DEF Each, Placed, Logged, Heard, Granted,
         Valid, Recording
    <3>5. Shared'  BY <1>0, <1>a DEF Shared
    <3>. QED  BY <3>1, <3>2, <3>4, <3>5, Assemble
  <2>. QED  BY <1>b, <2>1, <2>2, <2>3, <2>4 DEF Stages
<1>2. CASE ~upset[i]
  <2>0. /\ told' = [told EXCEPT ![i] = [outcome |-> outcome[i], phase |-> phase[i]]]
        /\ Goto(i, "returned")
        /\ UNCHANGED <<phase, outcome, stage, at, upset>>
    BY <1>2 DEF EndFinish, Return
  <2>1. Typed'  BY <1>0, <1>a, <2>0 DEF Typed, Goto, PCs
  <2>2. Others(i)  BY <1>0, <1>a, <2>0 DEF Typed, Goto, Others
  <2>3. pc'[i] = "returned" /\ told'[i] = [outcome |-> outcome[i], phase |-> phase[i]]
    BY <1>0, <2>0 DEF Typed, Goto
  <2>4. Placed(i)'  BY <1>0, <1>a, <2>0, <2>3 DEF Each, Placed, Recording, Over
  <2>5. Logged(i)'  BY <1>0, <1>a, <2>0, <2>3 DEF Each, Logged
  <2>6. Heard(i)'  BY <1>0, <1>a, <1>c, <2>0, <2>3 DEF Each, Heard
  <2>7. Granted(i)'  BY <1>0, <1>a, <2>0, <2>3 DEF Each, Granted, Valid
  <2>8. Shared'  BY <1>0, <1>a DEF Shared
  <2>. QED  BY <2>1, <2>2, <2>4, <2>5, <2>6, <2>7, <2>8, Assemble DEF Each
<1>. QED  BY <1>1, <1>2

\* The reservation ends: if its handler was entered, it has been heard.
LEMMA ReleaseKeeps ==
  ASSUME IInv, NEW i \in Invocations, Release(i)  PROVE  IInv'
<1>0. Typed /\ Each(i) /\ Shared  BY DEF IInv, Each
<1>a. /\ slots' = slots \ {i} /\ (pc[i] \in {"returned", "threw"} \/ stage[i] = "outer")
      /\ UNCHANGED <<pc, stage, at, mode, journalState, phase, outcome, asked, denied, receiptRefs,
                     entered, upset, heard, told, log, grant, lapsed, revoked>>
  BY DEF Release, receipt, world
<1>1. Typed'  BY <1>0, <1>a DEF Typed
<1>2. Others(i)  BY <1>0, <1>a DEF Others
<1>3. Each(i)'
  BY <1>0, <1>a DEF Each, Placed, Logged, Heard, Granted, Valid, Over
<1>4. entered[i] => \A s \in SinkIds : heard[i][s] # Nothing
  <2>1. outcome[i] # Nothing  BY <1>0, ExecutorAssumption DEF Typed
  <2>. QED  BY <1>0, <1>a, <2>1 DEF Each, Placed, Heard
<1>5. Shared'  BY <1>0, <1>a, <1>4 DEF Shared
<1>. QED  BY <1>1, <1>2, <1>3, <1>5, Assemble

\* Authority changes around the executor: references only get later, and one that
\* is invalid stays so.
LEMMA AuthorityMoves ==
  ASSUME IInv, UNCHANGED inside,
         grant' \in [PolicyIds -> [ref : 1..MaxRefs, ok : BOOLEAN]], lapsed' \subseteq Refs,
         \A p \in PolicyIds : grant[p].ref <= grant'[p].ref,
         \A r \in Refs : r[2] <= grant[r[1]].ref /\ ~Valid(r) => ~Valid(r)'
  PROVE  IInv'
<1>0. Typed /\ Shared  BY DEF IInv
<1>1. Typed'  BY <1>0 DEF Typed, inside, receipt
<1>2. Shared'  BY <1>0 DEF Shared, inside, receipt
<1>3. ASSUME NEW i \in Invocations PROVE Each(i)'
  <2>0. Each(i)  BY DEF IInv, Each
  <2>1. Placed(i)'  BY <2>0 DEF Each, Placed, Recording, Over, inside, receipt
  <2>2. Logged(i)'  BY <2>0 DEF Each, Logged, inside, receipt
  <2>3. Heard(i)'  BY <2>0 DEF Each, Heard, inside, receipt
  <2>4. Granted(i)'
    <3>1. \A r \in asked[i] \cup receiptRefs[i] \cup revoked[i] :
            /\ r \in Refs /\ r[1] \in PolicyIds /\ r[2] \in Nat
            /\ grant[r[1]].ref \in Nat /\ grant'[r[1]].ref \in Nat
            /\ r[2] <= grant[r[1]].ref
      BY <1>0, <2>0, ExecutorAssumption DEF Typed, Refs, Each, Granted
    <3>2. \A r \in asked[i] \cup receiptRefs[i] \cup revoked[i] : r[2] <= grant'[r[1]].ref
      BY <3>1
    <3>3. \A r \in revoked[i] : ~Valid(r)'  BY <2>0, <3>1 DEF Each, Granted
    <3>. QED  BY <2>0, <3>2, <3>3 DEF Each, Granted, inside, receipt
  <2>. QED  BY <2>1, <2>2, <2>3, <2>4 DEF Each
<1>. QED  BY <1>1, <1>2, <1>3 DEF IInv, Each

\* A step that neither authority nor the executor takes part in.
LEMMA AuthorityStays ==
  ASSUME IInv, UNCHANGED <<inside, grant, lapsed>>  PROVE  IInv'
<1>0. Typed  BY DEF IInv
<1>. QED
  BY <1>0, AuthorityMoves, ExecutorAssumption DEF Typed, Valid

\* The steps of the world: signals, deadlines, the catalog and authority.
LEMMA WorldKeeps ==
  ASSUME IInv, World  PROVE  IInv'
<1>0. Typed  BY DEF IInv
<1>1. ASSUME UNCHANGED <<inside, grant, lapsed>> PROVE IInv'  BY <1>1, AuthorityStays
<1>2. ASSUME NEW p \in PolicyIds, Revoke(p) PROVE IInv'
  <2>1. UNCHANGED <<inside, lapsed>> /\ grant' = [grant EXCEPT ![p].ok = FALSE]  BY <1>2 DEF Revoke
  <2>2. grant' \in [PolicyIds -> [ref : 1..MaxRefs, ok : BOOLEAN]]  BY <1>0, <2>1 DEF Typed
  <2>3. \A q \in PolicyIds : /\ grant'[q].ref = grant[q].ref /\ grant[q].ref \in Nat
                             /\ grant'[q].ok => grant[q].ok
                             /\ grant[q].ok \in BOOLEAN
    <3>1. SUFFICES ASSUME NEW q \in PolicyIds
                   PROVE  /\ grant'[q].ref = grant[q].ref /\ grant[q].ref \in Nat
                          /\ grant'[q].ok => grant[q].ok
                          /\ grant[q].ok \in BOOLEAN
      OBVIOUS
    <3>2. grant[q] \in [ref : 1..MaxRefs, ok : BOOLEAN]  BY <1>0 DEF Typed
    <3>3. grant[q].ref \in Nat /\ grant[q].ok \in BOOLEAN  BY <3>2, ExecutorAssumption
    <3>4. grant'[q] = IF q = p THEN [grant[q] EXCEPT !.ok = FALSE] ELSE grant[q]
      BY <1>0, <2>1 DEF Typed
    <3>5. grant'[q].ref = grant[q].ref  BY <3>2, <3>4
    <3>6. grant'[q].ok => grant[q].ok
      <4>1. CASE q = p  BY <3>2, <3>4, <4>1
      <4>2. CASE q # p  BY <3>4, <4>2
      <4>. QED  BY <4>1, <4>2
    <3>. QED  BY <3>3, <3>5, <3>6
  <2>4. \A q \in PolicyIds : grant[q].ref <= grant'[q].ref  BY <2>3
  <2>5. \A r \in Refs : ~Valid(r) => ~Valid(r)'
    <3>1. SUFFICES ASSUME NEW r \in Refs, Valid(r)' PROVE Valid(r)  OBVIOUS
    <3>2. r[1] \in PolicyIds /\ grant'[r[1]] = [ref |-> r[2], ok |-> TRUE] /\ r \notin lapsed
      BY <2>1, <3>1 DEF Refs, Valid
    <3>3. grant[r[1]].ref = r[2] /\ grant[r[1]].ok = TRUE  BY <2>3, <3>2
    <3>4. grant[r[1]] = [ref |-> r[2], ok |-> TRUE]  BY <1>0, <3>2, <3>3 DEF Typed
    <3>. QED  BY <3>2, <3>4 DEF Valid
  <2>. QED  BY <1>0, <2>1, <2>2, <2>4, <2>5, AuthorityMoves DEF Typed
<1>3. ASSUME NEW p \in PolicyIds, Reissue(p) PROVE IInv'
  BY <1>0, <1>3, AuthorityMoves, ExecutorAssumption DEF Reissue, Typed, Valid
<1>4. ASSUME NEW r \in Refs, Lapse(r) PROVE IInv'
  BY <1>0, <1>4, AuthorityMoves DEF Lapse, Typed, Valid
<1>5. ASSUME NEW i \in Invocations, Abort(i) \/ DeadlinePasses(i) PROVE IInv'
  BY <1>1, <1>5 DEF Abort, DeadlinePasses
<1>6. ASSUME ReplaceTool PROVE IInv'
  BY <1>1, <1>6 DEF ReplaceTool
<1>. QED  BY <1>2, <1>3, <1>4, <1>5, <1>6 DEF World

\* What a call of a sink leaves in the journals of its invocation.
Grown(i) ==
  \A s \in SinkIds :
    \/ log'[s][i] = log[s][i]
    \/ /\ s = at[i] /\ Prior(log'[s][i]) = EventType(i) /\ Last(log'[s][i]) = EventOf(i)
       /\ Has(log[s][i], "started") => Has(log'[s][i], "started")

\* What a record writes is an event of the type its place calls for.
LEMMA EventsAreEvents ==
  ASSUME Typed, NEW i \in Invocations, pc[i] \in Recording
  PROVE  EventType(i) \in Types /\ EventOf(i) \in Events /\ EventOf(i).type = EventType(i)
<1>1. EventType(i) \in Types  BY DEF EventType, Types, Recording
<1>2. phase[i] \in Phases /\ outcome[i] \in Outcomes  BY DEF Typed
<1>. QED  BY <1>1, <1>2 DEF EventOf, Event, Events

\* A sink stores one event at the end of one stream, and none is lost.
LEMMA StoreGrows ==
  ASSUME Typed, NEW i \in Invocations, pc[i] \in Recording, at[i] \in SinkIds, Store(i)
  PROVE  /\ Grown(i)
         /\ log' \in [SinkIds -> [Invocations -> Seq(Events)]]
         /\ \A j \in Invocations \ {i} : \A s \in SinkIds : log'[s][j] = log[s][j]
         /\ Prior(log'[at[i]][i]) = EventType(i) /\ Last(log'[at[i]][i]) = EventOf(i)
<1>. DEFINE e == log[at[i]][i]
            f == Append(e, EventOf(i))
<1>1. e \in Seq(Events) /\ EventOf(i) \in Events /\ EventOf(i).type = EventType(i)
  BY EventsAreEvents DEF Typed
<1>2. /\ f \in Seq(Events) /\ Len(f) = Len(e) + 1 /\ f[Len(f)] = EventOf(i) /\ f # <<>>
      /\ \A n \in 1..Len(e) : f[n] = e[n]
      /\ Len(e) \in Nat
  BY <1>1, SMTT(30)
<1>3. Prior(f) = EventType(i) /\ Last(f) = EventOf(i)  BY <1>1, <1>2 DEF Prior, Last
<1>4. Has(e, "started") => Has(f, "started")  BY <1>2 DEF Has
<1>5. log' = [log EXCEPT ![at[i]][i] = f]  BY DEF Store
<1>6. \A s \in SinkIds : log'[s][i] = IF s = at[i] THEN f ELSE log[s][i]  BY <1>5 DEF Typed
<1>7. log' \in [SinkIds -> [Invocations -> Seq(Events)]]  BY <1>2, <1>5 DEF Typed
<1>8. \A j \in Invocations \ {i} : \A s \in SinkIds : log'[s][j] = log[s][j]  BY <1>5 DEF Typed
<1>. QED  BY <1>3, <1>4, <1>6, <1>7, <1>8 DEF Grown

\* A stream grown by an invocation whose handler was not entered is final only by
\* an event that says so.
LEMMA NothingStarted ==
  ASSUME Typed, NEW i \in Invocations, Each(i), pc[i] \in Recording, Grown(i), ~entered[i],
         NEW s \in SinkIds, Final(log'[s][i])
  PROVE  Last(log'[s][i]).phase = "not_started" /\ Last(log'[s][i]).outcome = "failed"
<1>1. CASE log'[s][i] = log[s][i]  BY <1>1 DEF Each, Logged
<1>2. CASE Prior(log'[s][i]) = EventType(i) /\ Last(log'[s][i]) = EventOf(i)
  <2>1. EventType(i) \in {"settled", "rejected"}  BY <1>2 DEF Final
  <2>2. pc[i] = "settling"  BY <2>1 DEF EventType, Recording
  <2>3. phase[i] = "not_started" /\ outcome[i] = "failed"  BY <2>2 DEF Each, Placed
  <2>. QED  BY <1>2, <2>3 DEF EventOf, Event
<1>. QED  BY <1>1, <1>2 DEF Grown

\* A sink has recorded, or there is none: on to the next one, or past the record.
LEMMA RecordedKeeps ==
  ASSUME IInv, NEW i \in Invocations, pc[i] \in Recording, Recorded(i),
         UNCHANGED <<phase, outcome, upset, mode, receiptRefs, asked, denied, entered, heard, told,
                     slots, grant, lapsed>>,
         Grown(i), log' \in [SinkIds -> [Invocations -> Seq(Events)]],
         \A j \in Invocations \ {i} : \A s \in SinkIds : log'[s][j] = log[s][j],
         Sinks # <<>> => /\ Prior(log'[at[i]][i]) = EventType(i)
                         /\ Last(log'[at[i]][i]) = EventOf(i)
  PROVE  IInv'
<1>0. Typed /\ Each(i) /\ Shared  BY DEF IInv, Each
<1>a. told[i] = Nothing /\ at[i] \in Nat /\ at[i] >= 1 /\ pc[i] # "observing"
  BY <1>0 DEF Each, Placed, Recording, Typed
<1>c. pc[i] # "settling" => EventType(i) \in {"requested", "admitted", "started"}
  BY DEF EventType, Recording
<1>d. Len(Sinks) \in Nat /\ (Len(Sinks) = 0 <=> Sinks = <<>>)  BY ExecutorAssumption
<1>1. CASE at[i] < Len(Sinks)
  <2>0. /\ at' = [at EXCEPT ![i] = @ + 1]
        /\ UNCHANGED <<pc, stage, journalState, revoked>>
    BY <1>1 DEF Recorded
  <2>1. Typed'
    <3>1. at' \in [Invocations -> Nat]  BY <1>0, <2>0 DEF Typed
    <3>. QED  BY <1>0, <2>0, <3>1 DEF Typed
  <2>2. Others(i)  BY <1>0, <2>0 DEF Typed, Others
  <2>3. at'[i] = at[i] + 1 /\ at[i] \in SinkIds /\ Sinks # <<>>
    BY <1>0, <1>a, <1>1, <1>d, <2>0 DEF Typed, SinkIds
  <2>4. Placed(i)'
    BY <1>0, <1>a, <1>1, <2>0, <2>3 DEF Each, Placed, Recording, Over, SinkIds
  <2>5. Logged(i)'
    <3>1. pc'[i] = "starting" => \A s \in SinkIds : s < at'[i] => Prior(log'[s][i]) = "started"
      BY <1>0, <1>a, <2>0, <2>3 DEF Each, Logged, Grown, EventType, SinkIds
    <3>2. ~(stage'[i] = "final" /\ pc'[i] \in {"authorizing", "decided"}) /\ pc'[i] # "running"
      BY <2>0 DEF Recording
    <3>3. ~entered[i] => \A s \in SinkIds : Final(log'[s][i]) =>
            Last(log'[s][i]).phase = "not_started" /\ Last(log'[s][i]).outcome = "failed"
      BY <1>0, NothingStarted
    <3>4. ASSUME entered[i]
          PROVE  /\ \A s \in SinkIds : Has(log'[s][i], "started")
                 /\ \A s \in SinkIds :
                      IF s < at'[i] THEN Last(log'[s][i]) = Event("settled", "settled", outcome[i])
                                    ELSE Prior(log'[s][i]) = "started"
                 /\ outcome[i] \in Outcomes /\ pc[i] = "settling"
      <4>1. pc[i] = "settling" /\ EventOf(i) = Event("settled", "settled", outcome[i])
        BY <1>0, <3>4 DEF Each, Placed, Recording, EventOf, EventType
      <4>2. \A s \in SinkIds : Has(log'[s][i], "started")
        BY <1>0, <3>4 DEF Each, Logged, Grown
      <4>3. ASSUME NEW s \in SinkIds, s < at'[i]
            PROVE  Last(log'[s][i]) = Event("settled", "settled", outcome[i])
        <5>1. CASE s = at[i]  BY <2>3, <4>1, <5>1
        <5>2. CASE s # at[i]
          <6>1. s < at[i]  BY <1>a, <2>3, <4>3, <5>2 DEF SinkIds
          <6>. QED  BY <1>0, <3>4, <4>1, <5>2, <6>1 DEF Each, Logged, Grown
        <5>. QED  BY <5>1, <5>2
      <4>4. ASSUME NEW s \in SinkIds, ~(s < at'[i])  PROVE Prior(log'[s][i]) = "started"
        <5>1. ~(s < at[i]) /\ s # at[i]  BY <1>a, <2>3, <4>4 DEF SinkIds
        <5>. QED  BY <1>0, <3>4, <4>1, <5>1 DEF Each, Logged, Grown
      <4>5. outcome[i] \in Outcomes  BY <1>0 DEF Typed
      <4>. QED  BY <4>1, <4>2, <4>3, <4>4, <4>5
    <3>. QED  BY <2>0, <3>1, <3>2, <3>3, <3>4 DEF Logged
  <2>6. Heard(i)'  BY <1>0, <1>a, <2>0 DEF Each, Heard, Recording
  <2>7. Granted(i)'  BY <1>0, <2>0 DEF Each, Granted, Valid, Recording
  <2>8. Shared'  BY <1>0 DEF Shared
  <2>. QED  BY <2>1, <2>2, <2>4, <2>5, <2>6, <2>7, <2>8, Assemble DEF Each
<1>2. CASE ~(at[i] < Len(Sinks))
  <2>0. /\ at' = [at EXCEPT ![i] = 1]
        /\ journalState' =
             [journalState EXCEPT ![i] = IF pc[i] = "settling" THEN @ ELSE EventType(i)]
        /\ stage' = IF pc[i] = "starting" THEN [stage EXCEPT ![i] = "final"] ELSE stage
        /\ revoked' = IF pc[i] = "starting"
                      THEN [revoked EXCEPT ![i] = {r \in receiptRefs[i] : ~Valid(r)}] ELSE revoked
        /\ Goto(i, CASE pc[i] = "requesting" -> "screening"
                     [] pc[i] = "admitting"  -> "admitted"
                     [] pc[i] = "starting"   -> "authorizing"
                     [] pc[i] = "settling"   -> "observing")
    BY <1>2 DEF Recorded
  <2>1. Typed'
    <3>1. at' \in [Invocations -> Nat]  BY <1>0, <2>0 DEF Typed
    <3>2. journalState' \in [Invocations -> {"none", "requested", "admitted", "started"}]
      BY <1>0, <1>c, <2>0 DEF Typed
    <3>3. stage' \in [Invocations -> Stages]  BY <1>0, <2>0 DEF Typed, Stages
    <3>4. revoked' \in [Invocations -> SUBSET Refs]  BY <1>0, <2>0 DEF Typed
    <3>5. pc' \in [Invocations -> PCs]  BY <1>0, <2>0 DEF Typed, Goto, PCs, Recording
    <3>. QED  BY <1>0, <3>1, <3>2, <3>3, <3>4, <3>5 DEF Typed
  <2>2. Others(i)  BY <1>0, <2>0 DEF Typed, Others, Goto
  <2>3. /\ at'[i] = 1
        /\ \/ pc[i] = "requesting" /\ pc'[i] = "screening" /\ stage'[i] = stage[i]
              /\ journalState'[i] = "requested" /\ revoked'[i] = revoked[i]
           \/ pc[i] = "admitting" /\ pc'[i] = "admitted" /\ stage'[i] = stage[i]
              /\ journalState'[i] = "admitted" /\ revoked'[i] = revoked[i]
           \/ pc[i] = "starting" /\ pc'[i] = "authorizing" /\ stage'[i] = "final"
              /\ journalState'[i] = "started" /\ revoked'[i] = {r \in receiptRefs[i] : ~Valid(r)}
           \/ pc[i] = "settling" /\ pc'[i] = "observing" /\ stage'[i] = stage[i]
              /\ journalState'[i] = journalState[i] /\ revoked'[i] = revoked[i]
    BY <1>0, <2>0 DEF Typed, Goto, Recording, EventType
  <2>4. Placed(i)'
    <3>0. 1 \in PolicyIds /\ 1 \in 1..(Len(Sinks) + 1) /\ stage[i] \in Stages
      BY <1>0, <1>d, ExecutorAssumption DEF PolicyIds, Typed
    <3>1. CASE pc[i] = "requesting"
      BY <1>0, <1>a, <2>3, <3>0, <3>1 DEF Each, Placed, Recording
    <3>2. CASE pc[i] = "admitting"
      BY <1>0, <1>a, <2>3, <3>0, <3>2 DEF Each, Placed, Recording, Over
    <3>3. CASE pc[i] = "starting"
      <4>1. i \in slots
        BY <1>0, <3>0, <3>3 DEF Each, Placed, Over, Stages
      <4>. QED  BY <1>0, <1>a, <2>3, <3>0, <3>3, <4>1 DEF Each, Placed, Recording, Over
    <3>4. CASE pc[i] = "settling"
      BY <1>0, <1>a, <2>3, <3>0, <3>4 DEF Each, Placed, Recording, Over
    <3>. QED  BY <3>1, <3>2, <3>3, <3>4 DEF Recording
  <2>a. \A s \in SinkIds : s <= at[i]  BY <1>a, <1>2, <1>d DEF SinkIds
  <2>b. SinkIds # {} => Sinks # <<>> /\ at[i] \in SinkIds
    BY <1>0, <1>d DEF SinkIds, Each, Placed
  <2>5. Logged(i)'
    <3>1. pc[i] = "starting" => \A s \in SinkIds : Prior(log'[s][i]) = "started"
      <4>1. SUFFICES ASSUME pc[i] = "starting", NEW s \in SinkIds
                     PROVE  Prior(log'[s][i]) = "started"
        OBVIOUS
      <4>2. CASE s = at[i]  BY <2>b, <4>1, <4>2 DEF EventType
      <4>3. CASE s # at[i]
        <5>1. s < at[i]  BY <1>a, <2>a, <4>3 DEF SinkIds
        <5>. QED  BY <1>0, <4>1, <4>3, <5>1 DEF Each, Logged, Grown
      <4>. QED  BY <4>2, <4>3
    <3>2. pc'[i] # "running" /\ (pc'[i] \in {"authorizing", "decided"} => pc[i] = "starting")
      BY <2>3
    <3>3. ~entered[i] => \A s \in SinkIds : Final(log'[s][i]) =>
            Last(log'[s][i]).phase = "not_started" /\ Last(log'[s][i]).outcome = "failed"
      BY <1>0, NothingStarted
    <3>4. ASSUME entered[i]
          PROVE  /\ \A s \in SinkIds : Has(log'[s][i], "started")
                 /\ \A s \in SinkIds : Last(log'[s][i]) = Event("settled", "settled", outcome[i])
                 /\ outcome[i] \in Outcomes /\ pc'[i] = "observing"
      <4>1. /\ pc[i] = "settling" /\ EventOf(i) = Event("settled", "settled", outcome[i])
            /\ pc'[i] = "observing" /\ outcome[i] \in Outcomes
        BY <1>0, <2>3, <3>4 DEF Each, Placed, EventOf, EventType, Typed
      <4>2. \A s \in SinkIds : Has(log'[s][i], "started")
        BY <1>0, <3>4 DEF Each, Logged, Grown
      <4>3. ASSUME NEW s \in SinkIds, s # at[i]
            PROVE  Last(log'[s][i]) = Event("settled", "settled", outcome[i])
        <5>1. s < at[i]  BY <1>a, <2>a, <4>3 DEF SinkIds
        <5>. QED  BY <1>0, <3>4, <4>1, <4>3, <5>1 DEF Each, Logged, Grown
      <4>. QED  BY <2>b, <4>1, <4>2, <4>3
    <3>. QED  BY <2>3, <3>1, <3>2, <3>3, <3>4 DEF Logged
  <2>6. Heard(i)'  BY <1>0, <1>a, <2>3 DEF Each, Heard, SinkIds
  <2>7. Granted(i)'
    <3>1. CASE pc[i] = "starting"
      <4>1. /\ asked'[i] = {} /\ pc'[i] = "authorizing" /\ at'[i] = 1
            /\ receiptRefs'[i] = receiptRefs[i] /\ revoked'[i] = {r \in receiptRefs[i] : ~Valid(r)}
        BY <1>0, <2>3, <3>1 DEF Each, Granted
      <4>2. \A r : Valid(r)' <=> Valid(r)  BY DEF Valid
      <4>3. \A p \in PolicyIds : ~(p < 1)  BY DEF PolicyIds
      <4>. QED  BY <1>0, <4>1, <4>2, <4>3 DEF Each, Granted
    <3>2. CASE pc[i] # "starting"  BY <1>0, <2>3, <3>2 DEF Each, Granted, Valid
    <3>. QED  BY <3>1, <3>2
  <2>8. Shared'  BY <1>0 DEF Shared
  <2>. QED  BY <2>1, <2>2, <2>4, <2>5, <2>6, <2>7, <2>8, Assemble DEF Each
<1>. QED  BY <1>1, <1>2

\* A sink throws, whether or not it has stored the event.
LEMMA RecordThrowsKeeps ==
  ASSUME IInv, NEW i \in Invocations, pc[i] \in Recording, RecordThrows(i),
         UNCHANGED <<mode, receiptRefs, asked, denied, entered, heard, told, slots, grant, lapsed>>,
         Grown(i), log' \in [SinkIds -> [Invocations -> Seq(Events)]],
         \A j \in Invocations \ {i} : \A s \in SinkIds : log'[s][j] = log[s][j]
  PROVE  IInv'
<1>0. Typed /\ Each(i) /\ Shared  BY DEF IInv, Each
<1>a. told[i] = Nothing  BY <1>0 DEF Each, Placed, Recording
<1>d. ~entered[i] => \A s \in SinkIds : Final(log'[s][i]) =>
        Last(log'[s][i]).phase = "not_started" /\ Last(log'[s][i]).outcome = "failed"
  BY <1>0, NothingStarted
<1>e. UNCHANGED <<journalState, revoked>>  BY DEF RecordThrows
<1>1. CASE pc[i] # "settling"
  <2>1. PICK st \in {"early", "outer"} : Reject(i, st)  BY <1>1 DEF RecordThrows, Recording
  <2>2. ~entered[i]  BY <1>0, <1>1 DEF Each, Placed, Recording
  <2>3. st \in Stages /\ st \notin {"inner", "final", "slot"}  BY DEF Stages
  <2>4. asked' \in [Invocations -> SUBSET Refs] /\ \A j \in Invocations : asked'[j] = asked[j]
    BY <1>0 DEF Typed
  <2>. QED  BY <1>a, <1>d, <1>e, <2>1, <2>2, <2>3, <2>4, RejectKeeps
<1>2. CASE pc[i] = "settling"
  <2>0. /\ phase'   = [phase EXCEPT ![i] = IF @ = "not_started" THEN @ ELSE "started"]
        /\ outcome' = [outcome EXCEPT ![i] = IF phase[i] = "not_started" THEN @ ELSE "unknown"]
        /\ at' = [at EXCEPT ![i] = 1] /\ Goto(i, "observing")
        /\ UNCHANGED <<stage, upset>>
    BY <1>2 DEF RecordThrows
  <2>1. Typed'
    BY <1>0, <1>e, <2>0 DEF Typed, Goto, PCs, Phases, Outcomes
  <2>2. Others(i)  BY <1>0, <1>e, <2>0 DEF Typed, Others, Goto
  <2>3. /\ pc'[i] = "observing" /\ at'[i] = 1
        /\ phase'[i] = IF phase[i] = "not_started" THEN phase[i] ELSE "started"
        /\ outcome'[i] = IF phase[i] = "not_started" THEN outcome[i] ELSE "unknown"
    BY <1>0, <2>0 DEF Typed, Goto
  <2>4. Placed(i)'
    BY <1>0, <1>2, <1>a, <1>e, <2>0, <2>3, ExecutorAssumption DEF Each, Placed, Over, SinkIds
  <2>5. Logged(i)'
    <3>1. ASSUME entered[i]
          PROVE  /\ \A s \in SinkIds : Has(log'[s][i], "started")
                 /\ \A s \in SinkIds : \/ Prior(log'[s][i]) = "started"
                                       \/ Last(log'[s][i]) = Event("settled", "settled", outcome[i])
                 /\ outcome[i] \in Outcomes /\ outcome'[i] = "unknown"
      <4>1. EventOf(i) = Event("settled", "settled", outcome[i]) /\ outcome'[i] = "unknown"
        BY <1>0, <1>2, <2>3, <3>1 DEF Each, Placed, EventOf, EventType
      <4>. QED  BY <1>0, <1>2, <3>1, <4>1 DEF Each, Logged, Grown, Typed
    <3>. QED  BY <1>d, <2>3, <3>1 DEF Logged
  <2>6. Heard(i)'  BY <1>0, <2>0, <2>3 DEF Each, Heard, SinkIds
  <2>7. Granted(i)'  BY <1>0, <1>e, <2>3 DEF Each, Granted, Valid
  <2>8. Shared'  BY <1>0 DEF Shared
  <2>. QED  BY <2>1, <2>2, <2>4, <2>5, <2>6, <2>7, <2>8, Assemble DEF Each
<1>. QED  BY <1>1, <1>2

\* One call of a sink.
LEMMA RecordStepKeeps ==
  ASSUME IInv, NEW i \in Invocations, RecordStep(i)  PROVE  IInv'
<1>0. Typed /\ Each(i)  BY DEF IInv, Each
<1>1. /\ pc[i] \in Recording
      /\ UNCHANGED <<mode, receiptRefs, asked, denied, entered, heard, told, slots, grant, lapsed>>
  BY DEF RecordStep, world
<1>2. ASSUME UNCHANGED log
      PROVE  /\ Grown(i) /\ log' \in [SinkIds -> [Invocations -> Seq(Events)]]
             /\ \A j \in Invocations \ {i} : \A s \in SinkIds : log'[s][j] = log[s][j]
  BY <1>0, <1>2 DEF Grown, Typed
<1>3. Sinks # <<>> => at[i] \in SinkIds  BY <1>0, <1>1 DEF Each, Placed
<1>4. CASE Sinks = <<>> /\ Recorded(i) /\ UNCHANGED <<phase, outcome, upset, log, faults>>
  BY <1>1, <1>2, <1>4, RecordedKeeps
<1>5. CASE /\ Sinks # <<>> /\ Accepts(i) /\ Store(i) /\ Recorded(i)
           /\ UNCHANGED <<phase, outcome, upset, faults>>
  BY <1>0, <1>1, <1>3, <1>5, StoreGrows, RecordedKeeps
<1>6. CASE Sinks # <<>> /\ Store(i) /\ RecordThrows(i)
  BY <1>0, <1>1, <1>3, <1>6, StoreGrows, RecordThrowsKeeps
<1>7. CASE RecordThrows(i) /\ UNCHANGED log
  BY <1>1, <1>2, <1>7, RecordThrowsKeeps
<1>. QED  BY <1>4, <1>5, <1>6, <1>7 DEF RecordStep

\* The invariant holds of every behaviour.
THEOREM Invariance == Spec => []IInv
<1>1. IInv /\ [Next]_vars => IInv'
  <2>. SUFFICES ASSUME IInv, [Next]_vars PROVE IInv'  OBVIOUS
  <2>1. CASE UNCHANGED vars
    <3>1. UNCHANGED <<inside, grant, lapsed>>  BY <2>1 DEF vars, inside, world, receipt
    <3>. QED  BY <3>1, AuthorityStays
  <2>2. ASSUME NEW i \in Invocations, Step(i) PROVE IInv'
    BY <2>2, CallKeeps, RecordStepKeeps, ScreenKeeps, AuthorizeKeeps, PolicyThrowsKeeps,
       DecideEarlyKeeps, AdmitKeeps, DropKeeps, DispatchKeeps, DecideInSlotKeeps, IntendKeeps,
       EnterKeeps, HandlerEndsKeeps, HearKeeps, EndFinishKeeps, ReleaseKeeps DEF Step
  <2>3. CASE World  BY <2>3, WorldKeeps
  <2>. QED  BY <2>1, <2>2, <2>3 DEF Next
<1>. QED  BY Starts, <1>1, PTL DEF Spec

\* A handler is entered only when every journal holds its intent, so that no crash
\* leaves an effect that a recovery calls "not_started" (executor.ts 260-287).
THEOREM IntentIsOnRecord == Spec => []EffectHasIntent
<1>1. IInv => EffectHasIntent  BY DEF IInv, Logged, EffectHasIntent
<1>. QED  BY <1>1, Invariance, PTL

\* What a caller, a journal and an observer are told is what the invariant keeps of
\* each: Placed the answer, Logged the journals, Heard the observers.
LEMMA ToldTruly ==
  ASSUME IInv  PROVE  ToldIsTrue
<1>0. \A i \in Invocations : Each(i)  BY DEF IInv, Each
<1>a. Typed  BY DEF IInv
<1>b. \A e : Last(e) = e[Len(e)]  BY DEF Last
<1>1. NotStartedIsTrue
  <2>1. SUFFICES ASSUME NEW i \in Invocations, NEW s \in SinkIds, entered[i]
                 PROVE  /\ Recovered(log[s][i]) # "not_started"
                        /\ Final(log[s][i]) => Last(log[s][i]).phase # "not_started"
    BY <1>b DEF NotStartedIsTrue
  <2>2. log[s][i] \in Seq(Events) /\ Has(log[s][i], "started")
    BY <1>0, <1>a, <2>1 DEF Each, Logged, Typed
  <2>3. Recovered(log[s][i]) # "not_started"  BY <2>2 DEF Recovered
  <2>4. Prior(log[s][i]) = "started" \/ Last(log[s][i]).phase = "settled"
    <3>1. PICK out \in Outcomes :
            Prior(log[s][i]) = "started" \/ Last(log[s][i]) = Event("settled", "settled", out)
      BY <1>0, <2>1 DEF Each, Logged
    <3>. QED  BY <3>1 DEF Event
  <2>. QED  BY <2>2, <2>3, <2>4, StartedIsHad
<1>2. AnswerIsOnRecord
  <2>1. SUFFICES ASSUME NEW i \in Invocations, told[i] # Nothing
                 PROVE  /\ told[i].phase = "not_started" <=> ~entered[i]
                        /\ entered[i] /\ told[i].outcome # "unknown" =>
                             \A s \in SinkIds :
                               Last(log[s][i]) = Event("settled", "settled", told[i].outcome)
    BY <1>b DEF AnswerIsOnRecord
  <2>2. pc[i] = "returned" /\ told[i] = [outcome |-> outcome[i], phase |-> phase[i]]
    BY <1>0, <2>1 DEF Each, Placed
  <2>3. told[i].phase = "not_started" <=> ~entered[i]  BY <1>0, <1>a, <2>2 DEF Each, Placed, Typed
  <2>4. entered[i] /\ told[i].outcome # "unknown" =>
          \A s \in SinkIds : Last(log[s][i]) = Event("settled", "settled", told[i].outcome)
    BY <1>0, <2>2 DEF Each, Logged
  <2>. QED  BY <2>3, <2>4
<1>3. JournalsAgree
  <2>1. SUFFICES ASSUME NEW i \in Invocations, NEW s \in SinkIds, NEW t \in SinkIds,
                        Final(log[s][i]), Final(log[t][i])
                 PROVE  Last(log[s][i]).outcome = Last(log[t][i]).outcome
    BY <1>b DEF JournalsAgree
  <2>2. CASE ~entered[i]  BY <1>0, <2>1, <2>2 DEF Each, Logged
  <2>3. CASE entered[i]
    <3>1. Prior(log[s][i]) # "started" /\ Prior(log[t][i]) # "started"  BY <2>1 DEF Final
    <3>. QED  BY <1>0, <2>3, <3>1 DEF Each, Logged, Event
  <2>. QED  BY <2>2, <2>3
<1>4. ObserversAgree
  <2>1. SUFFICES ASSUME NEW i \in Invocations, told[i] # Nothing, NEW s \in SinkIds
                 PROVE  heard[i][s] = told[i].outcome
    BY DEF ObserversAgree
  <2>2. pc[i] = "returned" /\ told[i] = [outcome |-> outcome[i], phase |-> phase[i]]
    BY <1>0, <2>1 DEF Each, Placed
  <2>. QED  BY <1>0, <2>2 DEF Each, Heard
<1>. QED  BY <1>1, <1>2, <1>3, <1>4 DEF ToldIsTrue

\* What the caller, the journals and the observers are told about an execution is
\* true of it, and the same (executor.ts 137-183).
THEOREM ToldIsTheTruth == Spec => []ToldIsTrue
BY Invariance, ToldTruly, PTL

\* A handler is entered by Enter alone, after the third decision and the last look
\* at signal, deadline and catalog.
LEMMA OnlyEnterEnters ==
  ASSUME IInv, [Next]_vars, NEW j \in Invocations, ~entered[j], entered'[j]
  PROVE  /\ pc[j] = "decided" /\ stage[j] = "final" /\ ~(AuthorityLost(j) \/ Stopped(j))
         /\ \A i \in Invocations \ {j} : entered'[i] = entered[i]
<1>0. Typed  BY DEF IInv
<1>1. UNCHANGED entered \/ \E i \in Invocations : Enter(i)
  <2>1. CASE UNCHANGED vars  BY <2>1 DEF vars
  <2>2. ASSUME NEW i \in Invocations, Step(i) PROVE UNCHANGED entered \/ Enter(i)
    BY <2>2 DEF Step, Call, RecordStep, Screen, Authorize, PolicyThrows, DecideEarly, Admit,
       Drop, Dispatch, DecideInSlot, Intend, HandlerEnds, Hear, EndFinish, Release
  <2>3. CASE World
    BY <2>3 DEF World, Abort, DeadlinePasses, ReplaceTool, Revoke, Reissue, Lapse, inside
  <2>. QED  BY <2>1, <2>2, <2>3 DEF Next
<1>2. PICK i \in Invocations : Enter(i)  BY <1>1
<1>3. /\ pc[i] = "decided" /\ stage[i] = "final" /\ ~(AuthorityLost(i) \/ Stopped(i))
      /\ entered' = [entered EXCEPT ![i] = TRUE]
  BY <1>2 DEF Enter, At
<1>4. i = j  BY <1>0, <1>3 DEF Typed
<1>. QED  BY <1>0, <1>3, <1>4 DEF Typed

\* No handler is entered next to or after an exclusive one whose observers have not
\* heard of it (executor.ts 323-335).
THEOREM HeardBeforeTheNext == Spec => ObservedBeforeNext
<1>1. IInv /\ [Next]_vars => HeardFirst
  <2>. SUFFICES ASSUME IInv, [Next]_vars, NEW i \in Invocations, NEW j \in Invocations, i # j,
                       entered[i], ~entered[j], entered'[j], "exclusive" \in {mode[i], mode[j]}
                PROVE  \A s \in SinkIds : heard[i][s] # Nothing
    BY DEF HeardFirst
  <2>1. pc[j] = "decided" /\ stage[j] = "final"  BY OnlyEnterEnters
  <2>2. j \in slots  BY <2>1 DEF IInv, Placed, Over
  <2>3. i \notin slots  BY <2>2 DEF IInv, Shared
  <2>. QED  BY <2>3 DEF IInv, Shared
<1>. QED  BY <1>1, Invariance, PTL DEF Spec, ObservedBeforeNext

\* A handler is entered under the authority that its receipt names, all of it good
\* when the intent became durable, by a call nothing has stopped (executor.ts
\* 268-291).
THEOREM ReceiptCovers == Spec => EnteredUnderReceipt
<1>1. IInv /\ [Next]_vars => Covered
  <2>. SUFFICES ASSUME IInv, [Next]_vars, NEW i \in Invocations, ~entered[i], entered'[i]
                PROVE  /\ revoked[i] = {} /\ receiptRefs[i] \cap lapsed = {}
                       /\ \A p \in PolicyIds : \E n \in 1..MaxRefs : <<p, n>> \in receiptRefs[i]
                       /\ ~Stopped(i)
    BY DEF Covered
  <2>1. pc[i] = "decided" /\ stage[i] = "final" /\ ~AuthorityLost(i) /\ ~Stopped(i)
    BY OnlyEnterEnters
  <2>2. ~denied[i] /\ asked[i] = receiptRefs[i] /\ receiptRefs[i] \cap lapsed = {}
    BY <2>1 DEF AuthorityLost, Denied
  <2>3. Granted(i)  BY DEF IInv
  <2>4. revoked[i] = {}  BY <2>1, <2>2, <2>3 DEF Granted
  <2>. QED  BY <2>1, <2>2, <2>3, <2>4 DEF Granted
<1>. QED  BY <1>1, Invariance, PTL DEF Spec, EnteredUnderReceipt
====
