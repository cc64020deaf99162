----------------------------- MODULE GrantStore -----------------------------
(***************************************************************************)
(* The local custody of grants (src/framework/work/grants.ts): a journal   *)
(* of issued and revoked grants and of what attempts used of them.  Every  *)
(* call takes the "grant-state" lock or throws, so that what it reads      *)
(* still holds when it writes, also across processes and across the await  *)
(* in updateUsage.  One binding: a grant of another one is never selected. *)
(***************************************************************************)
EXTENDS Integers, Sequences, FiniteSets, FiniteSetsExt

CONSTANTS
  Procs,       \* processes that have the store open
  Attempts,
  Executions,  \* receipts whose output is accounted
  Sizes,       \* what an output may count
  MaxGrants, MaxClock,                              \* bounds of the model
  MaxAttempts, MaxActions, MaxOutput, MaxDuration,  \* the limits of every grant
  None

ASSUME LimitsAssumption ==
  /\ {MaxAttempts, MaxActions, MaxOutput, MaxDuration} \subseteq Nat \ {0}
  /\ MaxGrants \in Nat /\ MaxClock \in Nat /\ Sizes \subseteq Nat \ {0}
  /\ None \notin Procs \cup Nat

VARIABLES
  log,    \* the events of stream "local-grants-v1"
  lock,   \* who holds "grant-state"
  clock,
  call    \* per process: idle, or how far the event it is after has come

vars == <<log, lock, clock, call>>

Idle == <<"idle">>
Grants == 1..MaxGrants

------------------------------------------------------------------------------
(* What the journal says.                                                  *)

Issued(g)  == {i \in DOMAIN log : log[i].type = "issued" /\ log[i].grant = g}
Known      == {log[i].grant : i \in {i \in DOMAIN log : log[i].type = "issued"}}
Record(g)  == log[CHOOSE i \in Issued(g) : TRUE]
Revoked(g) == \E i \in DOMAIN log : log[i].type = "revoked" /\ log[i].grant = g

Uses(g, a, type) ==
  {i \in DOMAIN log : log[i].type = type /\ log[i].grant = g /\ log[i].attempt = a}
AttemptsOf(g)  == {a \in Attempts : Uses(g, a, "attempt") # {}}
StartedAt(g, a) == log[CHOOSE i \in Uses(g, a, "attempt") : TRUE].at
Output(g, a)   == MapThenSumSet(LAMBDA i : log[i].bytes, Uses(g, a, "output"))
Accounted(g, a, e) == \E i \in Uses(g, a, "output") : log[i].execution = e

\* Seeded fault: revocation is ignored.
InForceUnlessExpired(g) == Record(g).expires > clock
InForce(g) == ~Revoked(g) /\ Record(g).expires > clock

\* resolve, for the use of a grant: the last one issued of those in force.
Candidates ==
  {i \in DOMAIN log : log[i].type = "issued" /\ log[i].purpose = "execution" /\ InForce(log[i].grant)}

\* Seeded fault: the first one issued.
Oldest  == IF Candidates = {} THEN None ELSE log[CHOOSE i \in Candidates : \A j \in Candidates : i <= j].grant
Resolve == IF Candidates = {} THEN None ELSE log[CHOOSE i \in Candidates : \A j \in Candidates : j <= i].grant

\* validateEvent, which the journal runs on every append.
Valid(e) ==
  CASE e.type = "issued"  -> e.grant \notin Known
    [] e.type = "revoked" -> e.grant \in Known
    [] e.type = "attempt" -> e.grant \in Known /\ e.attempt \notin AttemptsOf(e.grant)
    [] e.type = "action"  -> e.attempt \in AttemptsOf(e.grant)
    [] e.type = "output"  -> e.attempt \in AttemptsOf(e.grant) /\ ~Accounted(e.grant, e.attempt, e.execution)

------------------------------------------------------------------------------
(* The calls.  A grant's id is drawn when it is issued: here, the next one. *)

Ask(types, grants, purposes, expiries, ofs, attempts, sizes, executions) ==
  [type : types, grant : grants, purpose : purposes, expires : expiries, of : ofs,
   attempt : attempts, bytes : sizes, execution : executions, at : {0}]

\* What is asked for; the grant a use is charged to is resolved later.
Expiries == 1..(MaxClock + 1)
NewGrants ==
  Ask({"issued"}, {None}, {"execution"}, Expiries, {None}, {None}, {0}, {None})
  \cup Ask({"issued"}, {None}, {"completion"}, Expiries, Known, {None}, {0}, {None})
Requests ==
  (IF Cardinality(Known) < MaxGrants THEN NewGrants ELSE {})
  \cup Ask({"revoked"}, Known, {None}, {0}, {None}, {None}, {0}, {None})
  \cup Ask({"attempt", "action"}, {None}, {None}, {0}, {None}, Attempts, {0}, {None})
  \cup Ask({"output"}, {None}, {None}, {0}, {None}, Attempts, Sizes, Executions)

\* Seeded fault: no lock.
BeginAnyway(p, e) ==
  /\ call[p] = Idle
  /\ lock' = p /\ call' = [call EXCEPT ![p] = <<"locked", e>>]
  /\ UNCHANGED <<log, clock>>

\* acquireJournalOwnership throws at once when somebody has the lock.
Begin(p, e) ==
  /\ call[p] = Idle /\ lock = None
  /\ lock' = p /\ call' = [call EXCEPT ![p] = <<"locked", e>>]
  /\ UNCHANGED <<log, clock>>

Go(p, next) == call' = [call EXCEPT ![p] = next] /\ UNCHANGED <<log, clock, lock>>

\* The call returns or throws; its finally block gives the lock back.
End(p) == call' = [call EXCEPT ![p] = Idle] /\ lock' = None /\ UNCHANGED <<log, clock>>

\* issue: a completion grant needs an execution grant that outlives it.
Issuable(e) ==
  /\ e.expires > clock
  /\ e.purpose = "completion" =>
       e.of \in Known /\ Record(e.of).purpose = "execution" /\ ~Revoked(e.of) /\ Record(e.of).expires >= e.expires

Issue(p) ==
  /\ call[p][1] = "locked" /\ call[p][2].type = "issued"
  /\ IF Issuable(call[p][2])
     THEN Go(p, <<"allowed", [call[p][2] EXCEPT !.grant = Cardinality(Known) + 1]>>)
     ELSE End(p)

Revoke(p) ==
  /\ call[p][1] = "locked" /\ call[p][2].type = "revoked"
  /\ IF Revoked(call[p][2].grant) THEN End(p) ELSE Go(p, <<"allowed", call[p][2]>>)

\* updateUsage up to its await ...
Use(p) ==
  /\ call[p][1] = "locked" /\ call[p][2].type \in {"attempt", "action", "output"}
  /\ IF Resolve = None THEN End(p) ELSE Go(p, <<"resolved", [call[p][2] EXCEPT !.grant = Resolve]>>)

WithinDuration(e) == clock - StartedAt(e.grant, e.attempt) < MaxDuration

\* Seeded fault: the output is compared before it is added.
FitsBefore(e) == Output(e.grant, e.attempt) < MaxOutput
Fits(e) == Output(e.grant, e.attempt) + e.bytes <= MaxOutput

\* ... and after it, as the kind of use asks.  FALSE: it throws, or has nothing to do.
Allowed(e) ==
  LET g == e.grant
      a == e.attempt
  IN CASE e.type = "attempt" -> a \notin AttemptsOf(g) /\ Cardinality(AttemptsOf(g)) < MaxAttempts
       [] e.type = "action"  -> /\ a \in AttemptsOf(g) /\ WithinDuration(e)
                                /\ Cardinality(Uses(g, a, "action")) < MaxActions
       [] e.type = "output"  -> /\ ~Accounted(g, a, e.execution)
                                /\ a \in AttemptsOf(g) /\ WithinDuration(e)
                                /\ Fits(e)

Charge(p) ==
  /\ call[p][1] = "resolved"
  /\ IF Allowed(call[p][2]) THEN Go(p, <<"allowed", call[p][2]>>) ELSE End(p)

\* append, with the journal's validation; then the lock is released.
Write(p) ==
  /\ call[p][1] = "allowed"
  /\ log' = IF Valid(call[p][2]) THEN Append(log, [call[p][2] EXCEPT !.at = clock]) ELSE log
  /\ call' = [call EXCEPT ![p] = Idle] /\ lock' = None
  /\ UNCHANGED clock

\* The process dies; its lock is reclaimed (JournalLock).
Crash(p) ==
  /\ call[p] # Idle
  /\ call' = [call EXCEPT ![p] = Idle] /\ lock' = IF lock = p THEN None ELSE lock
  /\ UNCHANGED <<log, clock>>

Tick == clock < MaxClock /\ clock' = clock + 1 /\ UNCHANGED <<log, lock, call>>

Init == log = <<>> /\ lock = None /\ clock = 0 /\ call = [p \in Procs |-> Idle]

Next ==
  \/ \E p \in Procs, e \in Requests : Begin(p, e)
  \/ \E p \in Procs : Issue(p) \/ Revoke(p) \/ Use(p) \/ Charge(p) \/ Write(p) \/ Crash(p)
  \/ Tick

Spec == Init /\ [][Next]_vars

------------------------------------------------------------------------------
(* Properties.                                                             *)

Event ==
  [type : {"issued", "revoked", "attempt", "action", "output"},
   grant : Nat \cup {None}, of : Nat \cup {None},
   purpose : {"execution", "completion", None}, expires : Nat,
   attempt : Attempts \cup {None}, execution : Executions \cup {None}, bytes : Nat, at : Nat]

\* The journal holds events of its schema, and only the holder of "grant-state"
\* is at work on one.
TypeOK ==
  /\ log \in Seq(Event) /\ lock \in Procs \cup {None} /\ clock \in Nat
  /\ call \in [Procs -> {Idle} \cup {"locked", "resolved", "allowed"} \X Event]
  /\ \A p \in Procs : lock = p <=> call[p] # Idle

\* No grant is used beyond its limits, whoever counts and charges at the same
\* time (updateUsage reads the usage, and appends to it, in two steps).
WithinLimits ==
  \A g \in Known :
    /\ Cardinality(AttemptsOf(g)) <= MaxAttempts
    /\ \A a \in Attempts : Cardinality(Uses(g, a, "action")) <= MaxActions /\ Output(g, a) <= MaxOutput

\* Once its revocation is on record, nothing is charged to a grant, nor is a
\* completion grant bound to it, not even by a call that resolved it before.
NothingAfterRevocation ==
  \A i, j \in DOMAIN log :
    i < j /\ log[i].type = "revoked" => log[i].grant \notin {log[j].grant, log[j].of}

\* A use is charged to the newest execution grant that was in force, never to
\* an older one whose budget is left (resolve, and the await after it).
NewestPays ==
  \A j \in DOMAIN log : \A g \in Grants :
    /\ log[j].type \in {"attempt", "action", "output"} /\ g > log[j].grant
    /\ \E i \in 1..(j - 1) : /\ log[i].type = "issued" /\ log[i].grant = g
                            /\ log[i].purpose = "execution" /\ log[i].expires > log[j].at
    => \E i \in 1..(j - 1) : log[i].type = "revoked" /\ log[i].grant = g

\* The journal is well formed, no grant is charged past a limit, and a charge
\* falls on the newest grant in force (grants.ts 137-200).
Budgets == TypeOK /\ WithinLimits /\ NewestPays
=============================================================================
