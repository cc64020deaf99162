---------------------------- MODULE ToolScheduler ----------------------------
(***************************************************************************)
(* The admission scheduler of src/framework/tool-scheduler.ts: one FIFO    *)
(* queue in front of a readers/writer reservation, shared by an executor   *)
(* and all its registry projections.                                       *)
(*                                                                         *)
(* A call is one promise returned by run.  A root call goes through the    *)
(* queue; a child call is made through the BoundToolScheduler handed to a  *)
(* running operation and takes no slot of its own: it waits behind its     *)
(* elder siblings (the `tail` promise of its parent) and runs inside the   *)
(* root's reservation.  Every synchronous stretch of the JavaScript is one *)
(* action; drain() is part of each action that calls it.                   *)
(***************************************************************************)
EXTENDS Naturals, Sequences, FiniteSets

CONSTANTS Calls,         \* the calls made during the life of the scheduler
          MaxParallel,   \* the normalised maxParallel option
          NoParent       \* the "parent" of a root call

ASSUME SchedulerAssumption ==
  /\ IsFiniteSet(Calls)
  /\ MaxParallel \in Nat \ {0}
  /\ NoParent \notin Calls

VARIABLES
  queue,      \* this.queue: root calls not admitted yet
  readers,    \* this.readers
  writer,     \* this.writer
  mode,       \* the ToolSchedulingMode each call asks for
  status,     \* where each call stands
  parent,     \* whose bound capability a child call used
  inherits,   \* the calls whose signal and deadline bind a call (its opts)
  chain,      \* per parent, its children not settled yet: the `tail` promise
  awaited,    \* child calls whose promise the parent operation awaits
  aborted,    \* calls whose AbortSignal has fired
  expired     \* calls whose absolute deadline has passed

vars == <<queue, readers, writer, mode, status, parent, inherits, chain,
          awaited, aborted, expired>>

Modes    == {"parallel-safe", "exclusive"}
Statuses == {"idle",       \* not called yet
             "queued",     \* in this.queue
             "chained",    \* a child behind its siblings
             "running",    \* operation entered, its capability active
             "draining",   \* operation over, awaiting its children
             "settled",    \* the caller has the outcome; a root keeps its slot
             "released",   \* a root whose slot was given back
             "rejected"}   \* never entered

Running(c)  == status[c] = "running"
Busy(c)     == status[c] \in {"running", "draining"}
Holds(c)    == parent[c] = NoParent /\ status[c] \in {"running", "draining", "settled"}
Over(c)     == status[c] \in {"settled", "released", "rejected"}
HoldersOf(m) == {c \in Calls : Holds(c) /\ mode[c] = m}

\* c, the call whose capability c used, and so on up to the root call.
Lineage(c) ==
  {a \in Calls : \A S \in SUBSET Calls :
     c \in S /\ (\A x \in S : parent[x] # NoParent => parent[x] \in S) => a \in S}

-----------------------------------------------------------------------------
(* Admission.                                                              *)

\* admissionError: `off` are the calls whose signal or deadline is over.
Stopped(c, off) == inherits[c] \cap off # {}

\* The readers there are when the drain loop looks at position i of q.
ReadersAt(q, r, i, off) ==
  r + Cardinality({j \in 1..(i-1) : ~Stopped(q[j], off) /\ mode[q[j]] = "parallel-safe"})

\* Seeded fault: an exclusive entry waits for the writer only.
BlockedIgnoringReaders(q, r, i, off) ==
  /\ ~Stopped(q[i], off)
  /\ mode[q[i]] = "parallel-safe" /\ ReadersAt(q, r, i, off) >= MaxParallel

\* The two early returns of the loop: the barrier and the cap.
Blocked(q, r, i, off) ==
  /\ ~Stopped(q[i], off)
  /\ IF mode[q[i]] = "exclusive" THEN ReadersAt(q, r, i, off) > 0
                                 ELSE ReadersAt(q, r, i, off) >= MaxParallel

\* The loop also returns right after it starts an exclusive entry.
EndsAfter(q, r, i, off) ==
  /\ ~Stopped(q[i], off)
  /\ mode[q[i]] = "exclusive"
  /\ ReadersAt(q, r, i, off) = 0

\* Seeded fault: readers behind a waiting writer are let through.
TakenPastBarrier(q, w, r, off) ==
  {i \in 1..Len(q) :
     /\ ~w
     /\ \A j \in 1..(i-1) : ~EndsAfter(q, r, j, off)
     /\ \/ ~Blocked(q, r, i, off)
        \/ mode[q[i]] = "parallel-safe" /\ r < MaxParallel}

\* The positions of q the drain loop takes off the queue, a prefix of it.
Taken(q, w, r, off) ==
  {i \in 1..Len(q) :
     /\ ~w
     /\ ~Blocked(q, r, i, off)
     /\ \A j \in 1..(i-1) : ~Blocked(q, r, j, off) /\ ~EndsAfter(q, r, j, off)}

\* drain(), run on queue q, flag w, count r and statuses st.  A taken entry
\* that is over is rejected, the others are started.
Drain(q, w, r, off, st) ==
  LET taken   == {q[i] : i \in Taken(q, w, r, off)}
      started == {c \in taken : ~Stopped(c, off)}
  IN /\ queue'   = SubSeq(q, Cardinality(Taken(q, w, r, off)) + 1, Len(q))
     /\ writer'  = (w \/ \E c \in started : mode[c] = "exclusive")
     /\ readers' = r + Cardinality({c \in started : mode[c] = "parallel-safe"})
     /\ status'  = [c \in Calls |-> IF c \in started THEN "running"
                                    ELSE IF c \in taken THEN "rejected" ELSE st[c]]

-----------------------------------------------------------------------------
(* Root calls.                                                             *)

Init ==
  /\ queue = <<>> /\ readers = 0 /\ writer = FALSE
  /\ mode \in [Calls -> Modes]
  /\ status   = [c \in Calls |-> "idle"]
  /\ parent   = [c \in Calls |-> NoParent]
  /\ inherits = [c \in Calls |-> {c}]
  /\ chain    = [c \in Calls |-> <<>>]
  /\ awaited = {} /\ aborted = {} /\ expired = {}

\* run: reject at once when the signal or the deadline is over, else queue
\* the entry and drain.
Run(c) ==
  /\ status[c] = "idle"
  /\ IF Stopped(c, aborted \cup expired)
     THEN /\ status' = [status EXCEPT ![c] = "rejected"]
          /\ UNCHANGED <<queue, readers, writer>>
     ELSE Drain(Append(queue, c), writer, readers, aborted \cup expired,
                [status EXCEPT ![c] = "queued"])
  /\ UNCHANGED <<mode, parent, inherits, chain, awaited, aborted, expired>>

\* q without the entries of S.
Kept(q, S)    == {i \in 1..Len(q) : q[i] \notin S}
Rank(K, i)    == Cardinality({j \in K : j <= i})
Without(q, S) ==
  [n \in 1..Cardinality(Kept(q, S)) |-> q[CHOOSE i \in Kept(q, S) : Rank(Kept(q, S), i) = n]]

\* Seeded fault: cancel drops the entry and forgets to drain.
CancelWithoutDrain(S, off) ==
  /\ queue'  = Without(queue, S)
  /\ status' = [c \in Calls |-> IF c \in S /\ status[c] = "queued" THEN "rejected" ELSE status[c]]
  /\ UNCHANGED <<readers, writer>>

\* Seeded fault: cancel rejects an entry whether or not it is still queued.
CancelAdmitted(S, off) ==
  Drain(Without(queue, S), writer, readers, off,
        [c \in Calls |-> IF c \in S THEN "rejected" ELSE status[c]])

\* cancel: drop the entries of S that are still queued, reject them, drain.
\* An admitted entry is not found in the queue and keeps its result.
Cancel(S, off) ==
  LET gone == {c \in S : \E i \in 1..Len(queue) : queue[i] = c}
  IN IF gone = {}
     THEN UNCHANGED <<queue, readers, writer, status>>
     ELSE Drain(Without(queue, gone), writer, readers, off,
                [c \in Calls |-> IF c \in gone THEN "rejected" ELSE status[c]])

\* A signal shared by the calls S fires: every listener still registered
\* cancels its entry before anything else can run.
Abort(S) ==
  /\ S \cap aborted = {}
  /\ aborted' = aborted \cup S
  /\ Cancel(S, aborted' \cup expired)
  /\ UNCHANGED <<mode, parent, inherits, chain, awaited, expired>>

\* The clock reaches a call's deadline; nothing runs by itself.
DeadlinePasses(c) ==
  /\ c \notin expired /\ ~Over(c)
  /\ expired' = expired \cup {c}
  /\ UNCHANGED <<queue, readers, writer, mode, status, parent, inherits, chain, awaited, aborted>>

\* checkDeadline: the timer of a queued entry fires after its deadline.
TimerFires(c) ==
  /\ status[c] = "queued" /\ c \in expired
  /\ Cancel({c}, aborted \cup expired)
  /\ UNCHANGED <<mode, parent, inherits, chain, awaited, aborted, expired>>

\* Seeded fault: finally counts every reservation as a reader's.
ReleaseAsReader(c) ==
  /\ status[c] = "settled" /\ parent[c] = NoParent
  /\ Drain(queue, FALSE, readers - 1, aborted \cup expired, [status EXCEPT ![c] = "released"])
  /\ UNCHANGED <<mode, parent, inherits, chain, awaited, aborted, expired>>

\* The finally block of start: give the slot back and drain.  It runs after
\* the caller's promise has settled, so the caller may already have moved on.
Release(c) ==
  /\ status[c] = "settled" /\ parent[c] = NoParent
  /\ Drain(queue,
           writer /\ mode[c] # "exclusive",
           IF mode[c] = "exclusive" THEN readers ELSE readers - 1,
           aborted \cup expired,
           [status EXCEPT ![c] = "released"])
  /\ UNCHANGED <<mode, parent, inherits, chain, awaited, aborted, expired>>

-----------------------------------------------------------------------------
(* Operations and their bound capability.                                  *)

\* The operation returns or throws.  It cannot while it awaits a child.
OperationEnds(c) ==
  /\ Running(c)
  /\ \A k \in awaited : parent[k] = c => Over(k)
  /\ status' = [status EXCEPT ![c] = "draining"]
  /\ UNCHANGED <<queue, readers, writer, mode, parent, inherits, chain, awaited, aborted, expired>>

\* `await tail` is over: withReservation settles.
Settle(c) ==
  /\ status[c] = "draining" /\ chain[c] = <<>>
  /\ status' = [status EXCEPT ![c] = "settled"]
  /\ chain' = IF parent[c] = NoParent THEN chain
              ELSE [chain EXCEPT ![parent[c]] = Tail(@)]
  /\ UNCHANGED <<queue, readers, writer, mode, parent, inherits, awaited, aborted, expired>>

\* Seeded fault: an upgrade to exclusive is let through.
RefusedUnlessActive(c, p) == ~Running(p)

\* The two refusals of a bound run: a retired capability and an upgrade.
Refused(c, p) ==
  \/ ~Running(p)
  \/ mode[p] = "parallel-safe" /\ mode[c] = "exclusive"

\* Seeded fault: a child is bound by its own signal and deadline only.
OwnOptions(c, p) == {c}

\* The child's opts: its own signal and deadline and everything p inherits.
ChildOptions(c, p) == {c} \cup inherits[p]

\* Seeded fault: a nested call queues like a root call.
RunChildThroughQueue(c, p, await) ==
  /\ status[c] = "idle" /\ p # c /\ Running(p)
  /\ parent'  = [parent EXCEPT ![c] = p]
  /\ awaited' = IF await THEN awaited \cup {c} ELSE awaited
  /\ chain'   = [chain EXCEPT ![p] = Append(@, c)]
  /\ Drain(Append(queue, c), writer, readers, aborted \cup expired,
           [status EXCEPT ![c] = "queued"])
  /\ UNCHANGED <<mode, inherits, aborted, expired>>

\* run of the bound capability of p, called from operation p (or by whoever
\* p leaked the capability to).  await says whether p awaits the promise.
RunChild(c, p, await) ==
  /\ status[c] = "idle" /\ p # c /\ status[p] \notin {"idle", "queued", "chained", "rejected"}
  /\ parent'   = [parent EXCEPT ![c] = p]
  /\ IF Refused(c, p)
     THEN /\ status' = [status EXCEPT ![c] = "rejected"]
          /\ UNCHANGED <<inherits, chain, awaited>>
     ELSE /\ status'   = [status EXCEPT ![c] = "chained"]
          /\ inherits' = [inherits EXCEPT ![c] = ChildOptions(c, p)]
          /\ chain'    = [chain EXCEPT ![p] = Append(@, c)]
          /\ awaited'  = IF await THEN awaited \cup {c} ELSE awaited
  /\ UNCHANGED <<queue, readers, writer, mode, aborted, expired>>

\* Seeded fault: a child starts without waiting for its elder siblings.
AnyChained(c) == status[c] = "chained"

\* The child's turn: `tail` has settled.
FirstChained(c) ==
  /\ status[c] = "chained"
  /\ chain[parent[c]] # <<>> /\ Head(chain[parent[c]]) = c

\* Seeded fault: a refused child leaves `tail` unsettled.
StartChildUncaught(c) ==
  /\ FirstChained(c)
  /\ status' = [status EXCEPT ![c] = IF Stopped(c, aborted \cup expired) THEN "rejected" ELSE "running"]
  /\ UNCHANGED <<queue, readers, writer, mode, parent, inherits, chain, awaited, aborted, expired>>

\* tail.then: check the combined options once more, then enter.
StartChild(c) ==
  /\ FirstChained(c)
  /\ IF Stopped(c, aborted \cup expired)
     THEN /\ status' = [status EXCEPT ![c] = "rejected"]
          /\ chain' = [chain EXCEPT ![parent[c]] = Tail(@)]
     ELSE /\ status' = [status EXCEPT ![c] = "running"]
          /\ UNCHANGED chain
  /\ UNCHANGED <<queue, readers, writer, mode, parent, inherits, awaited, aborted, expired>>

-----------------------------------------------------------------------------
Next ==
  \/ \E c \in Calls : Run(c)
  \/ \E S \in SUBSET Calls : S # {} /\ Abort(S)
  \/ \E c \in Calls : DeadlinePasses(c)
  \/ \E c \in Calls : TimerFires(c)
  \/ \E c \in Calls : Release(c)
  \/ \E c \in Calls : OperationEnds(c)
  \/ \E c \in Calls : Settle(c)
  \/ \E c, p \in Calls, await \in BOOLEAN : RunChild(c, p, await)
  \/ \E c \in Calls : StartChild(c)

Spec == Init /\ [][Next]_vars

\* Promise reactions and armed timers run sooner or later, and an operation
\* ends once the children it awaits are over.  Callers, signals and the clock
\* owe nothing.
Fairness ==
  \A c \in Calls : /\ WF_vars(TimerFires(c)) /\ WF_vars(Release(c))
                   /\ WF_vars(OperationEnds(c)) /\ WF_vars(Settle(c))
                   /\ WF_vars(StartChild(c))

FairSpec == Spec /\ Fairness

-----------------------------------------------------------------------------
(* Properties.                                                             *)

TypeOK ==
  /\ queue \in Seq(Calls)
  /\ readers \in Nat /\ writer \in BOOLEAN
  /\ mode \in [Calls -> Modes]
  /\ status \in [Calls -> Statuses]
  /\ parent \in [Calls -> Calls \cup {NoParent}]
  /\ inherits \in [Calls -> SUBSET Calls]
  /\ chain \in [Calls -> Seq(Calls)]
  /\ awaited \subseteq Calls /\ aborted \subseteq Calls /\ expired \subseteq Calls

\* The private counters of the scheduler always equal the reservations that
\* are really out, the cap is respected, and a writer is alone: no path
\* through start, cancel and finally loses or returns a slot twice.
SlotAccounting ==
  /\ readers = Cardinality(HoldersOf("parallel-safe"))
  /\ readers <= MaxParallel
  /\ writer <=> HoldersOf("exclusive") # {}
  /\ Cardinality(HoldersOf("exclusive")) <= 1
  /\ writer => readers = 0

\* While an exclusive operation runs, at any nesting depth, every other
\* operation in progress is one of its ancestors or of its descendants.
ExclusiveIsolation ==
  \A a, b \in Calls :
    Running(a) /\ Busy(b) /\ mode[a] = "exclusive" => a \in Lineage(b) \/ b \in Lineage(a)

\* Nothing that could start is left waiting: the head of the queue is held
\* back by a reservation that is out (whose release drains), or its deadline
\* has passed (and its timer drains).
NoLostWakeup ==
  queue # <<>> =>
    \/ writer
    \/ mode[Head(queue)] = "exclusive" /\ readers > 0
    \/ mode[Head(queue)] = "parallel-safe" /\ readers >= MaxParallel
    \/ Head(queue) \in expired

\* The root calls admitted before c may be: those queued in front of it, or
\* all of them when c only arrives.
Ahead(c) ==
  {queue[j] : j \in {j \in 1..Len(queue) : \A i \in 1..Len(queue) : queue[i] = c => j < i}}

\* FIFO admission: when a root call starts, nobody ahead of it stays queued, so
\* an exclusive entry is a barrier for every later reader (drain, lines 105-126).
FifoAdmission ==
  [][\A c \in Calls :
       status[c] # "running" /\ status'[c] = "running" /\ parent'[c] = NoParent =>
         \A d \in Ahead(c) : status'[d] # "queued"]_vars

\* An operation is never entered once the signal or the deadline of its own
\* call, or of any call it is nested in, is over.
NoLateStart ==
  [][\A c \in Calls :
       status[c] # "running" /\ status'[c] = "running" =>
         Lineage(c) \cap (aborted' \cup expired') = {}]_vars

\* Cancellation never erases the outcome of an admitted operation.
AdmittedKeepsResult ==
  [][\A c \in Calls : status[c] \in {"running", "draining", "settled"} => status'[c] # "rejected"]_vars

\* What a step may never do to a call: start it out of order or too late, or
\* take back the outcome of an admitted one (run and drain, lines 53-126).
OrderlySteps == FifoAdmission /\ NoLateStart /\ AdmittedKeepsResult

\* Every call is answered: queueing, nesting and cancellation never leave a
\* promise pending for ever, even when an operation awaits its children.  And
\* every reservation is given back.
EveryCallAnswered ==
  \A c \in Calls :
    /\ status[c] # "idle" ~> Over(c)
    /\ Holds(c) ~> status[c] = "released"
=============================================================================
