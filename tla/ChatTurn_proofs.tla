---------------------------- MODULE ChatTurn_proofs ----------------------------
(***************************************************************************)
(* What the model and the caller are told of a tool call is true, for any  *)
(* number of threads, calls, turns, rounds, failed appends and crashes.    *)
(*                                                                         *)
(* Truthful alone is not inductive: the history that a failing turn goes   *)
(* back to, the one that the conversation store holds, the events that a   *)
(* step is still to append and the receipts that the validator has not     *)
(* seen answered yet all come back into the journal's history. IInv says   *)
(* the same of each of them, for the calls that are open: those whose      *)
(* handler may yet be entered (OpenIn), of which nothing may say that they *)
(* were not. The proof goes through the fold first (Advances: what an      *)
(* accepted event makes of a journal), then through the steps: most append *)
(* silent events or put back a history that was true; only the calls of a  *)
(* round, the model's answer and the recovery of a broken journal say      *)
(* something new.                                                          *)
(***************************************************************************)
EXTENDS MCChatTurn, SequenceTheorems, FiniteSetTheorems, WellFoundedInduction, TLAPS

-----------------------------------------------------------------------------
(* The shapes of messages, events, journals and the operation in progress.   *)
Outcomes == {"completed", "failed", "interrupted"}
Reasons ==
  {"turn_failed", "turn_failed_partial_effects", "turn_without_assistant_rolled_back",
   "interrupted_turn_rolled_back", "model_history_budget", "thread_switched",
   "conversation_memory_imported"}

Events ==
  [type : {"turn/started", "step/started", "session/destroyed"}]
  \cup [type : {"turn/ended"}, outcome : Outcomes]
  \cup [type : {"step/completed"}, outcome : Outcomes, recovered : BOOLEAN, rollbackTurn : BOOLEAN]
  \cup [type : {"model/request-prepared"}, history : Histories]
  \cup [type : {"model/response-received"}, message : Messages \cup {None}]
  \cup [type : {"message/appended"}, message : Messages, external : {FALSE}]
  \cup [type : {"message/appended"}, message : Users, external : {TRUE}]
  \cup [type : {"tool/call", "tool/execution-started"}, call : Calls]
  \cup [type : {"tool/result"}, call : Calls, says : Words, recovered : BOOLEAN]
  \cup [type : {"adapter/state"}, state : Histories]
  \cup [type : {"history/replaced"}, history : Histories, reason : Reasons, recovered : BOOLEAN,
        clear : BOOLEAN, thread : Threads \cup {None}]
  \cup [type : {"session/reset"}, thread : Threads]

Tools == [call : Calls, at : {"declared", "called", "started", "result"}, says : Words]
Journals ==
  {J \in [hist : Histories, adapter : Histories, thread : Threads, dead : BOOLEAN, count : {1, 2},
          external : SUBSET Int, turn : Turns \cup {None}, step : Steps \cup {None},
          tools : Seq(Tools)] :
     J.step # None => J.turn \in Turns}

Failures == {"idle", "catch", "finally", "told", "ended", "unopened"}
Places ==
  Failures \cup
  {"down", "script", "switch", "budget", "open", "opened", "round", "request", "model", "response",
   "spoken", "dispatch", "batch", "answer", "answered", "after", "complete", "committed", "close",
   "mended", "terminated", "done", "keep", "clear", "delete", "ingest", "destroy", "import",
   "diverged"}
Addressed == {"switch", "keep", "clear", "delete"}
Nexts == Places \ ({"down", "script", "batch"} \cup Addressed)
Phases ==
  {"none", "asked", "called", "started", "refused", "running", "settled", "recorded", "thrown"}
Runs ==
  [at : Places, todo : Seq(Events), then : Nexts, onFail : Failures, to : Threads \cup {None},
   started : BOOLEAN, rounds : Int, before : Histories, adapterBefore : Histories,
   checkpoint : [hist : Histories, adapter : Histories] \cup {None}, recovering : BOOLEAN,
   terminal : BOOLEAN, answered : BOOLEAN, batch : Seq(Calls), call : [Calls -> Phases],
   told : [Calls -> Words \cup {"none"}]]
Lefts ==
  [ops : Int, faults : Int, crashes : Int, others : Int, threads : SUBSET Threads,
   calls : Seq(Calls)]

TypeOK ==
  /\ disk \in Journals /\ kernel \in Journals \cup {None} /\ run \in Runs
  /\ run.at # "down" => kernel \in Journals
  /\ run.at \in Addressed => run.to \in Threads
  /\ run.at = "script" <=> run.todo # <<>>
  /\ mem \in [Threads -> Histories \cup {None}]
  /\ effect \in [Calls -> {"no", "entered", "done", "failed", "unknown"}]
  /\ left \in Lefts /\ IsInjective(left.calls)

-----------------------------------------------------------------------------
(* What may still happen: a call is open while its handler may be entered,   *)
(* now or in a later round; started when its intent is on record.             *)
Ahead == {"response", "dispatch"}
Pre(r) == r.at \in Ahead \/ (r.at = "script" /\ r.then \in Ahead)
Unrun(r) == {c \in Calls : r.at = "batch" /\ r.call[c] \in {"asked", "called", "started"}}
OpenIn(r, calls) == Range(calls) \cup Unrun(r) \cup (IF Pre(r) THEN Range(r.batch) ELSE {})
StartedIn(r) == {c \in Calls : r.call[c] = "started"}

(* A receipt says of its call what is true of it, and stays so.              *)
Tells(c, says, eff, open) ==
  /\ says \in {"rejected", "not executed"} => eff[c] = "no" /\ c \notin open
  /\ says \in {"done", "failed"} => eff[c] = says
HonestIn(h, eff, open) ==
  \A i \in DOMAIN h : h[i].role = "tool" => Tells(h[i].call, h[i].says, eff, open)
Within(J) == J.turn # None \/ J.step # None
JournalHonest(J, eff, open) ==
  /\ HonestIn(J.hist, eff, open)
  /\ Within(J) => HonestIn(J.turn.before, eff, open)

(* What the validator holds of a call that is not answered yet.              *)
ToolTrue(t, eff, open, calls, started) ==
  /\ t.call \notin Range(calls)
  /\ t.at \in {"declared", "called"} => eff[t.call] = "no" /\ t.call \notin started
  /\ t.at = "result" => Tells(t.call, t.says, eff, open)
ToolsTrue(J, eff, open, calls, started) ==
  \A i \in DOMAIN J.tools : ToolTrue(J.tools[i], eff, open, calls, started)

(* An event that may be appended without making it say what is not true.     *)
EventTrue(e, eff, open, calls, started) ==
  /\ e.type = "message/appended" /\ e.message.role = "assistant" =>
       \A c \in Range(e.message.calls) : eff[c] = "no" /\ c \notin Range(calls) \cup started
  /\ e.type = "tool/call" => eff[e.call] = "no" /\ e.call \notin started
  /\ e.type = "tool/result" =>
       IF e.recovered THEN open \subseteq Range(calls) ELSE Tells(e.call, e.says, eff, open)
  /\ e.type = "history/replaced" => HonestIn(e.history, eff, open)
AllTrue(events, eff, open, calls, started) ==
  \A i \in DOMAIN events : EventTrue(events[i], eff, open, calls, started)

(* Where every call is, what its handler did, and what the caller is told.   *)
Resting == {"none", "recorded", "thrown"}
Accounted(r, eff, calls) ==
  \A c \in Calls :
    /\ c \in OpenIn(r, calls) => eff[c] = "no"
    /\ r.call[c] # "none" \/ (Pre(r) /\ c \in Range(r.batch)) => c \notin Range(calls)
    /\ r.at # "batch" \/ c \notin Range(r.batch) => r.call[c] \in Resting
    /\ r.call[c] = "refused" => eff[c] = "no"
    /\ r.call[c] = "running" => eff[c] = "entered"
    /\ r.call[c] = "settled" => eff[c] \in {"done", "failed", "unknown"}
    /\ r.call[c] \in {"started", "running", "settled"} => r.told[c] = "unknown"
    /\ r.call[c] # "none" /\ eff[c] # "no" => r.told[c] # "none"
    /\ r.told[c] \in {"done", "failed"} => eff[c] = r.told[c]

RunHonest(r, eff, open) ==
  /\ HonestIn(r.before, eff, open)
  /\ r.checkpoint # None => HonestIn(r.checkpoint.hist, eff, open)
MemHonest(m, eff, open) == \A t \in Threads : HonestIn(MessagesOf(m[t]), eff, open)

(* A result on record is that of a call still to be answered.                *)
Recorded ==
  run.at = "batch" =>
    \A c \in Range(run.batch) : run.call[c] = "recorded" => IsOpen(kernel, c)

(* The response that is read was appended in a step, and the step is open.   *)
Replies == {"model/response-received", "adapter/state"}
InStep(r, J) ==
  /\ r.at = "response" => J.step \in Steps
  /\ r.at = "script" /\ r.then = "response" =>
       /\ J.step \in Steps \/ r.todo[1].type = "model/response-received"
       /\ \A i \in DOMAIN r.todo : r.todo[i].type \in Replies

OpenNow == OpenIn(run, left.calls)
IInv ==
  /\ TypeOK
  /\ Accounted(run, effect, left.calls)
  /\ JournalHonest(disk, effect, OpenNow)
  /\ run.at # "down" => JournalHonest(kernel, effect, OpenNow)
  /\ RunHonest(run, effect, OpenNow)
  /\ MemHonest(mem, effect, OpenNow)
  /\ ToolsTrue(disk, effect, OpenNow, left.calls, StartedIn(run))
  /\ AllTrue(run.todo, effect, OpenNow, left.calls, {})
  /\ Recorded
  /\ InStep(run, kernel)

-----------------------------------------------------------------------------
(* Events.                                                                   *)

\* The events that carry no call are events.
LEMMA SilentEvents ==
  /\ TurnStarted \in Events /\ StepStarted \in Events /\ Destroyed \in Events
  /\ \A o \in Outcomes : /\ TurnEnded(o) \in Events /\ StepCompleted(o) \in Events
                         /\ \A b \in BOOLEAN :
                              [StepCompleted(o) EXCEPT !.recovered = TRUE, !.rollbackTurn = b] \in Events
  /\ \A h \in Histories : Request(h) \in Events /\ Adapter(h) \in Events
  /\ \A m \in Messages \cup {None} : Response(m) \in Events
BY DEF Events, TurnStarted, StepStarted, Destroyed, TurnEnded, StepCompleted, Request, Adapter, Response

\* The messages of the module are messages, and their events are events.
LEMMA MessageEvents ==
  /\ \A m \in Messages : Message(m) \in Events
  /\ \A n \in Int : User(n) \in Users /\ User(n) \in Messages /\ External(User(n)) \in Events
  /\ \A s \in Seq(Calls) : Asks(s) \in Messages
  /\ Answer \in Messages
  /\ \A c \in Calls, w \in Words : Receipt(c, w) \in Messages
BY DEF Events, Message, Messages, User, Users, External, Asks, Answer, Receipt

\* The events of a call are events.
LEMMA ToolEvents ==
  ASSUME NEW c \in Calls, NEW w \in Words
  PROVE  /\ ToolCall(c) \in Events /\ ToolStarted(c) \in Events /\ ToolResult(c, w) \in Events
         /\ [ToolResult(c, w) EXCEPT !.recovered = TRUE] \in Events
BY DEF Events, ToolCall, ToolStarted, ToolResult

\* The replacements of a history and the change of a thread are events.
LEMMA HistoryEvents ==
  ASSUME NEW h \in Histories, NEW r \in Reasons, NEW t \in Threads
  PROVE  /\ Replaced(h, r) \in Events /\ [Replaced(h, r) EXCEPT !.recovered = TRUE] \in Events
         /\ Compacted(h) \in Events /\ Switched(t, h) \in Events /\ Reset(t) \in Events
BY DEF Events, Reasons, Replaced, Compacted, Switched, Reset

\* What kind an event is of says which fields it has.
LEMMA EventFields ==
  ASSUME NEW e \in Events
  PROVE  /\ e.type = "step/completed" =>
              e.outcome \in Outcomes /\ e.recovered \in BOOLEAN /\ e.rollbackTurn \in BOOLEAN
         /\ e.type = "model/response-received" => e.message \in Messages \cup {None}
         /\ e.type = "message/appended" =>
              e.message \in Messages /\ e.external \in BOOLEAN /\ (e.external => e.message \in Users)
         /\ e.type \in {"tool/call", "tool/execution-started", "tool/result"} => e.call \in Calls
         /\ e.type = "tool/result" => e.says \in Words /\ e.recovered \in BOOLEAN
         /\ e.type = "adapter/state" => e.state \in Histories
         /\ e.type = "history/replaced" =>
              e.history \in Histories /\ e.thread \in Threads \cup {None} /\ e.clear \in BOOLEAN
         /\ e.type = "session/reset" => e.thread \in Threads
         /\ e.type \in {"turn/started", "step/started", "session/destroyed", "turn/ended",
                        "step/completed", "model/request-prepared", "model/response-received",
                        "message/appended", "tool/call", "tool/execution-started", "tool/result",
                        "adapter/state", "history/replaced", "session/reset"}
BY DEF Events, Users, Messages

\* What role a message has says which fields it has.
LEMMA MessageFields ==
  ASSUME NEW m \in Messages
  PROVE  /\ m.role \in {"user", "assistant", "tool"}
         /\ m.role = "assistant" => m.calls \in Seq(Calls)
         /\ m.role = "tool" => m.call \in Calls /\ m.says \in Words
         /\ m.role = "user" => m.text \in Int
         /\ m \in Users => m.text \in Int /\ m.role = "user"
BY DEF Messages, Users

-----------------------------------------------------------------------------
(* Sequences.                                                                *)

\* A function on 1..n with values in S is a sequence of S.
LEMMA Listed ==
  ASSUME NEW S, NEW n \in Nat, NEW s, s = [i \in 1..n |-> s[i]], \A i \in 1..n : s[i] \in S
  PROVE  s \in Seq(S)
<1>1. s \in [1..n -> S]
  OBVIOUS
<1>2. QED  BY <1>1, SeqDef

\* A sequence without one of its elements.
LEMMA Removing ==
  ASSUME NEW S, NEW s \in Seq(S), NEW i \in DOMAIN s
  PROVE  RemoveAt(s, i) \in Seq(S)
<1>1. i \in 1..Len(s) /\ Len(s) \in Nat
  OBVIOUS
<1>2. SubSeq(s, 1, i - 1) \in Seq(S)
  BY <1>1, SubSeqProperties
<1>3. SubSeq(s, i + 1, Len(s)) \in Seq(S)
  BY <1>1, SubSeqProperties
<1>4. QED  BY <1>2, <1>3, ConcatProperties DEF RemoveAt

\* A set of numbers that starts at zero and goes on from each is all of them.
LEMMA AllNumbers ==
  ASSUME NEW S \in SUBSET Nat, 0 \in S, \A n \in S : n + 1 \in S
  PROVE  \A n \in Nat : n \in S
<1> DEFINE R == OpToRel(<, Nat)
           D == Nat \ S
<1> SUFFICES ASSUME D # {} PROVE FALSE
  OBVIOUS
<1>1. \A a, b \in Nat : a < b => <<a, b>> \in R
  BY DEF OpToRel
<1>2. IsWellFoundedOn(R, Nat)
  BY NatLessThanWellFounded
<1>3. PICK n \in D : \A m \in D : ~ (<<m, n>> \in R)
  <2> HIDE DEF R
  <2> QED  BY <1>2, WFMin
<1>4. n \in Nat \ {0} /\ n - 1 \in Nat /\ n - 1 < n
  OBVIOUS
<1>5. n - 1 \in S
  BY <1>1, <1>3, <1>4
<1>6. QED  BY <1>4, <1>5

\* f puts the first i of seqs together, as FlattenSeq does.
Flattens(f, seqs, n) ==
  f = [i \in 1..n |-> IF i = 1 THEN seqs[i] ELSE f[i - 1] \o seqs[i]]

\* Sequences of a sequence can be joined one after the other.
LEMMA FlatteningExists ==
  ASSUME NEW S, NEW seqs \in Seq(Seq(S))
  PROVE  \A n \in Nat : n <= Len(seqs) =>
           \E f : Flattens(f, seqs, n)
<1> DEFINE N == {n \in Nat : n <= Len(seqs) => \E f : Flattens(f, seqs, n)}
<1>1. 0 \in N
  <2> DEFINE f == [i \in 1..0 |-> seqs[i]]
  <2>1. f = [i \in 1..0 |-> IF i = 1 THEN seqs[i] ELSE f[i - 1] \o seqs[i]]
    OBVIOUS
  <2> HIDE DEF f
  <2>2. QED  BY <2>1 DEF Flattens
<1>2. ASSUME NEW n \in N PROVE n + 1 \in N
  <2> SUFFICES ASSUME n + 1 <= Len(seqs) PROVE \E f : Flattens(f, seqs, n + 1)
    OBVIOUS
  <2>1. PICK f : Flattens(f, seqs, n)
    OBVIOUS
  <2> DEFINE g == [i \in 1..(n + 1) |-> IF i = 1 THEN seqs[i] ELSE f[i - 1] \o seqs[i]]
  <2>2. \A i \in 1..n : f[i] = g[i]
    <3> SUFFICES ASSUME NEW i \in 1..n PROVE f[i] = g[i]
      OBVIOUS
    <3>1. f[i] = IF i = 1 THEN seqs[i] ELSE f[i - 1] \o seqs[i]
      BY <2>1 DEF Flattens
    <3>2. QED  BY <3>1
  <2>3. \A i \in 1..(n + 1) : i # 1 => i - 1 \in 1..n
    OBVIOUS
  <2>4. \A i \in 1..(n + 1) : g[i] = IF i = 1 THEN seqs[i] ELSE g[i - 1] \o seqs[i]
    BY <2>2, <2>3
  <2> DEFINE h == [i \in 1..(n + 1) |-> IF i = 1 THEN seqs[i] ELSE g[i - 1] \o seqs[i]]
  <2>5. g = h
    <3>1. DOMAIN g = 1..(n + 1) /\ DOMAIN h = 1..(n + 1)
      OBVIOUS
    <3>2. \A i \in 1..(n + 1) : g[i] = h[i]
      BY <2>4
    <3> HIDE DEF g, h
    <3>a. g = [i \in 1..(n + 1) |-> g[i]] /\ h = [i \in 1..(n + 1) |-> h[i]]
      BY <3>1 DEF g, h
    <3>3. QED  BY <3>1, <3>2, <3>a
  <2>6. Flattens(g, seqs, n + 1)
    <3> HIDE DEF g
    <3> QED  BY <2>5 DEF Flattens
  <2> HIDE DEF g
  <2>7. QED  BY <2>6
<1> HIDE DEF N
<1>3. \A n \in Nat : n \in N
  <2>1. N \in SUBSET Nat
    BY DEF N
  <2> QED  BY <1>1, <1>2, <2>1, AllNumbers
<1>4. QED  BY <1>3 DEF N

\* The sequences joined are a sequence of the same set (FlattenSeq).
LEMMA Flattening ==
  ASSUME NEW S, NEW seqs \in Seq(Seq(S))
  PROVE  FlattenSeq(seqs) \in Seq(S)
<1>1. CASE Len(seqs) = 0
  BY <1>1 DEF FlattenSeq
<1>2. CASE Len(seqs) # 0
  <2> DEFINE n == Len(seqs)
             f == CHOOSE g : Flattens(g, seqs, n)
  <2>1. n \in Nat /\ n >= 1
    BY <1>2
  <2>2. Flattens(f, seqs, n)
    BY <2>1, FlatteningExists
  <2>3. FlattenSeq(seqs) = f[n]
    BY <1>2, Zenon DEF FlattenSeq, Flattens
  <2> DEFINE N == {k \in Nat : k + 1 <= n => f[k + 1] \in Seq(S)}
  <2> HIDE DEF f
  <2>4. 0 \in N
    <3>1. f[1] = seqs[1]
      BY <2>1, <2>2 DEF Flattens
    <3>2. QED  BY <2>1, <3>1
  <2>5. ASSUME NEW k \in N PROVE k + 1 \in N
    <3> SUFFICES ASSUME k + 2 <= n PROVE f[k + 2] \in Seq(S)
      OBVIOUS
    <3>0. k \in Nat
      BY DEF N
    <3>1. f[k + 2] = f[k + 1] \o seqs[k + 2]
      <4> DEFINE i == k + 2
      <4>1. i \in 1..n /\ i # 1 /\ i - 1 = k + 1
        BY <2>1, <3>0
      <4> HIDE DEF i
      <4>2. f[i] = f[i - 1] \o seqs[i]
        BY <2>2, <4>1 DEF Flattens
      <4>3. QED  BY <4>1, <4>2 DEF i
    <3>2. f[k + 1] \in Seq(S) /\ seqs[k + 2] \in Seq(S)
      OBVIOUS
    <3>3. QED  BY <3>1, <3>2, ConcatProperties
  <2> HIDE DEF N
  <2>6. \A k \in Nat : k \in N
    <3>1. N \in SUBSET Nat
      BY DEF N
    <3> QED  BY <2>4, <2>5, <3>1, AllNumbers
  <2>7. n - 1 \in N
    BY <2>1, <2>6
  <2>8. f[n] \in Seq(S)
    BY <2>1, <2>7 DEF N
  <2>9. QED  BY <2>3, <2>8
<1>3. QED  BY <1>1, <1>2

-----------------------------------------------------------------------------
(* The fold: what appending an event makes of a journal.                     *)

\* The fields of a journal.
LEMMA JournalFields ==
  ASSUME NEW J \in Journals
  PROVE  /\ J.hist \in Histories /\ J.adapter \in Histories /\ J.thread \in Threads
         /\ J.dead \in BOOLEAN /\ J.external \in SUBSET Int /\ J.tools \in Seq(Tools)
         /\ J.turn # None => J.turn \in Turns
         /\ J.step # None => J.step \in Steps /\ J.turn \in Turns
BY DEF Journals

\* A journal with another value in one field is a journal.
LEMMA Kept ==
  ASSUME NEW J \in Journals
  PROVE  /\ \A h \in Histories : [J EXCEPT !.hist = h] \in Journals
         /\ \A a \in Histories : [J EXCEPT !.adapter = a] \in Journals
         /\ \A x \in SUBSET Int : [J EXCEPT !.external = x] \in Journals
         /\ \A T \in Seq(Tools) : [J EXCEPT !.tools = T] \in Journals
         /\ \A t \in Turns : [J EXCEPT !.turn = t] \in Journals
         /\ [J EXCEPT !.count = 2] \in Journals /\ [J EXCEPT !.dead = TRUE] \in Journals
BY DEF Journals

\* A tool's place is one of its records.
LEMMA Placed ==
  ASSUME NEW J, NEW c, IsOpen(J, c)
  PROVE  /\ Place(J, c) \in DOMAIN J.tools /\ J.tools[Place(J, c)].call = c
         /\ At(J, c) = J.tools[Place(J, c)].at /\ Says(J, c) = J.tools[Place(J, c)].says
BY DEF IsOpen, Place, At, Says

\* What an event makes of the tools.
Opens(m) == [i \in DOMAIN m.calls |-> [call |-> m.calls[i], at |-> "declared", says |-> "unknown"]]
ToolsAfter(J, e) ==
  CASE e.type = "message/appended" /\ e.message.role = "assistant" -> Opens(e.message)
    [] e.type = "message/appended" /\ e.message.role = "tool" ->
         RemoveAt(J.tools, Place(J, e.message.call))
    [] e.type = "tool/call" -> SetTool(J, e.call, "called", "unknown").tools
    [] e.type = "tool/execution-started" -> SetTool(J, e.call, "started", "unknown").tools
    [] e.type = "tool/result" -> SetTool(J, e.call, "result", e.says).tools
    [] OTHER -> J.tools
HistAfter(J, e) ==
  CASE e.type = "message/appended" -> Append(J.hist, e.message)
    [] e.type = "history/replaced" -> e.history
    [] e.type = "session/reset" -> <<>>
    [] OTHER -> J.hist
\* K is J after e, as far as these properties tell journals apart.
After(K, J, e) ==
  /\ K \in Journals /\ K.hist = HistAfter(J, e) /\ K.tools = ToolsAfter(J, e)
  /\ Within(K) =>
       IF e.type = "turn/started" THEN K.turn.before = J.hist
       ELSE Within(J) /\ K.turn.before = J.turn.before

\* The calls that an answer asks for are records of the validator.
LEMMA OpensTools ==
  ASSUME NEW m, m.calls \in Seq(Calls)
  PROVE  Opens(m) \in Seq(Tools)
<1>1. DOMAIN m.calls = 1..Len(m.calls) /\ Len(m.calls) \in Nat
  OBVIOUS
<1>2. \A i \in 1..Len(m.calls) :
        [call |-> m.calls[i], at |-> "declared", says |-> "unknown"] \in Tools
  BY DEF Tools, Words
<1>3. QED  BY <1>1, <1>2 DEF Opens

\* A message enters the history; an answer opens its calls, a receipt closes its call.
LEMMA AdvanceMessage ==
  ASSUME NEW J \in Journals, NEW e \in Events, Accepts(J, e), e.type = "message/appended"
  PROVE  After(Effect(J, e), J, e)
<1>1. /\ e.message \in Messages /\ e.external \in BOOLEAN /\ (e.external => e.message \in Users)
  BY EventFields
<1> DEFINE m == e.message
           L == [J EXCEPT !.hist = Append(@, m)]
<1>2. Append(J.hist, m) \in Histories
  BY <1>1, JournalFields, AppendProperties DEF Histories
<1>3. L \in Journals /\ L.hist = Append(J.hist, m) /\ L.tools = J.tools /\ L.turn = J.turn /\ L.step = J.step
      /\ L.external = J.external
  BY ZenonT(30), <1>2, Kept DEF Journals
<1>4. Effect(J, e) = [AfterMessage(J, m) EXCEPT
            !.external = IF e.external THEN @ \union {m.text} ELSE @]
  BY DEF Effect
<1>5. HistAfter(J, e) = Append(J.hist, m)
  BY DEF HistAfter
<1> SUFFICES /\ AfterMessage(J, m) \in Journals /\ AfterMessage(J, m).hist = L.hist
             /\ AfterMessage(J, m).tools = ToolsAfter(J, e)
             /\ Within(AfterMessage(J, m)) => Within(J) /\ AfterMessage(J, m).turn.before = J.turn.before
  <2> DEFINE A == AfterMessage(J, m)
             x == IF e.external THEN A.external \union {m.text} ELSE A.external
  <2>1. A \in Journals
    OBVIOUS
  <2>2. x \in SUBSET Int
    BY <1>1, <2>1, JournalFields, MessageFields
  <2>3. Effect(J, e) = [A EXCEPT !.external = x]
    BY <1>4
  <2> HIDE DEF A, x
  <2>4. [A EXCEPT !.external = x] \in Journals
    BY <2>1, <2>2, Kept
  <2>5. [A EXCEPT !.external = x].hist = A.hist /\ [A EXCEPT !.external = x].tools = A.tools
        /\ [A EXCEPT !.external = x].turn = A.turn /\ [A EXCEPT !.external = x].step = A.step
    BY <2>1 DEF Journals
  <2>6. QED  BY <1>3, <1>5, <2>3, <2>4, <2>5 DEF After, A, Within
<1>6. CASE m.role = "user"
  BY <1>3, <1>6 DEF AfterMessage, ToolsAfter, Within
<1> SUFFICES ASSUME m.role # "user" PROVE
             /\ AfterMessage(J, m) \in Journals /\ AfterMessage(J, m).hist = L.hist
             /\ AfterMessage(J, m).tools = ToolsAfter(J, e)
             /\ Within(AfterMessage(J, m)) => Within(J) /\ AfterMessage(J, m).turn.before = J.turn.before
  BY <1>6
<1>7. J.turn # None /\ J.turn \in Turns /\ J.step # None /\ J.step \in Steps
  BY JournalFields DEF Accepts, Lives, NeedsStep
<1> DEFINE t == [J.turn EXCEPT !.nonUser = TRUE]
<1>8. t \in Turns /\ t.before = J.turn.before
  BY <1>7 DEF Turns
<1>9. CASE m.role = "tool"
  <2> DEFINE T == RemoveAt(J.tools, Place(J, m.call))
  <2>1. IsOpen(J, m.call)
    BY <1>9 DEF Accepts, Correlates, Repeats
  <2>2. T \in Seq(Tools)
    BY <2>1, Placed, JournalFields, Removing
  <2>3. AfterMessage(J, m) = [[L EXCEPT !.turn = t] EXCEPT !.tools = T]
    BY <1>3, <1>9 DEF AfterMessage, Journals
  <2>4. ToolsAfter(J, e) = T
    BY <1>9 DEF ToolsAfter
  <2> HIDE DEF T, t, L
  <2> DEFINE L2 == [L EXCEPT !.turn = t]
  <2>5. L2 \in Journals /\ L2.hist = L.hist /\ L2.turn = t
    BY ZenonT(30), <1>3, <1>8, Kept DEF Journals
  <2> HIDE DEF L2
  <2>6. /\ [L2 EXCEPT !.tools = T] \in Journals /\ [L2 EXCEPT !.tools = T].tools = T
        /\ [L2 EXCEPT !.tools = T].hist = L2.hist /\ [L2 EXCEPT !.tools = T].turn = L2.turn
    BY ZenonT(30), <2>2, <2>5, Kept DEF Journals
  <2>7. QED  BY <1>7, <1>8, <2>3, <2>4, <2>5, <2>6 DEF L2, Within
<1>10. CASE m.role = "assistant"
  <2> DEFINE T == Opens(m)
             s == [J.step EXCEPT !.pending = "nothing", !.expected = None, !.unprojected = FALSE]
  <2>1. T \in Seq(Tools)
    <3>1. m.calls \in Seq(Calls)
      BY <1>1, <1>10, MessageFields
    <3>2. QED  BY <3>1, OpensTools
  <2>2. s \in Steps
    BY <1>7 DEF Steps
  <2>3. AfterMessage(J, m) = [[[L EXCEPT !.turn = t] EXCEPT !.step = s] EXCEPT !.tools = T]
    BY <1>3, <1>10 DEF AfterMessage, Journals, Opens
  <2>4. ToolsAfter(J, e) = T
    BY <1>10 DEF ToolsAfter
  <2> HIDE DEF T, t, s, L
  <2> DEFINE L2 == [L EXCEPT !.turn = t]
             L3 == [L2 EXCEPT !.step = s]
  <2>5. L2 \in Journals /\ L2.hist = L.hist /\ L2.turn = t
    BY ZenonT(30), <1>3, <1>8, Kept DEF Journals
  <2> HIDE DEF L2
  <2>6. L3 \in Journals /\ L3.hist = L2.hist /\ L3.turn = t
    BY <1>8, <2>2, <2>5 DEF Journals
  <2> HIDE DEF L3
  <2>7. /\ [L3 EXCEPT !.tools = T] \in Journals /\ [L3 EXCEPT !.tools = T].tools = T
        /\ [L3 EXCEPT !.tools = T].hist = L3.hist /\ [L3 EXCEPT !.tools = T].turn = L3.turn
    BY ZenonT(30), <2>1, <2>6, Kept DEF Journals
  <2>8. QED  BY <1>7, <1>8, <2>3, <2>4, <2>5, <2>6, <2>7 DEF L2, L3, Within
<1>11. QED  BY <1>1, <1>9, <1>10, MessageFields

Reached == {"called", "started", "result"}
\* A call that moves on leaves a journal, and its history alone.
LEMMA SetsTool ==
  ASSUME NEW J \in Journals, NEW c \in Calls, NEW w \in Words,
         NEW at \in Reached
  PROVE  /\ SetTool(J, c, at, w) \in Journals
         /\ SetTool(J, c, at, w).hist = J.hist /\ SetTool(J, c, at, w).turn = J.turn
         /\ SetTool(J, c, at, w).step = J.step
<1> DEFINE T == [i \in DOMAIN J.tools |->
                  IF J.tools[i].call = c THEN [call |-> c, at |-> at, says |-> w] ELSE J.tools[i]]
<1>1. T \in Seq(Tools)
  <2>1. J.tools \in Seq(Tools) /\ DOMAIN J.tools = 1..Len(J.tools) /\ Len(J.tools) \in Nat
    BY JournalFields
  <2>2. \A i \in 1..Len(J.tools) :
          (IF J.tools[i].call = c THEN [call |-> c, at |-> at, says |-> w] ELSE J.tools[i]) \in Tools
    <3>1. [call |-> c, at |-> at, says |-> w] \in Tools
      BY DEF Tools, Reached
    <3>2. QED  BY <2>1, <3>1
  <2>3. QED  BY <2>1, <2>2
<1>2. SetTool(J, c, at, w) = [J EXCEPT !.tools = T]
  BY DEF SetTool
<1>3. DOMAIN T = DOMAIN J.tools /\ \A i \in DOMAIN J.tools : T[i] =
        IF J.tools[i].call = c THEN [call |-> c, at |-> at, says |-> w] ELSE J.tools[i]
  OBVIOUS
<1> HIDE DEF T
<1>4. [J EXCEPT !.tools = T] \in Journals
  BY <1>1, Kept
<1>5. [J EXCEPT !.tools = T].tools = T /\ [J EXCEPT !.tools = T].hist = J.hist
      /\ [J EXCEPT !.tools = T].turn = J.turn /\ [J EXCEPT !.tools = T].step = J.step
  BY DEF Journals
<1>6. QED  BY <1>2, <1>3, <1>4, <1>5

\* A call that moves on leaves the records of the others alone.
LEMMA ToolSet ==
  ASSUME NEW J \in Journals, NEW c, NEW w, NEW at
  PROVE  /\ DOMAIN SetTool(J, c, at, w).tools = DOMAIN J.tools
         /\ \A i \in DOMAIN J.tools :
              SetTool(J, c, at, w).tools[i] =
                IF J.tools[i].call = c THEN [call |-> c, at |-> at, says |-> w] ELSE J.tools[i]
<1> DEFINE T == [i \in DOMAIN J.tools |->
                  IF J.tools[i].call = c THEN [call |-> c, at |-> at, says |-> w] ELSE J.tools[i]]
<1>1. SetTool(J, c, at, w).tools = T
  BY DEF SetTool, Journals
<1>2. QED  BY <1>1

\* An event of a call changes the record of the call only.
LEMMA AdvanceTool ==
  ASSUME NEW J \in Journals, NEW e \in Events,
         e.type \in {"tool/call", "tool/execution-started", "tool/result"}
  PROVE  After(Effect(J, e), J, e)
<1>1. e.call \in Calls /\ (e.type = "tool/result" => e.says \in Words) /\ "unknown" \in Words
      /\ "called" \in Reached /\ "started" \in Reached /\ "result" \in Reached
  BY EventFields DEF Words, Reached
<1>2. HistAfter(J, e) = J.hist
  BY DEF HistAfter
<1>a. \A at \in Reached, w \in Words :
        /\ SetTool(J, e.call, at, w) \in Journals
        /\ SetTool(J, e.call, at, w).hist = J.hist /\ SetTool(J, e.call, at, w).turn = J.turn
        /\ SetTool(J, e.call, at, w).step = J.step
  BY <1>1, SetsTool
<1>3. CASE e.type = "tool/call"
  <2>1. /\ Effect(J, e) = SetTool(J, e.call, "called", "unknown")
        /\ ToolsAfter(J, e) = SetTool(J, e.call, "called", "unknown").tools
    BY <1>3 DEF Effect, ToolsAfter
  <2> DEFINE K == SetTool(J, e.call, "called", "unknown")
  <2>2. K \in Journals /\ K.hist = J.hist /\ K.turn = J.turn /\ K.step = J.step
    BY <1>1, <1>3, <1>a
  <2> HIDE DEF K
  <2>3. QED  BY <1>2, <1>3, <2>1, <2>2 DEF After, K, Within
<1>4. CASE e.type = "tool/execution-started"
  <2>1. /\ Effect(J, e) = SetTool(J, e.call, "started", "unknown")
        /\ ToolsAfter(J, e) = SetTool(J, e.call, "started", "unknown").tools
    BY <1>4 DEF Effect, ToolsAfter
  <2> DEFINE K == SetTool(J, e.call, "started", "unknown")
  <2>2. K \in Journals /\ K.hist = J.hist /\ K.turn = J.turn /\ K.step = J.step
    BY <1>1, <1>4, <1>a
  <2> HIDE DEF K
  <2>3. QED  BY <1>2, <1>4, <2>1, <2>2 DEF After, K, Within
<1>5. CASE e.type = "tool/result"
  <2>1. /\ Effect(J, e) = SetTool(J, e.call, "result", e.says)
        /\ ToolsAfter(J, e) = SetTool(J, e.call, "result", e.says).tools
    BY <1>5 DEF Effect, ToolsAfter
  <2> DEFINE K == SetTool(J, e.call, "result", e.says)
  <2>2. K \in Journals /\ K.hist = J.hist /\ K.turn = J.turn /\ K.step = J.step
    BY <1>1, <1>5, <1>a
  <2> HIDE DEF K
  <2>3. QED  BY <1>2, <1>5, <2>1, <2>2 DEF After, K, Within
<1>6. QED  BY <1>3, <1>4, <1>5

\* A replacement of the history is the history.
LEMMA AdvanceReplacement ==
  ASSUME NEW J \in Journals, NEW e \in Events, Accepts(J, e), e.type = "history/replaced"
  PROVE  After(Effect(J, e), J, e)
<1>1. e.history \in Histories /\ e.thread \in Threads \cup {None} /\ e.clear \in BOOLEAN
  BY EventFields
<1>2. J.step = None
  BY DEF Accepts, Lives, Replaces
<1> DEFINE K == [J EXCEPT !.hist = e.history,
                     !.adapter = IF e.clear THEN <<>> ELSE @,
                     !.thread = IF e.thread = None THEN @ ELSE e.thread]
<1>3. K \in Journals /\ K.hist = e.history /\ K.tools = J.tools /\ K.turn = J.turn /\ K.step = None
  <2>1. (IF e.clear THEN <<>> ELSE J.adapter) \in Histories
    BY JournalFields DEF Histories
  <2>2. (IF e.thread = None THEN J.thread ELSE e.thread) \in Threads
    BY <1>1, JournalFields
  <2>3. QED  BY <1>1, <1>2, <2>1, <2>2 DEF Journals
<1>4. HistAfter(J, e) = e.history /\ ToolsAfter(J, e) = J.tools
  BY DEF HistAfter, ToolsAfter
<1>5. Effect(J, e) = AfterReplacement(J, e)
  BY DEF Effect
<1>6. CASE J.turn = None
  <2>1. Effect(J, e) = K
    BY <1>5, <1>6 DEF AfterReplacement
  <2> HIDE DEF K
  <2>2. QED  BY <1>3, <1>4, <1>6, <2>1 DEF After, Within
<1>7. CASE J.turn # None
  <2> DEFINE t == [J.turn EXCEPT !.nonUser = RetainsWork(e.history, J.turn.before),
                                 !.mayRoll = FALSE, !.rolled = TRUE]
  <2>1. t \in Turns /\ t.before = J.turn.before
    <3>1. RetainsWork(e.history, J.turn.before) \in BOOLEAN
      BY DEF RetainsWork, NonUser
    <3>2. J.turn \in Turns
      BY <1>7, JournalFields
    <3>3. QED  BY <3>1, <3>2 DEF Turns
  <2>2. Effect(J, e) = [K EXCEPT !.turn = t]
    <3>1. Effect(J, e) = [K EXCEPT !.turn.nonUser = RetainsWork(e.history, J.turn.before),
                  !.turn.mayRoll = FALSE, !.turn.rolled = TRUE]
      BY <1>5, <1>7 DEF AfterReplacement
    <3> HIDE DEF K
    <3>2. QED  BY <1>3, <3>1 DEF Journals
  <2> HIDE DEF K, t
  <2>3. [K EXCEPT !.turn = t] \in Journals
    BY <1>3, <2>1, Kept
  <2>4. [K EXCEPT !.turn = t].hist = K.hist /\ [K EXCEPT !.turn = t].tools = K.tools
        /\ [K EXCEPT !.turn = t].turn = t /\ [K EXCEPT !.turn = t].step = None
    BY <1>3 DEF Journals
  <2>5. QED  BY <1>3, <1>4, <1>7, <2>1, <2>2, <2>3, <2>4 DEF After, Within
<1>8. QED  BY <1>6, <1>7

\* The beginning and the end of a turn or a step leave the history alone.
LEMMA AdvanceTurn ==
  ASSUME NEW J \in Journals, NEW e \in Events, Accepts(J, e),
         e.type \in {"turn/started", "turn/ended", "step/started", "step/completed"}
  PROVE  After(Effect(J, e), J, e)
<1>1. HistAfter(J, e) = J.hist /\ ToolsAfter(J, e) = J.tools
  BY DEF HistAfter, ToolsAfter
<1>2. CASE e.type = "turn/started"
  <2> DEFINE t == OpenTurn(J)
  <2>1. t \in Turns /\ t.before = J.hist
    BY JournalFields DEF OpenTurn, Turns
  <2>2. Effect(J, e) = [J EXCEPT !.turn = t]
    BY <1>2 DEF Effect
  <2> HIDE DEF t
  <2>3. [J EXCEPT !.turn = t] \in Journals
    BY <2>1, Kept
  <2>4. /\ [J EXCEPT !.turn = t].hist = J.hist /\ [J EXCEPT !.turn = t].tools = J.tools
        /\ [J EXCEPT !.turn = t].turn = t /\ [J EXCEPT !.turn = t].step = J.step
    BY DEF Journals
  <2>5. QED  BY <1>1, <1>2, <2>1, <2>2, <2>3, <2>4 DEF After, Within
<1>3. CASE e.type = "turn/ended"
  <2>1. J.step = None
    BY <1>3 DEF Accepts, Lives, Ends
  <2>2. Effect(J, e) = [J EXCEPT !.turn = None]
    BY <1>3 DEF Effect
  <2>3. [J EXCEPT !.turn = None] \in Journals
    BY <2>1 DEF Journals
  <2>4. /\ [J EXCEPT !.turn = None].hist = J.hist /\ [J EXCEPT !.turn = None].tools = J.tools
        /\ [J EXCEPT !.turn = None].turn = None /\ [J EXCEPT !.turn = None].step = None
    BY <2>1 DEF Journals
  <2>5. QED  BY <1>1, <2>2, <2>3, <2>4 DEF After, Within
<1>4. CASE e.type = "step/started"
  <2> DEFINE s == OpenStep(J)
             t == [J.turn EXCEPT !.stepped = TRUE, !.mayRoll = FALSE, !.rolled = FALSE]
             K == [J EXCEPT !.step = s, !.turn = t]
  <2>1. J.turn # None /\ J.turn \in Turns
    BY <1>4, JournalFields DEF Accepts, Lives, Starts
  <2>2. t \in Turns /\ t.before = J.turn.before
    BY <2>1 DEF Turns
  <2>3. s \in Steps
    BY JournalFields DEF OpenStep, Steps
  <2>4. Effect(J, e) = K
    <3>1. Effect(J, e) = [J EXCEPT !.step = OpenStep(J),
                   !.turn.stepped = TRUE, !.turn.mayRoll = FALSE, !.turn.rolled = FALSE]
      BY <1>4 DEF Effect
    <3>2. QED  BY <3>1 DEF Journals
  <2> HIDE DEF s, t
  <2>5. K \in Journals /\ K.hist = J.hist /\ K.tools = J.tools /\ K.turn = t
    BY <2>2, <2>3 DEF Journals
  <2> HIDE DEF K
  <2>6. QED  BY <1>1, <1>4, <2>1, <2>2, <2>4, <2>5 DEF After, Within
<1>5. CASE e.type = "step/completed"
  <2> DEFINE silent == e.outcome = "completed" /\ J.step.pending = "response" /\ J.step.expected = None
             failed == e.outcome # "completed" /\ (e.recovered => e.rollbackTurn)
             t == [J.turn EXCEPT !.mayRoll = (silent \/ failed), !.mustRoll = (@ \/ failed)]
             K == [J EXCEPT !.step = None, !.turn = t]
  <2>1. J.step # None /\ J.turn \in Turns
    BY <1>5, JournalFields DEF Accepts, Lives, Ends
  <2>2. t \in Turns /\ t.before = J.turn.before
    <3>1. silent \in BOOLEAN /\ failed \in BOOLEAN
      OBVIOUS
    <3> HIDE DEF silent, failed
    <3>2. QED  BY <2>1, <3>1 DEF Turns
  <2>3. Effect(J, e) = K
    <3>1. Effect(J, e) = [J EXCEPT !.step = None, !.turn.mayRoll = silent \/ failed,
                                   !.turn.mustRoll = @ \/ failed]
      BY <1>5 DEF Effect, AfterStep
    <3> HIDE DEF silent, failed
    <3>2. QED  BY <3>1 DEF Journals
  <2> HIDE DEF t
  <2>4. K \in Journals /\ K.hist = J.hist /\ K.tools = J.tools /\ K.turn = t
    BY <2>2 DEF Journals
  <2> HIDE DEF K
  <2>5. QED  BY <1>1, <1>5, <2>1, <2>2, <2>3, <2>4 DEF After, Within
<1>6. QED  BY <1>2, <1>3, <1>4, <1>5

\* The other events leave the history alone, but for a reset, which empties it.
LEMMA AdvanceOther ==
  ASSUME NEW J \in Journals, NEW e \in Events, Accepts(J, e),
         e.type \in {"model/request-prepared", "model/response-received", "adapter/state",
                     "session/reset", "session/destroyed"}
  PROVE  After(Effect(J, e), J, e)
<1>1. ToolsAfter(J, e) = J.tools
  BY DEF ToolsAfter
<1>2. CASE e.type = "model/request-prepared"
  <2>1. J.step # None /\ J.step \in Steps /\ J.turn # None /\ J.turn \in Turns
    BY <1>2, JournalFields DEF Accepts, Lives, NeedsStep
  <2> DEFINE s == [J.step EXCEPT !.pending = "request", !.asked = TRUE,
                     !.adapterBefore = J.adapter, !.unprojected = TRUE]
             K == [J EXCEPT !.step = s]
  <2>2. s \in Steps
    BY <2>1, JournalFields DEF Steps
  <2>3. Effect(J, e) = K
    <3>1. Effect(J, e) = [J EXCEPT !.step.pending = "request", !.step.asked = TRUE,
                           !.step.adapterBefore = J.adapter, !.step.unprojected = TRUE]
      BY <1>2 DEF Effect
    <3>2. QED  BY <3>1 DEF Journals
  <2> HIDE DEF s
  <2>4. K \in Journals /\ K.hist = J.hist /\ K.tools = J.tools /\ K.turn = J.turn /\ (K.step # None => J.step # None)
    BY <2>1, <2>2 DEF Journals
  <2>5. HistAfter(J, e) = J.hist
    BY <1>2 DEF HistAfter
  <2> HIDE DEF K
  <2>6. QED  BY <1>1, <1>2, <2>1, <2>3, <2>4, <2>5 DEF After, Within
<1>3. CASE e.type = "model/response-received"
  <2>1. J.step # None /\ J.step \in Steps /\ J.turn # None /\ J.turn \in Turns
    BY <1>3, JournalFields DEF Accepts, Lives, NeedsStep
  <2> DEFINE s == [J.step EXCEPT !.pending = "response", !.expected = e.message]
             K == [J EXCEPT !.step = s]
  <2>2. s \in Steps
    <3>1. e.message \in Messages \cup {None}
      BY <1>3, EventFields
    <3>2. QED  BY <2>1, <3>1 DEF Steps
  <2>3. Effect(J, e) = K
    <3>1. Effect(J, e) = [J EXCEPT !.step.pending = "response", !.step.expected = e.message]
      BY <1>3 DEF Effect
    <3>2. QED  BY <3>1 DEF Journals
  <2> HIDE DEF s
  <2>4. K \in Journals /\ K.hist = J.hist /\ K.tools = J.tools /\ K.turn = J.turn /\ (K.step # None => J.step # None)
    BY <2>1, <2>2 DEF Journals
  <2>5. HistAfter(J, e) = J.hist
    BY <1>3 DEF HistAfter
  <2> HIDE DEF K
  <2>6. QED  BY <1>1, <1>3, <2>1, <2>3, <2>4, <2>5 DEF After, Within
<1>4. CASE e.type = "adapter/state"
  <2>1. Effect(J, e) = [J EXCEPT !.adapter = e.state] /\ HistAfter(J, e) = J.hist
    BY <1>4 DEF Effect, HistAfter
  <2>2. [J EXCEPT !.adapter = e.state] \in Journals
    BY <1>4, EventFields, Kept
  <2>3. /\ [J EXCEPT !.adapter = e.state].hist = J.hist /\ [J EXCEPT !.adapter = e.state].tools = J.tools
        /\ [J EXCEPT !.adapter = e.state].turn = J.turn /\ [J EXCEPT !.adapter = e.state].step = J.step
    BY DEF Journals
  <2>4. QED  BY <1>1, <1>4, <2>1, <2>2, <2>3 DEF After, Within
<1>5. CASE e.type = "session/reset"
  <2> DEFINE K == [J EXCEPT !.hist = <<>>, !.adapter = <<>>, !.thread = e.thread]
  <2>1. Effect(J, e) = K /\ HistAfter(J, e) = <<>>
    BY <1>5 DEF Effect, HistAfter
  <2>2. e.thread \in Threads /\ <<>> \in Histories
    BY <1>5, EventFields DEF Histories
  <2>3. K \in Journals /\ K.hist = <<>> /\ K.tools = J.tools /\ K.turn = J.turn /\ (K.step # None => J.step # None)
    BY <2>2 DEF Journals
  <2> HIDE DEF K
  <2>4. QED  BY <1>1, <1>5, <2>1, <2>3 DEF After, Within
<1>6. CASE e.type = "session/destroyed"
  <2>1. Effect(J, e) = [J EXCEPT !.dead = TRUE] /\ HistAfter(J, e) = J.hist
    BY <1>6 DEF Effect, HistAfter
  <2>2. [J EXCEPT !.dead = TRUE] \in Journals
    BY Kept
  <2>3. /\ [J EXCEPT !.dead = TRUE].hist = J.hist /\ [J EXCEPT !.dead = TRUE].tools = J.tools
        /\ [J EXCEPT !.dead = TRUE].turn = J.turn /\ [J EXCEPT !.dead = TRUE].step = J.step
    BY DEF Journals
  <2>4. QED  BY <1>1, <1>6, <2>1, <2>2, <2>3 DEF After, Within
<1>7. QED  BY <1>2, <1>3, <1>4, <1>5, <1>6

\* What the fold makes of a journal with an event that the validator accepts.
LEMMA Advances ==
  ASSUME NEW J \in Journals, NEW e \in Events, Accepts(J, e)
  PROVE  After(Advance(J, e), J, e)
<1> DEFINE E == Effect(J, e)
           K == [E EXCEPT !.count = 2]
<1>1. After(E, J, e)
  BY EventFields, AdvanceMessage, AdvanceTool, AdvanceReplacement, AdvanceTurn, AdvanceOther
<1>2. Advance(J, e) = K
  BY DEF Advance
<1> HIDE DEF E
<1>3. E \in Journals
  BY <1>1 DEF After, Within
<1>4. K \in Journals
  BY <1>3, Kept
<1>5. K.hist = E.hist /\ K.tools = E.tools /\ K.turn = E.turn /\ K.step = E.step
  BY <1>3 DEF Journals
<1> HIDE DEF K
<1>6. QED  BY <1>1, <1>2, <1>4, <1>5 DEF After, Within

-----------------------------------------------------------------------------
(* What a true event makes of an honest journal.                             *)

\* An event that is true leaves an honest journal honest.
LEMMA HonestAfter ==
  ASSUME NEW J \in Journals, NEW e \in Events, Accepts(J, e), NEW K, After(K, J, e),
         NEW eff, NEW open, NEW calls, NEW started,
         JournalHonest(J, eff, open), ToolsTrue(J, eff, open, calls, started),
         EventTrue(e, eff, open, calls, started)
  PROVE  JournalHonest(K, eff, open)
<1>1. J.hist \in Histories /\ J.hist \in Seq(Messages) /\ J.tools \in Seq(Tools)
  BY JournalFields DEF Histories
<1>2. HonestIn(J.hist, eff, open)
  BY DEF JournalHonest
<1>3. HonestIn(K.hist, eff, open)
  <2>1. CASE e.type = "message/appended"
    <3> DEFINE m == e.message
    <3>1. m \in Messages
      BY <2>1, EventFields
    <3>2. K.hist = Append(J.hist, m)
      BY <2>1 DEF After, HistAfter
    <3>3. m.role = "tool" => Tells(m.call, m.says, eff, open)
      <4> SUFFICES ASSUME m.role = "tool" PROVE Tells(m.call, m.says, eff, open)
        OBVIOUS
      <4>1. IsOpen(J, m.call) /\ At(J, m.call) = "result" /\ Says(J, m.call) = m.says
        BY <2>1 DEF Accepts, Correlates, Repeats
      <4>2. PICK i \in DOMAIN J.tools :
              J.tools[i].call = m.call /\ J.tools[i].at = "result" /\ J.tools[i].says = m.says
        BY <4>1, Placed
      <4>3. ToolTrue(J.tools[i], eff, open, calls, started)
        BY DEF ToolsTrue
      <4>4. QED  BY <4>2, <4>3 DEF ToolTrue
    <3> HIDE DEF m
    <3>4. /\ Len(Append(J.hist, m)) = Len(J.hist) + 1 /\ Len(J.hist) \in Nat
          /\ DOMAIN Append(J.hist, m) = 1..(Len(J.hist) + 1)
          /\ \A i \in 1..Len(J.hist) : Append(J.hist, m)[i] = J.hist[i]
          /\ Append(J.hist, m)[Len(J.hist) + 1] = m
      BY <1>1, <3>1, AppendProperties
    <3>5. ASSUME NEW i \in DOMAIN K.hist, K.hist[i].role = "tool"
          PROVE  Tells(K.hist[i].call, K.hist[i].says, eff, open)
      <4>1. CASE i = Len(J.hist) + 1
        BY <3>2, <3>3, <3>4, <3>5, <4>1
      <4>2. CASE i # Len(J.hist) + 1
        <5>1. i \in 1..Len(J.hist) /\ i \in DOMAIN J.hist /\ K.hist[i] = J.hist[i]
          BY <1>1, <3>2, <3>4, <4>2
        <5>2. QED  BY <1>2, <3>5, <5>1 DEF HonestIn
      <4>3. QED  BY <4>1, <4>2
    <3>6. QED  BY <3>5 DEF HonestIn
  <2>2. CASE e.type = "history/replaced"
    <3>1. K.hist = e.history
      BY <2>2 DEF After, HistAfter
    <3>2. QED  BY <2>2, <3>1 DEF EventTrue
  <2>3. CASE e.type = "session/reset"
    <3>1. K.hist = <<>>
      BY <2>3 DEF After, HistAfter
    <3>2. QED  BY <3>1 DEF HonestIn
  <2>4. CASE e.type \notin {"message/appended", "history/replaced", "session/reset"}
    <3>1. K.hist = J.hist
      BY <2>4 DEF After, HistAfter
    <3>2. QED  BY <1>2, <3>1
  <2>5. QED  BY <2>1, <2>2, <2>3, <2>4
<1>4. Within(K) => HonestIn(K.turn.before, eff, open)
  BY <1>2 DEF After, JournalHonest
<1>5. QED  BY <1>3, <1>4 DEF JournalHonest

\* An event that is true leaves the records of the open calls true.
LEMMA ToolsTrueAfter ==
  ASSUME NEW J \in Journals, NEW e \in Events, Accepts(J, e), NEW K, After(K, J, e),
         NEW eff, NEW open, NEW calls, NEW started,
         ToolsTrue(J, eff, open, calls, started),
         EventTrue(e, eff, open, calls, started)
  PROVE  ToolsTrue(K, eff, open, calls,
                   IF e.type = "tool/execution-started" THEN started \cup {e.call} ELSE started)
<1>1. J.tools \in Seq(Tools) /\ K.tools = ToolsAfter(J, e)
  BY JournalFields DEF After
<1>2. \A i \in DOMAIN J.tools : ToolTrue(J.tools[i], eff, open, calls, started)
  BY DEF ToolsTrue
<1>3. CASE e.type = "message/appended" /\ e.message.role = "assistant"
  <2>1. e.message.calls \in Seq(Calls)
    BY <1>3, EventFields, MessageFields
  <2>2. K.tools = Opens(e.message)
    BY <1>1, <1>3 DEF ToolsAfter
  <2>3. ASSUME NEW i \in DOMAIN K.tools PROVE ToolTrue(K.tools[i], eff, open, calls, started)
    <3>1. /\ i \in DOMAIN e.message.calls
          /\ K.tools[i] = [call |-> e.message.calls[i], at |-> "declared", says |-> "unknown"]
      BY <2>2 DEF Opens
    <3>2. e.message.calls[i] \in Range(e.message.calls)
      BY <3>1 DEF Range
    <3>3. /\ eff[e.message.calls[i]] = "no"
          /\ e.message.calls[i] \notin Range(calls) /\ e.message.calls[i] \notin started
      BY <1>3, <3>2 DEF EventTrue
    <3>4. QED  BY <3>1, <3>3 DEF ToolTrue
  <2>4. QED  BY <1>3, <2>3 DEF ToolsTrue
<1>4. CASE e.type = "message/appended" /\ e.message.role = "tool"
  <2> DEFINE P == Place(J, e.message.call)
             S == {J.tools[i] : i \in DOMAIN J.tools}
  <2>1. IsOpen(J, e.message.call)
    BY <1>4 DEF Accepts, Correlates, Repeats
  <2>2. P \in DOMAIN J.tools
    BY <2>1, Placed
  <2>3. K.tools = RemoveAt(J.tools, P)
    BY <1>1, <1>4 DEF ToolsAfter
  <2>4. J.tools \in Seq(S)
    <3>1. DOMAIN J.tools = 1..Len(J.tools) /\ Len(J.tools) \in Nat
      BY <1>1
    <3>2. QED  BY <1>1, <3>1
  <2> HIDE DEF P
  <2>5. K.tools \in Seq(S)
    BY <2>2, <2>3, <2>4, Removing
  <2>6. \A i \in DOMAIN K.tools : K.tools[i] \in S
    BY <2>5
  <2>7. \A i \in DOMAIN K.tools : ToolTrue(K.tools[i], eff, open, calls, started)
    BY <1>2, <2>6
  <2>8. QED  BY <1>4, <2>7 DEF ToolsTrue
<1>5. CASE e.type = "tool/call"
  <2>1. e.call \in Calls
    BY <1>5, EventFields
  <2>2. K.tools = SetTool(J, e.call, "called", "unknown").tools
    BY <1>1, <1>5 DEF ToolsAfter
  <2>3. /\ DOMAIN K.tools = DOMAIN J.tools
        /\ \A i \in DOMAIN J.tools : K.tools[i] =
             IF J.tools[i].call = e.call THEN [call |-> e.call, at |-> "called", says |-> "unknown"]
             ELSE J.tools[i]
    BY <2>2, ToolSet
  <2>4. ASSUME NEW i \in DOMAIN K.tools PROVE ToolTrue(K.tools[i], eff, open, calls, started)
    BY <1>2, <1>5, <2>3 DEF ToolTrue, EventTrue
  <2>5. QED  BY <1>5, <2>4 DEF ToolsTrue
<1>6. CASE e.type = "tool/execution-started"
  <2>1. e.call \in Calls
    BY <1>6, EventFields
  <2>2. K.tools = SetTool(J, e.call, "started", "unknown").tools
    BY <1>1, <1>6 DEF ToolsAfter
  <2>3. /\ DOMAIN K.tools = DOMAIN J.tools
        /\ \A i \in DOMAIN J.tools : K.tools[i] =
             IF J.tools[i].call = e.call THEN [call |-> e.call, at |-> "started", says |-> "unknown"]
             ELSE J.tools[i]
    BY <2>2, ToolSet
  <2>4. ASSUME NEW i \in DOMAIN K.tools
        PROVE ToolTrue(K.tools[i], eff, open, calls, started \cup {e.call})
    BY <1>2, <2>3 DEF ToolTrue
  <2>5. QED  BY <1>6, <2>4 DEF ToolsTrue
<1>7. CASE e.type = "tool/result"
  <2>1. e.call \in Calls
    BY <1>7, EventFields
  <2>2. K.tools = SetTool(J, e.call, "result", e.says).tools
    BY <1>1, <1>7 DEF ToolsAfter
  <2>3. /\ DOMAIN K.tools = DOMAIN J.tools
        /\ \A i \in DOMAIN J.tools : K.tools[i] =
             IF J.tools[i].call = e.call THEN [call |-> e.call, at |-> "result", says |-> e.says]
             ELSE J.tools[i]
    BY <2>2, ToolSet
  <2>4. Tells(e.call, e.says, eff, open)
    <3>1. CASE ~e.recovered
      BY <1>7, <3>1 DEF EventTrue
    <3>2. CASE e.recovered
      <4>1. /\ IsOpen(J, e.call) /\ At(J, e.call) # "result"
            /\ e.says = IF At(J, e.call) = "started" THEN "unknown" ELSE "not executed"
        BY <1>7, <3>2 DEF Accepts, Correlates, Concludes
      <4> DEFINE i == Place(J, e.call)
      <4>2. i \in DOMAIN J.tools /\ J.tools[i].call = e.call /\ J.tools[i].at = At(J, e.call)
        BY ZenonT(30), <4>1, Placed
      <4> HIDE DEF i
      <4>3. J.tools[i].at \in {"declared", "called", "started", "result"}
        <5>1. J.tools[i] \in Tools
          BY <1>1, <4>2
        <5>2. QED  BY <5>1 DEF Tools
      <4>4. ToolTrue(J.tools[i], eff, open, calls, started)
        BY <1>2, <4>2
      <4>5. open \subseteq Range(calls)
        BY <1>7, <3>2 DEF EventTrue
      <4>6. QED  BY <4>1, <4>2, <4>3, <4>4, <4>5 DEF ToolTrue, Tells
    <3>3. QED  BY <3>1, <3>2
  <2>5. ASSUME NEW i \in DOMAIN K.tools PROVE ToolTrue(K.tools[i], eff, open, calls, started)
    <3>1. CASE J.tools[i].call = e.call
      <4>1. K.tools[i].call = e.call /\ K.tools[i].at = "result" /\ K.tools[i].says = e.says
        BY <2>3, <2>5, <3>1
      <4>2. e.call \notin Range(calls)
        BY <1>2, <2>3, <2>5, <3>1 DEF ToolTrue
      <4>3. QED  BY <2>4, <4>1, <4>2 DEF ToolTrue
    <3>2. CASE J.tools[i].call # e.call
      BY <1>2, <2>3, <2>5, <3>2
    <3>3. QED  BY <3>1, <3>2
  <2>6. QED  BY <1>7, <2>5 DEF ToolsTrue
<1>8. CASE /\ e.type \notin {"tool/call", "tool/execution-started", "tool/result"}
           /\ e.type = "message/appended" => e.message.role \notin {"assistant", "tool"}
  <2>1. K.tools = J.tools
    BY <1>1, <1>8 DEF ToolsAfter
  <2>2. QED  BY <1>2, <1>8, <2>1 DEF ToolsTrue
<1>9. QED  BY <1>3, <1>4, <1>5, <1>6, <1>7, <1>8

-----------------------------------------------------------------------------
(* What a handler does only makes fewer calls open: what was true stays so.  *)

Evolves(eff, open, calls, started, eff2, open2, calls2, started2) ==
  /\ open2 \subseteq open /\ started \subseteq open /\ started2 \subseteq started
  /\ Range(calls2) \subseteq Range(calls)
  /\ \A c \in Calls :
       /\ eff[c] = "no" /\ c \notin started => eff2[c] = "no"
       /\ eff[c] \in {"done", "failed"} => eff2[c] = eff[c]

\* A history stays true.
LEMMA HonestStays ==
  ASSUME NEW eff, NEW open, NEW calls, NEW started, NEW eff2, NEW open2, NEW calls2, NEW started2,
         Evolves(eff, open, calls, started, eff2, open2, calls2, started2),
         NEW h \in Histories, HonestIn(h, eff, open)
  PROVE  HonestIn(h, eff2, open2)
<1> SUFFICES ASSUME NEW i \in DOMAIN h, h[i].role = "tool"
             PROVE  Tells(h[i].call, h[i].says, eff2, open2)
  BY DEF HonestIn
<1>1. h[i] \in Messages
  BY DEF Histories
<1>2. h[i].call \in Calls
  BY <1>1, MessageFields
<1>3. Tells(h[i].call, h[i].says, eff, open)
  BY DEF HonestIn
<1>4. QED  BY <1>2, <1>3 DEF Tells, Evolves

\* A journal stays honest.
LEMMA JournalStays ==
  ASSUME NEW eff, NEW open, NEW calls, NEW started, NEW eff2, NEW open2, NEW calls2, NEW started2,
         Evolves(eff, open, calls, started, eff2, open2, calls2, started2),
         NEW J \in Journals, JournalHonest(J, eff, open)
  PROVE  JournalHonest(J, eff2, open2)
<1>1. HonestIn(J.hist, eff2, open2)
  BY JournalFields, HonestStays DEF JournalHonest
<1>2. ASSUME Within(J) PROVE HonestIn(J.turn.before, eff2, open2)
  <2>1. J.turn \in Turns
    BY <1>2, JournalFields DEF Within
  <2>2. J.turn.before \in Histories
    BY <2>1 DEF Turns
  <2>3. QED  BY <1>2, <2>2, HonestStays DEF JournalHonest
<1>3. QED  BY <1>1, <1>2 DEF JournalHonest

\* The records of the open calls stay true.
LEMMA ToolsStay ==
  ASSUME NEW eff, NEW open, NEW calls, NEW started, NEW eff2, NEW open2, NEW calls2, NEW started2,
         Evolves(eff, open, calls, started, eff2, open2, calls2, started2),
         NEW J \in Journals, ToolsTrue(J, eff, open, calls, started)
  PROVE  ToolsTrue(J, eff2, open2, calls2, started2)
<1> SUFFICES ASSUME NEW i \in DOMAIN J.tools
             PROVE  ToolTrue(J.tools[i], eff2, open2, calls2, started2)
  BY DEF ToolsTrue
<1>1. J.tools[i] \in Tools
  BY JournalFields
<1>2. J.tools[i].call \in Calls
  BY <1>1 DEF Tools
<1>3. ToolTrue(J.tools[i], eff, open, calls, started)
  BY DEF ToolsTrue
<1>4. QED  BY <1>2, <1>3 DEF ToolTrue, Tells, Evolves

\* The histories that an operation may go back to stay true.
LEMMA RunStays ==
  ASSUME NEW eff, NEW open, NEW calls, NEW started, NEW eff2, NEW open2, NEW calls2, NEW started2,
         Evolves(eff, open, calls, started, eff2, open2, calls2, started2),
         NEW r \in Runs, RunHonest(r, eff, open)
  PROVE  RunHonest(r, eff2, open2)
<1>1. r.before \in Histories /\ (r.checkpoint # None => r.checkpoint.hist \in Histories)
  BY DEF Runs
<1>2. QED  BY <1>1, HonestStays DEF RunHonest

\* The conversation store stays true.
LEMMA MemStays ==
  ASSUME NEW eff, NEW open, NEW calls, NEW started, NEW eff2, NEW open2, NEW calls2, NEW started2,
         Evolves(eff, open, calls, started, eff2, open2, calls2, started2),
         NEW m \in [Threads -> Histories \cup {None}], MemHonest(m, eff, open)
  PROVE  MemHonest(m, eff2, open2)
<1> SUFFICES ASSUME NEW t \in Threads PROVE HonestIn(MessagesOf(m[t]), eff2, open2)
  BY DEF MemHonest
<1>1. MessagesOf(m[t]) \in Histories
  BY DEF MessagesOf, Histories
<1>2. QED  BY <1>1, HonestStays DEF MemHonest

\* Events stay true when fewer calls are open.
LEMMA EventsStay ==
  ASSUME NEW eff, NEW open, NEW calls, NEW open2, open2 \subseteq open,
         NEW events \in Seq(Events), AllTrue(events, eff, open, calls, {})
  PROVE  AllTrue(events, eff, open2, calls, {})
<1> SUFFICES ASSUME NEW i \in DOMAIN events PROVE EventTrue(events[i], eff, open2, calls, {})
  BY DEF AllTrue
<1> DEFINE e == events[i]
<1>1. e \in Events /\ EventTrue(e, eff, open, calls, {})
  BY DEF AllTrue
<1> HIDE DEF e
<1>2. e.type = "history/replaced" => HonestIn(e.history, eff, open2)
  BY <1>1 DEF EventTrue, HonestIn, Tells
<1>3. e.type = "tool/result" =>
        IF e.recovered THEN open2 \subseteq Range(calls) ELSE Tells(e.call, e.says, eff, open2)
  BY <1>1 DEF EventTrue, Tells
<1>4. EventTrue(e, eff, open2, calls, {})
  BY <1>1, <1>2, <1>3 DEF EventTrue
<1>5. QED  BY <1>4 DEF e

-----------------------------------------------------------------------------
(* Sequences of true events.                                                 *)

Truths(eff, open, calls) == {e \in Events : EventTrue(e, eff, open, calls, {})}

\* A sequence of true events is one.
LEMMA TrueEvents ==
  ASSUME NEW eff, NEW open, NEW calls, NEW events \in Seq(Truths(eff, open, calls))
  PROVE  events \in Seq(Events) /\ AllTrue(events, eff, open, calls, {})
<1>1. DOMAIN events = 1..Len(events) /\ Len(events) \in Nat
  OBVIOUS
<1>2. \A i \in DOMAIN events : events[i] \in Events /\ EventTrue(events[i], eff, open, calls, {})
  BY DEF Truths
<1>3. QED  BY <1>1, <1>2 DEF AllTrue

\* Events that say nothing of a call are true.
Silent(e) ==
  /\ e \in Events /\ e.type \notin {"tool/call", "tool/result", "history/replaced"}
  /\ e.type = "message/appended" => e.message.role # "assistant" \/ e.message.calls = <<>>

\* A silent event is true, whatever calls are open.
LEMMA SilentIsTrue ==
  ASSUME NEW e, Silent(e), NEW eff, NEW open, NEW calls
  PROVE  e \in Truths(eff, open, calls)
<1>1. e.type = "message/appended" /\ e.message.role = "assistant" => Range(e.message.calls) = {}
  BY DEF Silent, Range
<1>2. QED  BY <1>1 DEF Silent, Truths, EventTrue

\* The events that say nothing of a call.
LEMMA SilentOnes ==
  /\ Silent(TurnStarted) /\ Silent(StepStarted) /\ Silent(Destroyed)
  /\ \A o \in Outcomes : /\ Silent(TurnEnded(o)) /\ Silent(StepCompleted(o))
                         /\ \A b \in BOOLEAN :
                              Silent([StepCompleted(o) EXCEPT !.recovered = TRUE, !.rollbackTurn = b])
  /\ \A h \in Histories : Silent(Request(h)) /\ Silent(Adapter(h))
  /\ \A m \in Messages \cup {None} : Silent(Response(m))
  /\ \A n \in Int : Silent(Message(User(n))) /\ Silent(External(User(n)))
  /\ Silent(Message(Answer))
  /\ \A c \in Calls, w \in Words : Silent(Message(Receipt(c, w)))
  /\ \A t \in Threads : Silent(Reset(t))
<1>1. Silent(TurnStarted) /\ Silent(StepStarted) /\ Silent(Destroyed)
  BY SilentEvents DEF Silent, TurnStarted, StepStarted, Destroyed
<1>2. ASSUME NEW o \in Outcomes
      PROVE  /\ Silent(TurnEnded(o)) /\ Silent(StepCompleted(o))
             /\ \A b \in BOOLEAN :
                  Silent([StepCompleted(o) EXCEPT !.recovered = TRUE, !.rollbackTurn = b])
  BY SilentEvents DEF Silent, TurnEnded, StepCompleted
<1>3. \A h \in Histories : Silent(Request(h)) /\ Silent(Adapter(h))
  BY SilentEvents DEF Silent, Request, Adapter
<1>4. \A m \in Messages \cup {None} : Silent(Response(m))
  BY SilentEvents DEF Silent, Response
<1>5. \A n \in Int : Silent(Message(User(n))) /\ Silent(External(User(n)))
  BY MessageEvents DEF Silent, Message, External, User
<1>6. Silent(Message(Answer))
  BY MessageEvents DEF Silent, Message, Answer, Asks
<1>7. \A c \in Calls, w \in Words : Silent(Message(Receipt(c, w)))
  BY MessageEvents DEF Silent, Message, Receipt
<1>8. \A t \in Threads : Silent(Reset(t))
  <2>1. \A t \in Threads : Reset(t) \in Events
    BY DEF Events, Reset
  <2>2. QED  BY <2>1 DEF Silent, Reset
<1>9. QED  BY <1>1, <1>2, <1>3, <1>4, <1>5, <1>6, <1>7, <1>8

\* A history that is true may replace another.
LEMMA TrueReplacement ==
  ASSUME NEW eff, NEW open, NEW calls, NEW h \in Histories, HonestIn(h, eff, open),
         NEW r \in Reasons, NEW t \in Threads
  PROVE  /\ Replaced(h, r) \in Truths(eff, open, calls)
         /\ [Replaced(h, r) EXCEPT !.recovered = TRUE] \in Truths(eff, open, calls)
         /\ Compacted(h) \in Truths(eff, open, calls)
         /\ Switched(t, h) \in Truths(eff, open, calls)
<1>1. /\ Replaced(h, r).type = "history/replaced" /\ Replaced(h, r).history = h
      /\ [Replaced(h, r) EXCEPT !.recovered = TRUE].type = "history/replaced"
      /\ [Replaced(h, r) EXCEPT !.recovered = TRUE].history = h
  BY DEF Replaced
<1>2. Compacted(h).type = "history/replaced" /\ Compacted(h).history = h
  BY DEF Compacted, Replaced
<1>3. Switched(t, h).type = "history/replaced" /\ Switched(t, h).history = h
  BY DEF Switched, Replaced
<1>4. ASSUME NEW e \in Events, e.type = "history/replaced", e.history = h
      PROVE  e \in Truths(eff, open, calls)
  BY <1>4 DEF Truths, EventTrue
<1>5. QED  BY <1>1, <1>2, <1>3, <1>4, HistoryEvents

\* What recoverInterrupted appends is true, once no call is open.
LEMMA RecoveryIsTrue ==
  ASSUME NEW J \in Journals, NEW eff, NEW open, NEW calls,
         JournalHonest(J, eff, open), open \subseteq Range(calls)
  PROVE  RecoveryPlan(J) \in Seq(Truths(eff, open, calls))
<1> DEFINE S == Truths(eff, open, calls)
<1>1. ASSUME NEW t \in Tools PROVE Recovered(t) \in Seq(S)
  <2> DEFINE says == IF t.at = "started" THEN "unknown" ELSE "not executed"
             e == [ToolResult(t.call, says) EXCEPT !.recovered = TRUE]
  <2>1. t.call \in Calls /\ t.says \in Words /\ says \in Words
    BY DEF Tools, Words
  <2>2. Message(Receipt(t.call, t.says)) \in S /\ Message(Receipt(t.call, says)) \in S
    BY <2>1, SilentOnes, SilentIsTrue
  <2>3. e \in S
    <3>1. e \in Events
      BY <2>1, ToolEvents
    <3>2. e.type = "tool/result" /\ e.recovered
      BY DEF ToolResult
    <3> HIDE DEF e
    <3>3. QED  BY <3>1, <3>2 DEF Truths, EventTrue
  <2>4. Recovered(t) = IF t.at = "result" THEN <<Message(Receipt(t.call, t.says))>>
                       ELSE <<e, Message(Receipt(t.call, says))>>
    BY DEF Recovered
  <2> HIDE DEF says, e, S
  <2>5. QED  BY <2>2, <2>3, <2>4
<1>2. CloseTools(J) \in Seq(S)
  <2>1. J.tools \in Seq(Tools) /\ DOMAIN J.tools = 1..Len(J.tools) /\ Len(J.tools) \in Nat
    BY JournalFields
  <2>2. [i \in DOMAIN J.tools |-> Recovered(J.tools[i])] \in Seq(Seq(S))
    <3> HIDE DEF S
    <3>1. \A i \in 1..Len(J.tools) : Recovered(J.tools[i]) \in Seq(S)
      BY <1>1, <2>1
    <3>2. QED  BY <2>1, <3>1
  <2>3. QED  BY <2>2, Flattening DEF CloseTools
<1>3. ASSUME NEW a, NEW b \in Histories PROVE Restore(a, b) \in Seq(S)
  <2>1. Adapter(b) \in S
    BY SilentOnes, SilentIsTrue
  <2> HIDE DEF S
  <2>2. QED  BY <2>1 DEF Restore
<1>4. ContinuationAtTurn(J) \in Histories
  BY JournalFields DEF ContinuationAtTurn, Steps
<1>5. CloseStep(J) \in Seq(S)
  <2> DEFINE e == [StepCompleted("interrupted") EXCEPT !.recovered = TRUE, !.rollbackTurn = RollsBack(J)]
  <2>1. e \in S
    <3>1. RollsBack(J) \in BOOLEAN /\ "interrupted" \in Outcomes
      BY DEF RollsBack, Outcomes
    <3>2. Silent(e)
      BY <3>1, SilentOnes
    <3>3. QED  BY <3>2, SilentIsTrue
  <2>2. Restore(J.adapter, ContinuationAtTurn(J)) \in Seq(S)
    BY <1>3, <1>4
  <2>3. CloseStep(J) = IF J.step = None THEN <<>> ELSE Append(Restore(J.adapter, ContinuationAtTurn(J)), e)
    BY DEF CloseStep
  <2> HIDE DEF S, e
  <2>4. Append(Restore(J.adapter, ContinuationAtTurn(J)), e) \in Seq(S)
    BY <2>1, <2>2, AppendProperties
  <2>5. QED  BY <2>3, <2>4
<1>6. RollBackTurn(J) \in Seq(S)
  <2>1. CASE ~RollsBack(J)
    <3> HIDE DEF S
    <3> QED  BY <2>1 DEF RollBackTurn
  <2>2. CASE RollsBack(J)
    <3>1. J.turn # None /\ J.turn \in Turns
      BY <2>2, JournalFields DEF RollsBack
    <3>2. J.turn.before \in Histories /\ J.turn.adapterBefore \in Histories
      BY <3>1 DEF Turns
    <3>3. HonestIn(J.turn.before, eff, open)
      BY <3>1 DEF JournalHonest, Within
    <3> DEFINE e == [Replaced(J.turn.before, "interrupted_turn_rolled_back") EXCEPT !.recovered = TRUE]
               R == Restore(ContinuationAtTurn(J), J.turn.adapterBefore)
    <3>4. e \in S
      <4>1. "interrupted_turn_rolled_back" \in Reasons
        BY DEF Reasons
      <4>2. QED  BY <3>2, <3>3, <4>1, JournalFields, TrueReplacement
    <3>5. R \in Seq(S)
      BY <1>3, <3>2
    <3>6. RollBackTurn(J) = <<e>> \o R
      BY <2>2 DEF RollBackTurn
    <3> HIDE DEF S, e, R
    <3>7. <<e>> \in Seq(S)
      BY <3>4
    <3>8. QED  BY <3>5, <3>6, <3>7, ConcatProperties
  <2>3. QED  BY <2>1, <2>2
<1>7. CloseTurn(J) \in Seq(S)
  <2>1. TurnEnded("interrupted") \in S
    BY SilentOnes, SilentIsTrue DEF Outcomes
  <2> HIDE DEF S
  <2>2. QED  BY <2>1 DEF CloseTurn
<1> HIDE DEF S
<1>8. CloseTools(J) \o CloseStep(J) \in Seq(S)
  BY <1>2, <1>5, ConcatProperties
<1>9. (CloseTools(J) \o CloseStep(J)) \o RollBackTurn(J) \in Seq(S)
  BY <1>6, <1>8, ConcatProperties
<1>10. ((CloseTools(J) \o CloseStep(J)) \o RollBackTurn(J)) \o CloseTurn(J) \in Seq(S)
  BY <1>7, <1>9, ConcatProperties
<1>11. RecoveryPlan(J) \in Seq(S)
  BY <1>10 DEF RecoveryPlan
<1>12. QED  BY <1>11 DEF S

-----------------------------------------------------------------------------
(* Steps: what they have in common.                                          *)

\* The fields of an operation in progress.
LEMMA RunFields ==
  ASSUME NEW r \in Runs
  PROVE  /\ r.at \in Places /\ r.todo \in Seq(Events) /\ r.then \in Nexts /\ r.onFail \in Failures
         /\ r.to \in Threads \cup {None} /\ r.started \in BOOLEAN /\ r.rounds \in Int
         /\ r.before \in Histories /\ r.adapterBefore \in Histories
         /\ r.checkpoint # None => r.checkpoint \in [hist : Histories, adapter : Histories]
         /\ r.recovering \in BOOLEAN /\ r.terminal \in BOOLEAN /\ r.answered \in BOOLEAN
         /\ r.batch \in Seq(Calls) /\ r.call \in [Calls -> Phases]
         /\ r.told \in [Calls -> Words \cup {"none"}]
BY DEF Runs

\* No call is under way.
Rests(r, eff, calls) ==
  \A c \in Calls :
    /\ r.call[c] \in Resting
    /\ r.call[c] # "none" => c \notin Range(calls)
    /\ r.call[c] # "none" /\ eff[c] # "no" => r.told[c] # "none"
    /\ r.told[c] \in {"done", "failed"} => eff[c] = r.told[c]

\* Outside a batch every call rests.
LEMMA RestsOutside ==
  ASSUME Accounted(run, effect, left.calls), run.at # "batch"
  PROVE  Rests(run, effect, left.calls)
BY DEF Accounted, Rests

\* A call whose intent is on record has yet to enter its handler.
LEMMA StartedIsOpen ==
  ASSUME TypeOK, Accounted(run, effect, left.calls)
  PROVE  StartedIn(run) \subseteq OpenNow
<1> SUFFICES ASSUME NEW c \in Calls, run.call[c] = "started" PROVE c \in OpenNow
  BY DEF StartedIn
<1>1. run.at = "batch"
  BY DEF Accounted, Resting
<1>2. QED  BY <1>1 DEF OpenNow, OpenIn, Unrun

\* s is r at the first of events, or where it goes when there are none.
Follows(s, r, events, then) ==
  /\ s \in Runs /\ s.call = r.call /\ s.told = r.told /\ s.batch = r.batch /\ s.to = r.to
  /\ s.before = r.before /\ s.checkpoint = r.checkpoint
  /\ s.todo = events
  /\ IF events = <<>> THEN s.at = then ELSE s.at = "script" /\ s.then = then
  /\ s.at = "script" <=> s.todo # <<>>

\* An operation that begins to append a sequence of events.
LEMMA ScriptFields ==
  ASSUME NEW r \in Runs, r.todo = <<>>, NEW events \in Seq(Events), NEW then, NEW onFail \in Failures,
         \/ then \in Nexts
         \/ then \in Addressed \cup {"batch", "down"} /\ events = <<>>
  PROVE  Follows(Script(r, events, then, onFail), r, events, then)
<1>1. CASE events = <<>>
  <2>1. Script(r, events, then, onFail) = [r EXCEPT !.at = then]
    BY <1>1 DEF Script
  <2>2. then \in Places /\ then # "script"
    BY DEF Nexts, Places, Addressed
  <2>3. [r EXCEPT !.at = then] \in Runs
    BY <2>2 DEF Runs
  <2>4. QED  BY SMTT(20), <1>1, <2>1, <2>2, <2>3 DEF Runs, Follows
<1>2. CASE events # <<>>
  <2> DEFINE s == [r EXCEPT !.at = "script", !.todo = events, !.then = then, !.onFail = onFail]
  <2>1. Script(r, events, then, onFail) = s
    BY <1>2 DEF Script
  <2>2. "script" \in Places
    BY DEF Places
  <2>3. s \in Runs
    BY <1>2, <2>2 DEF Runs
  <2>4. /\ s.call = r.call /\ s.told = r.told /\ s.batch = r.batch /\ s.to = r.to
        /\ s.before = r.before /\ s.checkpoint = r.checkpoint
        /\ s.todo = events /\ s.at = "script" /\ s.then = then
    BY DEF Runs
  <2> HIDE DEF s
  <2>5. QED  BY <1>2, <2>1, <2>3, <2>4 DEF Follows
<1>3. QED  BY <1>1, <1>2

\* Nothing is made true or false by a step that leaves the handlers alone.
LEMMA Steady ==
  ASSUME TypeOK, Accounted(run, effect, left.calls),
         NEW open2, open2 \subseteq OpenNow, NEW calls2, Range(calls2) \subseteq Range(left.calls),
         NEW started2, started2 \subseteq StartedIn(run)
  PROVE  Evolves(effect, OpenNow, left.calls, StartedIn(run), effect, open2, calls2, started2)
BY StartedIsOpen DEF Evolves

\* The operation goes on to another place, or to a script of true events.
LEMMA Moves ==
  ASSUME IInv, run.at # "down", UNCHANGED <<disk, kernel, effect>>,
         left' \in Lefts, IsInjective(left'.calls), Range(left'.calls) \subseteq Range(left.calls),
         mem' \in [Threads -> Histories \cup {None}], MemHonest(mem', effect, OpenNow),
         NEW r \in Runs, r.todo = <<>>, RunHonest(r, effect, OpenNow), Rests(r, effect, left.calls),
         NEW then, NEW onFail \in Failures, NEW open,
         open = Range(left'.calls) \cup (IF then \in Ahead THEN Range(r.batch) ELSE {}),
         then \in Ahead => \A c \in Range(r.batch) :
                             effect[c] = "no" /\ c \notin Range(left'.calls) /\ c \in OpenNow,
         NEW events \in Seq(Truths(effect, open, left'.calls)),
         then = "response" => /\ events # <<>> /\ events[1].type = "model/response-received"
                              /\ \A i \in DOMAIN events : events[i].type \in Replies,
         \/ then \in Nexts
         \/ then \in Addressed /\ r.to \in Threads /\ events = <<>>,
         run' = Script(r, events, then, onFail)
  PROVE  IInv'
<1>1. events \in Seq(Events) /\ AllTrue(events, effect, open, left'.calls, {})
  BY TrueEvents
<1>2. /\ run' \in Runs /\ run'.call = r.call /\ run'.told = r.told /\ run'.batch = r.batch /\ run'.to = r.to
      /\ run'.before = r.before /\ run'.checkpoint = r.checkpoint /\ run'.todo = events
      /\ IF events = <<>> THEN run'.at = then ELSE run'.at = "script" /\ run'.then = then
      /\ run'.at = "script" <=> run'.todo # <<>>
  BY <1>1, ScriptFields DEF Follows
<1>3. run'.at # "batch" /\ run'.at # "down" /\ (run'.at \in Addressed => run'.to \in Threads)
  BY <1>2 DEF Nexts, Addressed
<1>4. OpenIn(run', left'.calls) \subseteq open /\ (Pre(run') => then \in Ahead)
  BY <1>2, <1>3 DEF OpenIn, Unrun, Pre, Ahead
<1>5. TypeOK /\ Accounted(run, effect, left.calls)
  BY DEF IInv
<1>6. open \subseteq OpenNow
  BY <1>5 DEF OpenNow, OpenIn
<1>7. StartedIn(run') = {}
  BY <1>2 DEF Rests, Resting, StartedIn
<1>8. /\ effect' = effect /\ disk' = disk /\ kernel' = kernel
  OBVIOUS
<1> DEFINE now == OpenIn(run', left'.calls)
<1>9. Evolves(effect, OpenNow, left.calls, StartedIn(run), effect, now, left'.calls, StartedIn(run'))
  BY <1>4, <1>5, <1>6, <1>7, Steady
<1>10. TypeOK'
  BY <1>2, <1>3, <1>5, <1>8 DEF TypeOK
<1>11. Accounted(run', effect, left'.calls)
  <2> SUFFICES ASSUME NEW c \in Calls
               PROVE  /\ c \in OpenIn(run', left'.calls) => effect[c] = "no"
                      /\ run'.call[c] # "none" \/ (Pre(run') /\ c \in Range(run'.batch)) => c \notin Range(left'.calls)
                      /\ run'.call[c] \in Resting
                      /\ run'.call[c] # "none" /\ effect[c] # "no" => run'.told[c] # "none"
                      /\ run'.told[c] \in {"done", "failed"} => effect[c] = run'.told[c]
    BY <1>3 DEF Accounted, Resting
  <2>1. c \in OpenIn(run', left'.calls) => effect[c] = "no"
    <3>1. c \in OpenNow => effect[c] = "no"
      BY <1>5 DEF Accounted, OpenNow
    <3>2. QED  BY <1>4, <1>6, <3>1
  <2>2. run'.call[c] # "none" \/ (Pre(run') /\ c \in Range(run'.batch)) => c \notin Range(left'.calls)
    BY <1>2, <1>4 DEF Rests
  <2>3. QED  BY <1>2, <2>1, <2>2 DEF Rests
<1>12. JournalHonest(disk, effect, now) /\ JournalHonest(kernel, effect, now)
  <2>1. /\ JournalHonest(disk, effect, OpenNow) /\ disk \in Journals
        /\ JournalHonest(kernel, effect, OpenNow) /\ kernel \in Journals
    BY DEF IInv, TypeOK
  <2>2. JournalHonest(disk, effect, now)
    BY <1>9, <2>1, JournalStays
  <2>3. JournalHonest(kernel, effect, now)
    BY <1>9, <2>1, JournalStays
  <2>4. QED  BY <2>2, <2>3
<1>13. RunHonest(run', effect, now)
  <2>1. RunHonest(r, effect, now)
    BY <1>9, RunStays
  <2>2. QED  BY <1>2, <2>1 DEF RunHonest
<1>14. MemHonest(mem', effect, now)
  BY <1>9, MemStays
<1>15. ToolsTrue(disk, effect, now, left'.calls, StartedIn(run'))
  BY <1>9, ToolsStay DEF IInv, TypeOK
<1>16. AllTrue(run'.todo, effect, now, left'.calls, {})
  BY <1>1, <1>2, <1>4, EventsStay
<1>17. InStep(run', kernel)
  BY <1>2 DEF InStep
<1> HIDE DEF now
<1>18. QED
  BY <1>3, <1>17, <1>8, <1>10, <1>11, <1>12, <1>13, <1>14, <1>15, <1>16 DEF IInv, OpenNow, now, Recorded

-----------------------------------------------------------------------------
(* Appending an event that is true.                                          *)

\* A step that appends an event which is true keeps the invariant.
LEMMA Appending ==
  ASSUME IInv, run.at # "down", NEW e \in Events, UNCHANGED effect,
         NEW open2, open2 \subseteq OpenNow,
         EventTrue(e, effect, open2, left.calls, StartedIn(run)),
         Appended(e) \/ AppendFails(e)
  PROVE  /\ disk' \in Journals /\ kernel' \in Journals
         /\ JournalHonest(disk', effect, open2)
         /\ JournalHonest(kernel', effect, open2)
         /\ ToolsTrue(disk', effect, open2, left.calls, StartedIn(run))
         /\ Appended(e) /\ e.type = "tool/execution-started" =>
              ToolsTrue(disk', effect, open2, left.calls, StartedIn(run) \cup {e.call})
         /\ left' \in Lefts /\ left'.calls = left.calls /\ left'.threads = left.threads
         /\ Appended(e) => kernel = disk /\ Accepts(disk, e) /\ disk' = Advance(disk, e)
<1> DEFINE S == StartedIn(run)
           T == IF e.type = "tool/execution-started" THEN S \cup {e.call} ELSE S
<1>1. TypeOK /\ Accounted(run, effect, left.calls)
  BY DEF IInv
<1>2. Evolves(effect, OpenNow, left.calls, S, effect, open2, left.calls, S)
  BY <1>1, Steady
<1>3. disk \in Journals /\ kernel \in Journals /\ left \in Lefts
  BY <1>1 DEF TypeOK
<1>4. JournalHonest(disk, effect, open2) /\ JournalHonest(kernel, effect, open2)
  <2>1. JournalHonest(disk, effect, open2)
    BY <1>2, <1>3, JournalStays DEF IInv
  <2>2. JournalHonest(kernel, effect, open2)
    BY <1>2, <1>3, JournalStays DEF IInv
  <2>3. QED  BY <2>1, <2>2
<1>5. ToolsTrue(disk, effect, open2, left.calls, S)
  BY <1>2, <1>3, ToolsStay DEF IInv
<1>6. ASSUME Accepts(disk, e)
      PROVE  /\ Advance(disk, e) \in Journals /\ JournalHonest(Advance(disk, e), effect, open2)
             /\ ToolsTrue(Advance(disk, e), effect, open2, left.calls, T)
             /\ ToolsTrue(Advance(disk, e), effect, open2, left.calls, S)
  <2>1. After(Advance(disk, e), disk, e)
    BY <1>3, <1>6, Advances
  <2>2. Advance(disk, e) \in Journals
    BY <2>1 DEF After
  <2>3. JournalHonest(Advance(disk, e), effect, open2)
    BY <1>3, <1>4, <1>5, <1>6, <2>1, HonestAfter
  <2>4. ToolsTrue(Advance(disk, e), effect, open2, left.calls, T)
    BY <1>3, <1>5, <1>6, <2>1, ToolsTrueAfter
  <2>5. ToolsTrue(Advance(disk, e), effect, open2, left.calls, S)
    BY <2>4 DEF ToolsTrue, ToolTrue
  <2>6. QED  BY <2>2, <2>3, <2>4, <2>5
<1>7. CASE Appended(e)
  <2>1. /\ kernel = disk /\ Accepts(disk, e) /\ disk' = Advance(disk, e) /\ kernel' = disk' /\ left' = left
    BY <1>7 DEF Appended
  <2>2. ToolsTrue(disk', effect, open2, left.calls, S)
    BY <1>6, <2>1
  <2>3. e.type = "tool/execution-started" =>
          ToolsTrue(disk', effect, open2, left.calls, S \cup {e.call})
    BY <1>6, <2>1
  <2>4. QED  BY <1>3, <1>6, <1>7, <2>1, <2>2, <2>3
<1>8. CASE AppendFails(e)
  <2>1. /\ kernel' = kernel
        /\ \/ disk' = disk
           \/ kernel = disk /\ Accepts(disk, e) /\ disk' = Advance(disk, e)
    BY <1>8 DEF AppendFails
  <2>2. left' \in Lefts /\ left'.calls = left.calls /\ left'.threads = left.threads
    BY <1>3, <1>8 DEF AppendFails, Lefts
  <2>3. ToolsTrue(disk', effect, open2, left.calls, S)
    BY <1>5, <1>6, <2>1
  <2>a. Appended(e) /\ e.type = "tool/execution-started" =>
          ToolsTrue(disk', effect, open2, left.calls, S \cup {e.call})
    BY <1>6 DEF Appended
  <2>4. disk' \in Journals /\ JournalHonest(disk', effect, open2)
    BY <1>3, <1>4, <1>6, <2>1
  <2>5. Appended(e) => kernel = disk /\ Accepts(disk, e) /\ disk' = Advance(disk, e)
    BY DEF Appended
  <2>6. QED  BY <1>3, <1>4, <2>1, <2>2, <2>3, <2>a, <2>4, <2>5
<1>9. QED  BY <1>7, <1>8

\* The step stays open while the response is read.
LEMMA StepKept ==
  ASSUME NEW J \in Journals, NEW e \in Events, Accepts(J, e), e.type \in Replies,
         J.step \in Steps \/ e.type = "model/response-received"
  PROVE  Advance(J, e).step \in Steps
<1>1. CASE e.type = "adapter/state"
  <2>1. Effect(J, e) = [J EXCEPT !.adapter = e.state]
    BY <1>1 DEF Effect
  <2>2. Advance(J, e).step = J.step
    BY <2>1 DEF Advance, Journals
  <2>3. QED  BY <1>1, <2>2
<1>2. CASE e.type = "model/response-received"
  <2>1. J.step \in Steps
    BY <1>2, JournalFields DEF Accepts, Lives, NeedsStep
  <2>2. e.message \in Messages \cup {None}
    BY <1>2, EventFields
  <2> DEFINE s == [J.step EXCEPT !.pending = "response", !.expected = e.message]
  <2>3. s \in Steps
    BY <2>1, <2>2 DEF Steps
  <2>4. Effect(J, e) = [J EXCEPT !.step.pending = "response", !.step.expected = e.message]
    BY <1>2 DEF Effect
  <2>5. [J EXCEPT !.step.pending = "response", !.step.expected = e.message] = [J EXCEPT !.step = s]
    BY DEF Journals
  <2> HIDE DEF s
  <2>6. Advance(J, e).step = s
    BY <2>4, <2>5 DEF Advance, Journals
  <2>7. QED  BY <2>3, <2>6
<1>3. QED  BY <1>1, <1>2 DEF Replies

\* The events of an operation are appended one at a time; any append may fail.
LEMMA ScriptStepKeeps ==
  ASSUME IInv, ScriptStep
  PROVE  IInv'
<1>1. /\ TypeOK /\ Accounted(run, effect, left.calls)
      /\ run.at = "script" /\ run \in Runs /\ run.todo # <<>> /\ kernel \in Journals
      /\ mem' = mem /\ effect' = effect
  BY DEF IInv, TypeOK, ScriptStep
<1> DEFINE e == Head(run.todo)
           rest == Rest(run)
           open2 == Range(left.calls) \cup (IF run.then \in Ahead THEN Range(run.batch) ELSE {})
<1>2. e \in Events /\ Tail(run.todo) \in Seq(Events) /\ 1 \in DOMAIN run.todo /\ e = run.todo[1]
  BY <1>1, RunFields
<1>3. OpenNow = open2
  BY <1>1 DEF OpenNow, OpenIn, Unrun, Pre, Ahead
<1>4. EventTrue(e, effect, OpenNow, left.calls, {})
  BY <1>2 DEF IInv, AllTrue
<1>5. StartedIn(run) = {}
  BY <1>1, RestsOutside DEF Rests, Resting, StartedIn
<1>6. Appended(e) \/ AppendFails(e)
  BY DEF ScriptStep
<1>7. /\ disk' \in Journals /\ kernel' \in Journals
      /\ JournalHonest(disk', effect, OpenNow) /\ JournalHonest(kernel', effect, OpenNow)
      /\ ToolsTrue(disk', effect, OpenNow, left.calls, {})
      /\ left' \in Lefts /\ left'.calls = left.calls
  <2> HIDE DEF e
  <2>1. /\ disk' \in Journals /\ kernel' \in Journals
      /\ JournalHonest(disk', effect, OpenNow) /\ JournalHonest(kernel', effect, OpenNow)
      /\ ToolsTrue(disk', effect, OpenNow, left.calls, StartedIn(run))
      /\ left' \in Lefts /\ left'.calls = left.calls
    BY <1>1, <1>2, <1>4, <1>5, <1>6, Appending
  <2>2. ToolsTrue(disk', effect, OpenNow, left.calls, {})
    BY <1>5, <2>1 DEF ToolsTrue, ToolTrue
  <2>3. QED  BY <2>1, <2>2
<1>8. /\ rest \in Runs /\ rest.todo = <<>> /\ rest.call = run.call /\ rest.told = run.told
      /\ rest.batch = run.batch /\ rest.before = run.before /\ rest.checkpoint = run.checkpoint
  <2>1. "idle" \in Nexts /\ "idle" \in Failures
    BY DEF Nexts, Places, Failures, Addressed
  <2>2. rest = [run EXCEPT !.todo = <<>>, !.then = "idle", !.onFail = "idle"]
    BY DEF Rest
  <2>3. run \in Runs /\ <<>> \in Seq(Events)
    BY <1>1
  <2> HIDE DEF rest
  <2>4. rest \in Runs
    BY <2>1, <2>2, <2>3 DEF Runs
  <2>5. /\ rest.todo = <<>> /\ rest.call = run.call /\ rest.told = run.told
        /\ rest.batch = run.batch /\ rest.before = run.before /\ rest.checkpoint = run.checkpoint
    BY <2>2, <2>3 DEF Runs
  <2>6. QED  BY <2>4, <2>5
<1>9. /\ run' \in Runs /\ run'.call = run.call /\ run'.told = run.told /\ run'.batch = run.batch
      /\ run'.before = run.before /\ run'.checkpoint = run.checkpoint
      /\ run'.at = "script" <=> run'.todo # <<>>
      /\ run'.at \notin Addressed \cup {"down", "batch"}
      /\ Pre(run') => run.then \in Ahead
      /\ AllTrue(run'.todo, effect, OpenNow, left.calls, {})
      /\ InStep(run', kernel')
  <2>1. run.then \in Nexts /\ run.onFail \in Failures
    BY <1>1, RunFields
  <2>2. CASE Appended(e) /\ run' = Script(rest, Tail(run.todo), run.then, run.onFail)
    <3>0. run' = Script(rest, Tail(run.todo), run.then, run.onFail)
      BY <2>2
    <3> HIDE DEF rest, e, open2
    <3>1. /\ run' \in Runs /\ run'.call = rest.call /\ run'.told = rest.told /\ run'.batch = rest.batch
          /\ run'.before = rest.before /\ run'.checkpoint = rest.checkpoint /\ run'.todo = Tail(run.todo)
          /\ IF Tail(run.todo) = <<>> THEN run'.at = run.then ELSE run'.at = "script" /\ run'.then = run.then
          /\ run'.at = "script" <=> run'.todo # <<>>
      <4>1. Follows(run', rest, Tail(run.todo), run.then)
        BY <1>2, <1>8, <2>1, <3>0, ScriptFields
      <4>2. QED  BY <4>1 DEF Follows
    <3>2. run'.at \notin Addressed \cup {"down", "batch"} /\ (Pre(run') => run.then \in Ahead)
      BY <2>1, <3>1 DEF Nexts, Pre, Addressed, Ahead
    <3>3. AllTrue(Tail(run.todo), effect, OpenNow, left.calls, {})
      <4> SUFFICES ASSUME NEW i \in DOMAIN Tail(run.todo)
                   PROVE  EventTrue(Tail(run.todo)[i], effect, OpenNow, left.calls, {})
        BY DEF AllTrue
      <4>1. run.todo \in Seq(Events)
        BY <1>1, RunFields
      <4>2. i + 1 \in DOMAIN run.todo /\ Tail(run.todo)[i] = run.todo[i + 1]
        BY <1>1, <4>1
      <4>3. QED  BY <4>2 DEF IInv, AllTrue
    <3>4. ASSUME run.then = "response"
          PROVE  kernel'.step \in Steps /\ \A i \in DOMAIN Tail(run.todo) : Tail(run.todo)[i].type \in Replies
      <4>1. /\ kernel.step \in Steps \/ e.type = "model/response-received"
            /\ \A i \in DOMAIN run.todo : run.todo[i].type \in Replies
        BY <1>1, <1>2, <3>4 DEF IInv, InStep
      <4>2. e.type \in Replies
        BY <1>2, <4>1
      <4>3. Accepts(kernel, e) /\ kernel' = Advance(kernel, e)
        BY <2>2 DEF Appended
      <4>4. kernel'.step \in Steps
        BY <1>1, <1>2, <4>1, <4>2, <4>3, StepKept
      <4>5. \A i \in DOMAIN Tail(run.todo) : i + 1 \in DOMAIN run.todo /\ Tail(run.todo)[i] = run.todo[i + 1]
        <5>1. run.todo \in Seq(Events)
          BY <1>1, RunFields
        <5>2. QED  BY <1>1, <5>1
      <4>6. QED  BY <4>1, <4>4, <4>5
    <3>5. InStep(run', kernel')
      BY <3>1, <3>4 DEF InStep
    <3>6. QED  BY <1>8, <3>1, <3>2, <3>3, <3>5
  <2>3. CASE run' = [rest EXCEPT !.at = run.onFail]
    <3> HIDE DEF rest
    <3>1. run.onFail \in Places /\ run.onFail \notin Addressed \cup {"down", "batch", "script"} \cup Ahead
      BY <2>1 DEF Failures, Places, Addressed, Ahead
    <3>2. /\ run' \in Runs /\ run'.call = rest.call /\ run'.told = rest.told /\ run'.batch = rest.batch
          /\ run'.before = rest.before /\ run'.checkpoint = rest.checkpoint /\ run'.todo = <<>>
          /\ run'.at = run.onFail
      BY <1>8, <2>3, <3>1 DEF Runs
    <3>3. AllTrue(run'.todo, effect, OpenNow, left.calls, {})
      BY <3>2 DEF AllTrue
    <3>4. ~Pre(run')
      BY <3>1, <3>2 DEF Pre
    <3>5. InStep(run', kernel')
      BY <3>1, <3>2 DEF InStep, Ahead
    <3>6. QED  BY <1>8, <3>1, <3>2, <3>3, <3>4, <3>5
  <2>4. QED  BY <2>2, <2>3 DEF ScriptStep
<1> DEFINE now == OpenIn(run', left'.calls)
<1>10. now \subseteq OpenNow
  BY <1>3, <1>7, <1>9 DEF OpenIn, Unrun
<1>11. StartedIn(run') = {}
  BY <1>5, <1>9 DEF StartedIn
<1>12. Evolves(effect, OpenNow, left.calls, StartedIn(run), effect, now, left'.calls, StartedIn(run'))
  BY <1>1, <1>7, <1>10, <1>5, <1>11, Steady
<1>13. TypeOK'
  BY <1>1, <1>7, <1>9 DEF TypeOK
<1>14. Accounted(run', effect, left'.calls)
  <2>1. Rests(run, effect, left.calls)
    BY <1>1, RestsOutside
  <2> SUFFICES ASSUME NEW c \in Calls
               PROVE  /\ c \in now => effect[c] = "no"
                      /\ run'.call[c] # "none" \/ (Pre(run') /\ c \in Range(run'.batch)) => c \notin Range(left'.calls)
                      /\ run'.call[c] \in Resting
                      /\ run'.call[c] # "none" /\ effect[c] # "no" => run'.told[c] # "none"
                      /\ run'.told[c] \in {"done", "failed"} => effect[c] = run'.told[c]
    BY <1>9 DEF Accounted, Resting
  <2>2. c \in now => effect[c] = "no"
    <3>1. c \in OpenNow => effect[c] = "no"
      BY <1>1 DEF Accounted, OpenNow
    <3>2. QED  BY <1>10, <3>1
  <2>3. Pre(run') => Pre(run)
    BY <1>1, <1>9 DEF Pre
  <2>4. run'.call[c] # "none" \/ (Pre(run') /\ c \in Range(run'.batch)) => c \notin Range(left'.calls)
    BY <1>1, <1>7, <1>9, <2>3 DEF Accounted
  <2>5. QED  BY <1>9, <2>1, <2>2, <2>4 DEF Rests
<1> HIDE DEF now, e, rest, open2
<1>15. JournalHonest(disk', effect, now) /\ JournalHonest(kernel', effect, now)
  BY <1>7, <1>12, JournalStays
<1>16. RunHonest(run', effect, now)
  <2>1. RunHonest(run, effect, now)
    BY <1>1, <1>12, RunStays DEF IInv
  <2>2. QED  BY <1>9, <2>1 DEF RunHonest
<1>17. MemHonest(mem, effect, now)
  BY <1>1, <1>12, MemStays DEF IInv, TypeOK
<1>18. ToolsTrue(disk', effect, now, left'.calls, StartedIn(run'))
  BY <1>5, <1>7, <1>12, ToolsStay
<1>19. AllTrue(run'.todo, effect, now, left'.calls, {})
  <2>1. run'.todo \in Seq(Events)
    BY <1>9, RunFields
  <2>2. QED  BY <1>7, <1>9, <1>10, <2>1, EventsStay
<1>20. QED
  BY <1>1, <1>9, <1>13, <1>14, <1>15, <1>16, <1>17, <1>18, <1>19 DEF IInv, OpenNow, now, Recorded

-----------------------------------------------------------------------------
(* The initial state.                                                        *)

\* A journal and a process that have not begun.
LEMMA Blank ==
  ASSUME NEW t \in Threads
  PROVE  /\ Fresh(t) \in Journals /\ Fresh(t).hist = <<>> /\ Fresh(t).tools = <<>>
         /\ Fresh(t).turn = None /\ Fresh(t).step = None
         /\ Idle \in Runs /\ Down \in Runs
         /\ Idle.todo = <<>> /\ Idle.before = <<>> /\ Idle.checkpoint = None /\ Idle.at = "idle"
         /\ Down.todo = <<>> /\ Down.before = <<>> /\ Down.checkpoint = None /\ Down.at = "down"
         /\ \A c \in Calls : /\ Idle.call[c] = "none" /\ Idle.told[c] = "none"
                             /\ Down.call[c] = "none" /\ Down.told[c] = "none"
<1>0. <<>> \in Histories /\ <<>> \in Seq(Events) /\ <<>> \in Seq(Calls) /\ <<>> \in Seq(Tools)
  BY DEF Histories
<1>1. /\ Fresh(t) \in Journals /\ Fresh(t).hist = <<>> /\ Fresh(t).tools = <<>>
      /\ Fresh(t).turn = None /\ Fresh(t).step = None
  BY <1>0 DEF Fresh, Journals
<1>2. /\ "idle" \in Places /\ "down" \in Places /\ "idle" \in Nexts /\ "idle" \in Failures
  BY DEF Places, Nexts, Failures, Addressed
<1>3. /\ [c \in Calls |-> "none"] \in [Calls -> Phases]
      /\ [c \in Calls |-> "none"] \in [Calls -> Words \cup {"none"}]
  BY DEF Phases
<1>4. Idle \in Runs
  BY <1>0, <1>2, <1>3 DEF Idle, Runs
<1>5. Down \in Runs
  BY <1>2, <1>4 DEF Down, Runs
<1>6. /\ Idle.todo = <<>> /\ Idle.before = <<>> /\ Idle.checkpoint = None /\ Idle.at = "idle"
      /\ \A c \in Calls : Idle.call[c] = "none" /\ Idle.told[c] = "none"
  BY DEF Idle
<1>7. /\ Down.todo = <<>> /\ Down.before = <<>> /\ Down.checkpoint = None /\ Down.at = "down"
      /\ \A c \in Calls : Down.call[c] = "none" /\ Down.told[c] = "none"
  BY DEF Down, Idle
<1>8. QED  BY <1>1, <1>4, <1>5, <1>6, <1>7

\* A process that has not begun tells nothing.
LEMMA NothingToTell ==
  ASSUME NEW eff, NEW open
  PROVE  /\ HonestIn(<<>>, eff, open)
         /\ \A n \in Int : <<User(n), Answer>> \in Histories /\ HonestIn(<<User(n), Answer>>, eff, open)
<1>1. \A n \in Int : User(n) \in Messages /\ Answer \in Messages
  BY MessageEvents
<1>2. \A n \in Int : <<User(n), Answer>> \in Histories
  BY <1>1 DEF Histories
<1>3. \A n \in Int : HonestIn(<<User(n), Answer>>, eff, open)
  BY DEF HonestIn, User, Answer, Asks
<1>4. QED  BY <1>2, <1>3 DEF HonestIn

\* The invariant holds at first.
LEMMA Begins == Init => IInv
<1> SUFFICES ASSUME Init PROVE IInv
  OBVIOUS
<1>1. /\ disk \in Journals /\ disk.hist = <<>> /\ disk.tools = <<>> /\ disk.turn = None /\ disk.step = None
      /\ run \in Runs /\ run.todo = <<>> /\ run.before = <<>> /\ run.checkpoint = None /\ run.at = "down"
      /\ \A c \in Calls : run.call[c] = "none" /\ run.told[c] = "none" /\ effect[c] = "no"
      /\ kernel = None
  BY ChatAssumption, Blank DEF Init
<1>2. left \in Lefts /\ IsInjective(left.calls)
  BY ChatAssumption DEF Init, Lefts
<1>3. \A h \in {None, <<User(OldText), Answer>>} :
         /\ h \in Histories \cup {None}
         /\ HonestIn(MessagesOf(h), effect, OpenNow)
  <2>1. OldText \in Int
    BY DEF OldText
  <2> HIDE DEF OldText
  <2>2. QED  BY <2>1, NothingToTell DEF MessagesOf
<1>4. mem \in [Threads -> Histories \cup {None}] /\ MemHonest(mem, effect, OpenNow)
  BY <1>3 DEF Init, MemHonest
<1>5. effect \in [Calls -> {"no", "entered", "done", "failed", "unknown"}]
  BY DEF Init
<1>6. TypeOK
  BY <1>1, <1>2, <1>4, <1>5 DEF TypeOK, Addressed
<1>7. Accounted(run, effect, left.calls)
  BY <1>1 DEF Accounted, Pre, Ahead, Resting
<1>8. QED
  BY <1>1, <1>4, <1>6, <1>7, NothingToTell
  DEF IInv, JournalHonest, Within, RunHonest, ToolsTrue, AllTrue, Recorded, InStep

-----------------------------------------------------------------------------
(* Most steps only go on to another place, or append events that say nothing *)
(* of a call, or put back a history that is true.                            *)

\* The operation's record may have changed where it does not matter here.
Fit(r) ==
  /\ r \in Runs /\ r.todo = <<>> /\ RunHonest(r, effect, OpenNow)
  /\ Rests(r, effect, left.calls)
\* The memory may have changed, and tells the truth.
Remembering(m) == m \in [Threads -> Histories \cup {None}] /\ MemHonest(m, effect, OpenNow)
Remembers == Remembering(mem')
Quiet == Truths(effect, Range(left.calls), left.calls)

\* Between the batches and the events no handler runs.
LEMMA Settled ==
  ASSUME IInv, run.at \notin {"script", "batch"}
  PROVE  Fit(run)
BY RestsOutside DEF IInv, TypeOK, Fit

\* What is left alone stays as it was.
LEMMA Standing ==
  ASSUME IInv, run.at # "down"
  PROVE  /\ kernel \in Journals /\ kernel.hist \in Histories /\ kernel.adapter \in Histories
         /\ kernel.thread \in Threads
         /\ HonestIn(kernel.hist, effect, OpenNow)
         /\ UNCHANGED mem => Remembers
BY JournalFields DEF IInv, TypeOK, JournalHonest, Remembers, Remembering

\* A step that goes on to another place.
LEMMA Goes ==
  ASSUME IInv, run.at # "down", UNCHANGED <<disk, kernel, effect, left>>, Remembers,
         NEW r, Fit(r), NEW then \in Nexts \ Ahead, NEW onFail \in Failures,
         NEW events \in Seq(Quiet), run' = Script(r, events, then, onFail)
  PROVE  IInv'
<1> DEFINE open == Range(left.calls) \cup (IF then \in Ahead THEN Range(r.batch) ELSE {})
<1>1. open = Range(left.calls)
  OBVIOUS
<1>2. left' \in Lefts /\ IsInjective(left'.calls) /\ left' = left
  BY DEF IInv, TypeOK
<1>3. events \in Seq(Truths(effect, open, left'.calls))
  BY <1>1, <1>2 DEF Quiet
<1>4. r \in Runs /\ r.todo = <<>> /\ RunHonest(r, effect, OpenNow) /\ Rests(r, effect, left.calls)
  BY DEF Fit
<1>5. open = Range(left'.calls) \cup (IF then \in Ahead THEN Range(r.batch) ELSE {})
  BY <1>2
<1> HIDE DEF open
<1>6. then # "response"
  BY DEF Ahead
<1>7. QED  BY <1>6, <1>2, <1>3, <1>4, <1>5, Moves DEF Remembers, Remembering

\* A step that only goes on to another place.
LEMMA GoesTo ==
  ASSUME IInv, run.at # "down", UNCHANGED <<disk, kernel, effect, left>>, Remembers,
         NEW r, Fit(r), NEW at \in Nexts \ Ahead, run' = [r EXCEPT !.at = at]
  PROVE  IInv'
<1>1. run' = Script(r, <<>>, at, "idle")
  BY DEF Script
<1>2. <<>> \in Seq(Quiet) /\ "idle" \in Failures
  BY DEF Failures
<1>3. QED  BY <1>1, <1>2, Goes

\* The places an operation goes on to.
LEMMA Onward ==
  /\ {"budget", "open", "opened", "round", "request", "model", "spoken", "answer", "answered",
      "after", "complete", "committed", "close", "mended", "terminated", "done", "ingest",
      "destroy", "import", "diverged", "idle", "catch", "finally", "told", "ended", "unopened"}
       \subseteq Nexts \ Ahead
  /\ {"idle", "catch", "finally", "told", "ended", "unopened"} \subseteq Failures
  /\ Ahead \subseteq Nexts
BY DEF Nexts, Places, Failures, Addressed, Ahead

\* No events at all are quiet ones.
LEMMA Nothing == <<>> \in Seq(Quiet)
OBVIOUS

\* Silent events are quiet ones.
LEMMA QuietOnes ==
  ASSUME NEW e, Silent(e)
  PROVE  e \in Quiet /\ <<e>> \in Seq(Quiet)
<1>1. e \in Quiet
  BY SilentIsTrue DEF Quiet
<1>2. QED  BY <1>1

\* A call that the model has yet to ask for is open.
LEMMA OpenCalls == Range(left.calls) \subseteq OpenNow
BY DEF OpenNow, OpenIn

\* The calls that are open once there is no operation.
LEMMA Narrower ==
  ASSUME NEW h, HonestIn(h, effect, OpenNow)
  PROVE  HonestIn(h, effect, Range(left.calls))
BY OpenCalls DEF HonestIn, Tells

\* A replacement by a true history is a quiet event.
LEMMA QuietReplacement ==
  ASSUME NEW h \in Histories, HonestIn(h, effect, OpenNow), NEW r \in Reasons
  PROVE  /\ Replaced(h, r) \in Quiet /\ Compacted(h) \in Quiet
         /\ \A t \in Threads : Switched(t, h) \in Quiet
<1>1. HonestIn(h, effect, Range(left.calls))
  BY Narrower
<1>2. First \in Threads
  BY ChatAssumption
<1>3. Replaced(h, r) \in Quiet /\ Compacted(h) \in Quiet
  BY <1>1, <1>2, TrueReplacement DEF Quiet
<1>4. \A t \in Threads : Switched(t, h) \in Quiet
  BY <1>1, TrueReplacement DEF Quiet
<1>5. QED  BY <1>3, <1>4

\* What the conversation store holds.
LEMMA Stored ==
  ASSUME NEW m, Remembering(m), NEW t \in Threads
  PROVE  /\ MessagesOf(m[t]) \in Histories /\ HonestIn(MessagesOf(m[t]), effect, OpenNow)
         /\ m[t] \in Histories \cup {None}
BY DEF Remembering, MemHonest, MessagesOf, Histories

\* A true history put into the conversation store.
LEMMA Putting ==
  ASSUME NEW m, Remembering(m), NEW t \in Threads, NEW h \in Histories \cup {None},
         HonestIn(MessagesOf(h), effect, OpenNow)
  PROVE  Remembering([m EXCEPT ![t] = h])
<1> DEFINE n == [m EXCEPT ![t] = h]
<1>1. n \in [Threads -> Histories \cup {None}]
  BY DEF Remembering
<1>2. ASSUME NEW u \in Threads PROVE HonestIn(MessagesOf(n[u]), effect, OpenNow)
  <2>1. n[u] = IF u = t THEN h ELSE m[u]
    BY DEF Remembering
  <2> HIDE DEF n
  <2>2. QED  BY <2>1 DEF Remembering, MemHonest
<1>3. QED  BY <1>1, <1>2 DEF Remembering, MemHonest

\* A true history projected, or refused as a conflict.
LEMMA Projecting ==
  ASSUME NEW m, Remembering(m), NEW t \in Threads, NEW k, NEW h \in Histories,
         HonestIn(h, effect, OpenNow)
  PROVE  Remembering([m EXCEPT ![t] = Projection(@, k, h)])
<1> DEFINE p == Projection(m[t], k, h)
<1>1. p = m[t] \/ p = h
  BY DEF Projection
<1>2. m[t] \in Histories \cup {None} /\ HonestIn(MessagesOf(m[t]), effect, OpenNow)
  BY Stored
<1>3. HonestIn(MessagesOf(h), effect, OpenNow)
  BY NothingToTell DEF MessagesOf
<1> HIDE DEF p
<1>4. Remembering([m EXCEPT ![t] = p])
  BY <1>1, <1>2, <1>3, Putting
<1>5. QED  BY <1>4 DEF p

\* The part of a history that the budget keeps.
LEMMA Least ==
  ASSUME NEW S \in SUBSET Nat, S # {}
  PROVE  \E i \in S : \A j \in S : i <= j
<1> DEFINE R == OpToRel(<, Nat)
<1>1. \A a, b \in Nat : a < b => <<a, b>> \in R
  BY DEF OpToRel
<1>2. IsWellFoundedOn(R, Nat)
  BY NatLessThanWellFounded
<1> HIDE DEF R
<1>3. PICK n \in S : \A m \in S : ~ (<<m, n>> \in R)
  BY <1>2, WFMin
<1>4. ASSUME NEW m \in S PROVE n <= m
  <2>1. m \in Nat /\ n \in Nat
    OBVIOUS
  <2>2. ~ (m < n)
    BY <1>1, <1>3, <2>1, Zenon
  <2>3. QED  BY <2>1, <2>2
<1>5. QED  BY <1>4

\* The budget keeps a part of a true history.
LEMMA PartIsHonest ==
  ASSUME NEW h \in Histories, HonestIn(h, effect, OpenNow)
  PROVE  Retained(h) \in Histories /\ HonestIn(Retained(h), effect, OpenNow)
<1> DEFINE fits == {i \in TurnStarts(h) : Len(h) - i + 2 <= MaxMessages}
           i == CHOOSE k \in fits : \A j \in fits : k <= j
<1>1. Len(h) \in Nat /\ DOMAIN h = 1..Len(h) /\ h \in Seq(Messages)
  BY DEF Histories
<1>2. CASE fits = {}
  <2>1. Retained(h) = <<>>
    BY <1>2 DEF Retained
  <2>2. QED  BY <2>1, NothingToTell DEF Histories
<1>3. CASE fits # {}
  <2>1. fits \in SUBSET Nat
    BY <1>1 DEF TurnStarts
  <2>2. i \in fits
    <3> HIDE DEF fits
    <3> QED  BY <1>3, <2>1, Least
  <2>3. i \in 1..Len(h)
    BY <1>1, <2>2 DEF TurnStarts
  <2>4. Retained(h) = SubSeq(h, i, Len(h))
    BY <1>3 DEF Retained
  <2> HIDE DEF i, fits
  <2>5. SubSeq(h, i, Len(h)) \in Seq(Messages) /\ Len(SubSeq(h, i, Len(h))) = Len(h) - i + 1
    BY <1>1, <2>3, SubSeqProperties
  <2>6. \A k \in 1..(Len(h) - i + 1) : SubSeq(h, i, Len(h))[k] = h[i + k - 1] /\ i + k - 1 \in DOMAIN h
    BY <1>1, <2>3, SubSeqProperties
  <2>7. HonestIn(SubSeq(h, i, Len(h)), effect, OpenNow)
    BY <2>5, <2>6 DEF HonestIn
  <2>8. QED  BY <2>4, <2>5, <2>7 DEF Histories
<1>4. QED  BY <1>2, <1>3

-----------------------------------------------------------------------------
(* The actions, in the order of the module.                                  *)

\* A caller begins an operation.
LEMMA BeginKeeps ==
  ASSUME IInv, NEW at, NEW to, Begin(at, to),
         \/ at \in {"switch", "keep", "delete"} /\ to \in Threads
         \/ at \in {"ingest", "destroy"} /\ to = None
  PROVE  IInv'
<1> DEFINE r == [Idle EXCEPT !.to = to]
           open == Range(left'.calls)
<1>1. r \in Runs /\ r.todo = <<>> /\ r.before = <<>> /\ r.checkpoint = None /\ r.to = to
      /\ \A c \in Calls : r.call[c] = "none" /\ r.told[c] = "none"
  <2>1. Idle \in Runs /\ to \in Threads \cup {None}
    BY ChatAssumption, Blank
  <2>2. r \in Runs
    BY <2>1 DEF Runs
  <2>3. QED  BY <2>2 DEF Idle
<1>2. run' = Script(r, <<>>, at, "idle")
  <2>1. run' = [Idle EXCEPT !.at = at, !.to = to]
    BY DEF Begin
  <2>2. [r EXCEPT !.at = at] = [Idle EXCEPT !.at = at, !.to = to]
    BY DEF Idle
  <2>3. QED  BY <2>1, <2>2 DEF Script
<1> HIDE DEF r
<1>3. /\ left' \in Lefts /\ left'.calls = left.calls /\ IsInjective(left'.calls) /\ run.at = "idle"
  BY DEF IInv, TypeOK, Begin, Lefts
<1>4. Remembering(mem')
  BY DEF IInv, TypeOK, Begin, Remembering
<1>5. RunHonest(r, effect, OpenNow) /\ Rests(r, effect, left.calls)
  BY <1>1, NothingToTell DEF RunHonest, Rests, Resting
<1>6. <<>> \in Seq(Truths(effect, open, left'.calls)) /\ "idle" \in Failures /\ at \notin Ahead /\ at # "response"
  BY DEF Failures, Ahead
<1>7. at \in Nexts \/ (at \in Addressed /\ r.to \in Threads)
  BY <1>1, Onward DEF Addressed
<1>8. /\ UNCHANGED <<disk, kernel, effect>> /\ Range(left'.calls) \subseteq Range(left.calls)
  BY <1>3 DEF Begin
<1>9. open = Range(left'.calls) \cup (IF at \in Ahead THEN Range(r.batch) ELSE {})
  BY <1>6
<1> HIDE DEF open
<1>10. QED
  BY <1>1, <1>2, <1>3, <1>4, <1>5, <1>6, <1>7, <1>8, <1>9, Moves DEF Remembering

\* switchThread: the history of another thread is taken from the conversation store.
LEMMA SwitchThreadKeeps ==
  ASSUME IInv, SwitchThread
  PROVE  IInv'
<1>1. /\ run.at = "switch" /\ UNCHANGED <<disk, kernel, effect, left>> /\ Fit(run) /\ run.to \in Threads
  BY Settled DEF SwitchThread, IInv, TypeOK, Addressed
<1>2. /\ kernel.hist \in Histories /\ HonestIn(kernel.hist, effect, OpenNow) /\ kernel.thread \in Threads
  BY <1>1, Standing
<1>3. Remembering(mem)
  BY DEF IInv, TypeOK, Remembering
<1>4. ASSUME NEW at \in {"budget", "ended"}, Goto(at), UNCHANGED mem PROVE IInv'
  BY <1>1, <1>3, <1>4, Onward, GoesTo DEF Goto, Remembers, Remembering
<1>5. CASE /\ mem' = [(IF kernel.hist = <<>> THEN mem
                       ELSE [mem EXCEPT ![kernel.thread] =
                               Projection(@, known[kernel.thread], kernel.hist)])
                        EXCEPT ![run.to] = MessagesOf(@)]
           /\ Do(<<Switched(run.to, MessagesOf(mem[run.to]))>>, "budget", "ended")
  <2> DEFINE kept == IF kernel.hist = <<>> THEN mem
                     ELSE [mem EXCEPT ![kernel.thread] =
                             Projection(@, known[kernel.thread], kernel.hist)]
             said == MessagesOf(mem[run.to])
  <2>1. Remembering(kept)
    BY <1>2, <1>3, Projecting
  <2>2. mem' = [kept EXCEPT ![run.to] = MessagesOf(kept[run.to])]
    BY <1>5
  <2> HIDE DEF kept
  <2>3. MessagesOf(kept[run.to]) \in Histories
        /\ HonestIn(MessagesOf(MessagesOf(kept[run.to])), effect, OpenNow)
    BY <1>1, <2>1, Stored, NothingToTell DEF MessagesOf
  <2>4. Remembers
    BY <1>1, <2>1, <2>2, <2>3, Putting DEF Remembers
  <2>5. said \in Histories /\ HonestIn(said, effect, OpenNow)
    BY <1>1, <1>3, Stored
  <2> HIDE DEF said
  <2>6. Switched(run.to, said) \in Quiet
    <3>1. "turn_failed" \in Reasons
      BY DEF Reasons
    <3>2. QED  BY <1>1, <2>5, <3>1, QuietReplacement
  <2>7. <<Switched(run.to, said)>> \in Seq(Quiet)
    BY <2>6
  <2>8. run' = Script(run, <<Switched(run.to, said)>>, "budget", "ended")
    BY <1>5 DEF Do, said
  <2>9. run.at # "down" /\ "budget" \in Nexts \ Ahead /\ "ended" \in Failures
    BY <1>1, Onward
  <2>10. QED  BY <1>1, <2>4, <2>7, <2>8, <2>9, Goes
<1>6. QED  BY <1>4, <1>5 DEF SwitchThread

\* A step that appends silent events, from a place between the batches.
LEMMA SaysNothing ==
  ASSUME IInv, run.at \notin {"down", "script", "batch"}, Others,
         NEW r, Fit(r), NEW e, Silent(e), NEW then \in Nexts \ Ahead, NEW onFail \in Failures,
         run' = Script(r, <<e>>, then, onFail)
  PROVE  IInv'
<1>1. UNCHANGED <<disk, kernel, effect, left>> /\ Remembers
  BY Standing DEF Others
<1>2. <<e>> \in Seq(Quiet)
  BY QuietOnes
<1>3. QED  BY <1>1, <1>2, Goes

\* A step that goes on to another place and changes nothing else of its operation.
LEMMA Jumps ==
  ASSUME IInv, run.at \notin {"down", "script", "batch"}, Others, NEW at \in Nexts \ Ahead, Goto(at)
  PROVE  IInv'
<1>1. UNCHANGED <<disk, kernel, effect, left>> /\ Remembers /\ Fit(run)
  BY Standing, Settled DEF Others
<1>2. QED  BY <1>1, GoesTo DEF Goto

\* applyHistoryBudget: a part of the history replaces it.
LEMMA ApplyBudgetKeeps ==
  ASSUME IInv, ApplyBudget
  PROVE  IInv'
<1>1. run.at = "budget" /\ Others /\ Fit(run)
  BY Settled DEF ApplyBudget
<1>2. CASE Goto("open")
  BY <1>1, <1>2, Onward, Jumps
<1>3. CASE Do(<<Compacted(Retained(kernel.hist))>>, "open", "ended")
  <2> DEFINE h == Retained(kernel.hist)
  <2>1. h \in Histories /\ HonestIn(h, effect, OpenNow)
    BY <1>1, Standing, PartIsHonest
  <2> HIDE DEF h
  <2>2. Compacted(h) \in Quiet
    <3>1. "turn_failed" \in Reasons
      BY DEF Reasons
    <3>2. QED  BY <2>1, <3>1, QuietReplacement
  <2>3. <<Compacted(h)>> \in Seq(Quiet)
    BY <2>2
  <2>4. run' = Script(run, <<Compacted(h)>>, "open", "ended")
    BY <1>3 DEF Do, h
  <2>5. UNCHANGED <<disk, kernel, effect, left>> /\ Remembers
    BY <1>1, Standing DEF Others
  <2>6. run.at # "down" /\ "open" \in Nexts \ Ahead /\ "ended" \in Failures
    BY <1>1, Onward
  <2>7. QED  BY <1>1, <2>3, <2>4, <2>5, <2>6, Goes
<1>4. QED  BY <1>2, <1>3 DEF ApplyBudget

\* A turn begins: its history is what a failure goes back to.
LEMMA OpenTheTurnKeeps ==
  ASSUME IInv, OpenTheTurn
  PROVE  IInv'
<1> DEFINE r == [run EXCEPT !.before = kernel.hist, !.adapterBefore = kernel.adapter]
<1>1. run.at = "open" /\ Others /\ Fit(run)
  BY Settled DEF OpenTheTurn
<1>2. kernel.hist \in Histories /\ kernel.adapter \in Histories /\ HonestIn(kernel.hist, effect, OpenNow)
  BY <1>1, Standing
<1>3. run \in Runs
  BY <1>1 DEF Fit
<1>4. r \in Runs
  BY <1>2, <1>3 DEF Runs
<1>5. /\ r.todo = run.todo /\ r.before = kernel.hist /\ r.checkpoint = run.checkpoint
      /\ r.call = run.call /\ r.told = run.told
  BY <1>3 DEF Runs
<1> HIDE DEF r
<1>6. Fit(r)
  BY <1>1, <1>2, <1>4, <1>5 DEF Fit, RunHonest, Rests
<1>7. run' = Script(r, <<TurnStarted>>, "opened", "catch")
  BY DEF OpenTheTurn, r
<1>8. Silent(TurnStarted) /\ "opened" \in Nexts \ Ahead /\ "catch" \in Failures
  BY SilentOnes, Onward
<1>9. run.at \notin {"down", "script", "batch"}
  BY <1>1
<1>10. QED  BY <1>1, <1>6, <1>7, <1>8, <1>9, SaysNothing

\* The fields that the honesty of a run rests on.
LEMMA StillFit ==
  ASSUME NEW r, Fit(r), NEW s \in Runs, s.todo = r.todo, s.before = r.before,
         s.checkpoint = r.checkpoint, s.call = r.call, s.told = r.told
  PROVE  Fit(s)
BY DEF Fit, RunHonest, Rests

\* The user's message enters the history.
LEMMA TheUserSaysKeeps ==
  ASSUME IInv, TheUserSays
  PROVE  IInv'
<1> DEFINE r == [run EXCEPT !.started = TRUE]
<1>1. run.at = "opened" /\ Others /\ Fit(run) /\ run \in Runs /\ left.ops + 1 \in Int
  BY Settled DEF TheUserSays, Fit, IInv, TypeOK, Lefts
<1>2. r \in Runs /\ r.todo = run.todo /\ r.before = run.before /\ r.checkpoint = run.checkpoint
      /\ r.call = run.call /\ r.told = run.told
  BY <1>1 DEF Runs
<1> HIDE DEF r
<1>3. Fit(r)
  BY <1>1, <1>2, StillFit
<1>4. run' = Script(r, <<Message(User(left.ops + 1))>>, "round", "catch")
  BY DEF TheUserSays, r
<1>5. Silent(Message(User(left.ops + 1))) /\ "round" \in Nexts \ Ahead /\ "catch" \in Failures
  BY <1>1, SilentOnes, Onward
<1>6. run.at \notin {"down", "script", "batch"}
  BY <1>1
<1>7. QED  BY <1>1, <1>3, <1>4, <1>5, <1>6, SaysNothing

\* A round begins with a step.
LEMMA NextRoundKeeps ==
  ASSUME IInv, NextRound
  PROVE  IInv'
<1> DEFINE r == [run EXCEPT !.rounds = @ + 1]
<1>1. run.at = "round" /\ Others /\ Fit(run) /\ run \in Runs
  BY Settled DEF NextRound, Fit
<1>2. CASE Goto("catch") \/ Goto("after")
  BY <1>1, <1>2, Onward, Jumps
<1>3. CASE run' = Script(r, <<StepStarted>>, "request", "catch")
  <2>1. r \in Runs /\ r.todo = run.todo /\ r.before = run.before /\ r.checkpoint = run.checkpoint
        /\ r.call = run.call /\ r.told = run.told
    <3> DEFINE n == run.rounds + 1
               s == [run EXCEPT !.rounds = n]
    <3>1. n \in Int
      BY <1>1, RunFields
    <3> HIDE DEF n
    <3>2. s \in Runs /\ s.todo = run.todo /\ s.before = run.before /\ s.checkpoint = run.checkpoint
          /\ s.call = run.call /\ s.told = run.told
      BY <1>1, <3>1 DEF Runs
    <3>3. r = s
      BY DEF n
    <3>4. QED  BY <3>2, <3>3
  <2> HIDE DEF r
  <2>2. Fit(r)
    BY <1>1, <2>1, StillFit
  <2>3. Silent(StepStarted) /\ "request" \in Nexts \ Ahead /\ "catch" \in Failures
    BY SilentOnes, Onward
  <2>4. run.at \notin {"down", "script", "batch"}
    BY <1>1
  <2>5. QED  BY <1>1, <1>3, <2>2, <2>3, <2>4, SaysNothing
<1>4. QED  BY <1>2, <1>3 DEF NextRound, Aborted

\* The request that is recorded says nothing new.
LEMMA PrepareRequestKeeps ==
  ASSUME IInv, PrepareRequest
  PROVE  IInv'
<1>1. run.at = "request" /\ Others /\ Fit(run)
  BY Settled DEF PrepareRequest
<1>2. CASE Goto("catch")
  BY <1>1, <1>2, Onward, Jumps
<1>3. CASE Do(<<Request(kernel.hist)>>, "model", "catch")
  <2>1. Silent(Request(kernel.hist)) /\ "model" \in Nexts \ Ahead /\ "catch" \in Failures
    BY <1>1, Standing, SilentOnes, Onward
  <2>2. run.at \notin {"down", "script", "batch"}
    BY <1>1
  <2>3. QED  BY <1>1, <1>3, <2>1, <2>2, SaysNothing DEF Do
<1>4. QED  BY <1>2, <1>3 DEF PrepareRequest

\* What the model is asked with the calls that are left.
LEMMA Taking ==
  ASSUME NEW s \in Seq(Calls), IsInjective(s), NEW n \in 1..Len(s)
  PROVE  LET b == SubSeq(s, 1, n)
             rest == SubSeq(s, Len(b) + 1, Len(s))
         IN /\ b \in Seq(Calls) /\ rest \in Seq(Calls)
            /\ Range(b) \subseteq Range(s) /\ Range(rest) \subseteq Range(s)
            /\ IsInjective(rest)
            /\ \A c \in Range(b) : c \notin Range(rest)
<1> DEFINE b == SubSeq(s, 1, n)
           rest == SubSeq(s, n + 1, Len(s))
<1>1. /\ Len(s) \in Nat /\ DOMAIN s = 1..Len(s) /\ n \in Nat /\ n <= Len(s)
      /\ \A i, j \in DOMAIN s : s[i] = s[j] => i = j
  BY DEF IsInjective
<1>2. b \in Seq(Calls) /\ Len(b) = n /\ DOMAIN b = 1..n /\ \A i \in 1..n : b[i] = s[i] /\ i \in DOMAIN s
  BY <1>1, SubSeqProperties
<1>3. /\ rest \in Seq(Calls) /\ DOMAIN rest = 1..(Len(s) - n)
      /\ \A i \in 1..(Len(s) - n) : rest[i] = s[n + i] /\ n + i \in DOMAIN s
  BY <1>1, SubSeqProperties
<1> HIDE DEF b, rest
<1>4. Range(b) \subseteq Range(s) /\ Range(rest) \subseteq Range(s)
  BY <1>2, <1>3 DEF Range
<1>5. IsInjective(rest)
  <2> SUFFICES ASSUME NEW i \in 1..(Len(s) - n), NEW j \in 1..(Len(s) - n), rest[i] = rest[j]
               PROVE  i = j
    BY <1>3 DEF IsInjective
  <2>1. s[n + i] = s[n + j] /\ n + i \in DOMAIN s /\ n + j \in DOMAIN s
    BY <1>3
  <2>2. n + i = n + j
    BY <1>1, <2>1
  <2>3. QED  BY <1>1, <2>2
<1>6. ASSUME NEW c \in Range(b), c \in Range(rest) PROVE FALSE
  <2>1. PICK i \in 1..n : b[i] = c
    BY <1>2 DEF Range
  <2>2. PICK j \in 1..(Len(s) - n) : rest[j] = c
    BY <1>3, <1>6 DEF Range
  <2>3. s[i] = s[n + j] /\ i \in DOMAIN s /\ n + j \in DOMAIN s
    BY <1>2, <1>3, <2>1, <2>2
  <2>4. i = n + j
    BY <1>1, <2>3
  <2>5. QED  BY <1>1, <2>4
<1>7. Len(b) = n
  BY <1>2
<1>8. QED  BY <1>2, <1>3, <1>4, <1>5, <1>6, <1>7 DEF b, rest

\* The operation is at a place before its batch, or goes there with events.
LEMMA GoesAhead ==
  ASSUME IInv, run.at # "down", UNCHANGED <<disk, kernel, mem, effect>>,
         left' \in Lefts, IsInjective(left'.calls), Range(left'.calls) \subseteq Range(left.calls),
         NEW r, Fit(r), NEW then \in Ahead, NEW open, open = Range(left'.calls) \cup Range(r.batch),
         \A c \in Range(r.batch) : c \notin Range(left'.calls) /\ c \in OpenNow /\ c \in Calls,
         NEW events \in Seq(Truths(effect, open, left'.calls)), run' = Script(r, events, then, "catch"),
         then = "response" => /\ events # <<>> /\ events[1].type = "model/response-received"
                              /\ \A i \in DOMAIN events : events[i].type \in Replies
  PROVE  IInv'
<1>1. \A c \in Range(r.batch) : effect[c] = "no" /\ c \notin Range(left'.calls) /\ c \in OpenNow
  BY DEF IInv, Accounted, OpenNow
<1>2. Remembering(mem')
  BY DEF IInv, TypeOK, Remembering
<1>3. "catch" \in Failures /\ then \in Nexts
  BY Onward
<1>4. open = Range(left'.calls) \cup (IF then \in Ahead THEN Range(r.batch) ELSE {})
  OBVIOUS
<1>5. r \in Runs /\ r.todo = <<>> /\ RunHonest(r, effect, OpenNow) /\ Rests(r, effect, left.calls)
  BY DEF Fit
<1>6. QED  BY <1>1, <1>2, <1>3, <1>4, <1>5, Moves DEF Remembering

\* The answer of the model, its calls taken from those it has yet to ask for.
LEMMA Responds ==
  ASSUME IInv, run.at = "model", NEW m \in Messages \cup {None}, Respond(m),
         UNCHANGED <<disk, kernel, mem, effect>>,
         left' \in Lefts, IsInjective(left'.calls), Range(left'.calls) \subseteq Range(left.calls),
         NEW b \in Seq(Calls), m = None \/ m = Asks(b), Range(b) \subseteq Range(left.calls),
         \A c \in Range(b) : c \notin Range(left'.calls)
  PROVE  IInv'
<1>0. Fit(run) /\ run \in Runs /\ kernel.hist \in Histories /\ kernel.adapter \in Histories
  BY Settled, Standing DEF Fit
<1> DEFINE asked == IF m = None THEN <<>> ELSE m.calls
           answered == (m = Answer)
           r == [run EXCEPT !.batch = asked, !.answered = answered]
           said == IF m = None THEN <<>> ELSE <<m>>
           open == Range(left'.calls) \cup Range(r.batch)
<1>1. PICK state \in {kernel.adapter, kernel.hist \o said} :
        run' = Script(r, <<Response(m)>> \o (IF state = kernel.adapter THEN <<>> ELSE <<Adapter(state)>>),
                      "response", "catch")
  BY DEF Respond
<1>2. asked \in Seq(Calls) /\ Range(asked) \subseteq Range(b)
  BY DEF Asks, Range
<1>3. answered \in BOOLEAN
  OBVIOUS
<1>4. said \in Seq(Messages)
  OBVIOUS
<1> HIDE DEF asked, answered, said
<1>5. r \in Runs /\ r.batch = asked /\ r.todo = run.todo /\ r.before = run.before
      /\ r.checkpoint = run.checkpoint /\ r.call = run.call /\ r.told = run.told
  BY <1>0, <1>2, <1>3 DEF Runs
<1>6. state \in Histories
  BY ZenonT(30), <1>0, <1>4, ConcatProperties DEF Histories
<1> DEFINE T == Truths(effect, open, left'.calls)
           update == IF state = kernel.adapter THEN <<>> ELSE <<Adapter(state)>>
<1> HIDE DEF r
<1>7. Fit(r)
  BY <1>0, <1>5, StillFit
<1>8. Response(m) \in T /\ Adapter(state) \in T
  BY <1>6, SilentOnes, SilentIsTrue
<1> HIDE DEF T
<1>9. <<Response(m)>> \in Seq(T) /\ update \in Seq(T)
  BY <1>8
<1>10. <<Response(m)>> \o update \in Seq(T)
  BY <1>9, ConcatProperties
<1>11. run.at # "down" /\ "response" \in Ahead
  BY DEF Ahead
<1>12. \A c \in Range(r.batch) : c \notin Range(left'.calls) /\ c \in OpenNow /\ c \in Calls
  <2>1. Range(r.batch) \subseteq Range(b) /\ Range(b) \subseteq Calls
    BY SMTT(20), <1>2, <1>5 DEF Range
  <2>2. QED  BY <2>1, OpenCalls
<1>13. run' = Script(r, <<Response(m)>> \o update, "response", "catch")
  BY <1>1
<1> DEFINE events == <<Response(m)>> \o update
<1>a. /\ events # <<>> /\ events[1].type = "model/response-received"
      /\ \A i \in DOMAIN events : events[i].type \in Replies
  <2>1. Response(m).type = "model/response-received" /\ Adapter(state).type = "adapter/state"
    BY DEF Response, Adapter
  <2>2. CASE update = <<>>
    BY <2>1, <2>2 DEF Replies
  <2>3. CASE update = <<Adapter(state)>>
    BY <2>1, <2>3 DEF Replies
  <2>4. QED  BY <2>2, <2>3
<1> HIDE DEF update, open
<1>b. run' = Script(r, events, "response", "catch")
  BY <1>13
<1>14. open = Range(left'.calls) \cup Range(r.batch)
  BY DEF open
<1>15. events \in Seq(Truths(effect, open, left'.calls))
  BY <1>10 DEF T
<1> HIDE DEF events
<1>16. QED  BY <1>a, <1>7, <1>11, <1>12, <1>b, <1>14, <1>15, GoesAhead

\* The model answers, or fails.
LEMMA ModelAnswersKeeps ==
  ASSUME IInv, ModelAnswers
  PROVE  IInv'
<1>1. /\ run.at = "model" /\ UNCHANGED <<disk, kernel, mem, known, effect>>
      /\ left \in Lefts /\ IsInjective(left.calls) /\ left.calls \in Seq(Calls)
  BY DEF ModelAnswers, IInv, TypeOK, Lefts
<1>2. CASE Goto("catch") /\ UNCHANGED left
  BY <1>1, <1>2, Onward, Jumps DEF Others
<1>3. ASSUME NEW m \in {Answer, None}, Respond(m), UNCHANGED left PROVE IInv'
  <2>1. m \in Messages \cup {None} /\ (m = None \/ m = Asks(<<>>)) /\ Range(<<>>) = {} /\ <<>> \in Seq(Calls)
    BY MessageEvents DEF Answer, Range
  <2>2. left' \in Lefts /\ IsInjective(left'.calls) /\ Range(left'.calls) \subseteq Range(left.calls)
    BY <1>1, <1>3
  <2>3. QED  BY <1>1, <1>3, <2>1, <2>2, Responds
<1>4. ASSUME NEW n \in 1..Len(left.calls), Respond(Asks(SubSeq(left.calls, 1, n))),
             left' = [left EXCEPT !.calls =
                        SubSeq(@, Len(SubSeq(left.calls, 1, n)) + 1, Len(@))]
      PROVE  IInv'
  <2> DEFINE b == SubSeq(left.calls, 1, n)
             rest == SubSeq(left.calls, Len(b) + 1, Len(left.calls))
  <2>1. /\ b \in Seq(Calls) /\ rest \in Seq(Calls)
        /\ Range(b) \subseteq Range(left.calls) /\ Range(rest) \subseteq Range(left.calls)
        /\ IsInjective(rest) /\ \A c \in Range(b) : c \notin Range(rest)
    BY <1>1, Taking
  <2>2. left' = [left EXCEPT !.calls = rest] /\ Respond(Asks(b))
    BY <1>4
  <2> HIDE DEF b, rest
  <2>3. left' \in Lefts /\ left'.calls = rest
    BY <1>1, <2>1, <2>2 DEF Lefts
  <2>4. Asks(b) \in Messages \cup {None}
    BY <2>1, MessageEvents
  <2>5. QED  BY <1>1, <2>1, <2>2, <2>3, <2>4, Responds
<1>5. QED  BY <1>1, <1>2, <1>3, <1>4 DEF ModelAnswers, Batches

\* The answer is read, and its message appended.
LEMMA ReadResponseKeeps ==
  ASSUME IInv, ReadResponse
  PROVE  IInv'
<1>1. run.at = "response" /\ Others /\ Fit(run) /\ run \in Runs
  BY Settled DEF ReadResponse, Fit
<1>2. CASE Goto("catch") \/ Goto("close")
  BY <1>1, <1>2, Onward, Jumps
<1>3. CASE Do(<<Message(Asks(run.batch))>>, "dispatch", "catch")
  <2> DEFINE e == Message(Asks(run.batch))
             open == Range(left'.calls) \cup Range(run.batch)
  <2>1. run.batch \in Seq(Calls) /\ Range(run.batch) \subseteq Calls
    BY <1>1, RunFields DEF Range
  <2>2. \A c \in Range(run.batch) :
          effect[c] = "no" /\ c \notin Range(left.calls) /\ c \in OpenNow /\ c \in Calls
    BY <1>1, <2>1 DEF IInv, Accounted, OpenNow, OpenIn, Pre, Ahead
  <2>3. left' = left /\ left \in Lefts /\ IsInjective(left.calls)
    BY <1>1 DEF Others, IInv, TypeOK
  <2>4. e \in Truths(effect, open, left'.calls)
    <3>1. e \in Events
      BY <2>1, MessageEvents
    <3>2. e.type = "message/appended" /\ e.message.role = "assistant" /\ e.message.calls = run.batch
      BY DEF Message, Asks
    <3> HIDE DEF e
    <3>3. EventTrue(e, effect, open, left'.calls, {})
      BY <2>2, <2>3, <3>2 DEF EventTrue
    <3>4. QED  BY <3>1, <3>3 DEF Truths
  <2> HIDE DEF e, open
  <2>5. <<e>> \in Seq(Truths(effect, open, left'.calls))
    BY <2>4
  <2>6. run' = Script(run, <<e>>, "dispatch", "catch")
    BY <1>3 DEF Do, e
  <2>7. /\ run.at # "down" /\ "dispatch" \in Ahead
        /\ UNCHANGED <<disk, kernel, mem, effect>>
    BY <1>1 DEF Ahead, Others
  <2>8. open = Range(left'.calls) \cup Range(run.batch)
    BY DEF open
  <2>9. QED  BY <1>1, <2>2, <2>3, <2>5, <2>6, <2>7, <2>8, GoesAhead
<1>4. CASE Do(<<Message(Answer)>>, "spoken", "catch")
  <2>1. Silent(Message(Answer)) /\ "spoken" \in Nexts \ Ahead /\ "catch" \in Failures
    BY SilentOnes, Onward
  <2>2. run.at \notin {"down", "script", "batch"}
    BY <1>1
  <2>3. QED  BY <1>1, <1>4, <2>1, <2>2, SaysNothing DEF Do
<1>5. CASE Do(<<Adapter(kernel.step.adapterBefore), StepCompleted("completed")>>, "after", "catch")
  <2> DEFINE a == Adapter(kernel.step.adapterBefore)
             d == StepCompleted("completed")
  <2>1. kernel.step.adapterBefore \in Histories
    BY <1>1 DEF IInv, InStep, Steps
  <2>2. Silent(a) /\ Silent(d)
    BY <2>1, SilentOnes DEF Outcomes
  <2> HIDE DEF a, d
  <2>3. <<a, d>> \in Seq(Quiet)
    BY <2>2, QuietOnes
  <2>4. UNCHANGED <<disk, kernel, effect, left>> /\ Remembers
    BY <1>1, Standing DEF Others
  <2>5. run' = Script(run, <<a, d>>, "after", "catch") /\ "after" \in Nexts \ Ahead /\ "catch" \in Failures
    BY <1>5, Onward DEF Do, a, d
  <2>6. run.at # "down"
    BY <1>1
  <2>7. QED  BY <1>1, <2>3, <2>4, <2>5, <2>6, Goes
<1>6. QED  BY <1>2, <1>3, <1>4, <1>5 DEF ReadResponse, Aborted, Closed

\* What was said is a batch of calls, or ends the turn.
LEMMA SpokenKeeps ==
  ASSUME IInv, Spoken
  PROVE  IInv'
<1>1. run.at = "spoken" /\ Others /\ Fit(run)
  BY Settled DEF Spoken
<1>2. CASE Goto("catch") \/ Goto("close")
  BY <1>1, <1>2, Onward, Jumps
<1>3. CASE Do(<<StepCompleted("completed")>>, "after", "catch")
  <2>1. Silent(StepCompleted("completed")) /\ "after" \in Nexts \ Ahead /\ "catch" \in Failures
    BY SilentOnes, Onward DEF Outcomes
  <2>2. run.at \notin {"down", "script", "batch"}
    BY <1>1
  <2>3. QED  BY <1>1, <1>3, <2>1, <2>2, SaysNothing DEF Do
<1>4. QED  BY <1>2, <1>3 DEF Spoken, Aborted, Closed

\* The batch is over: the results on record become messages, in call order.
LEMMA BatchSettledKeeps ==
  ASSUME IInv, BatchSettled
  PROVE  IInv'
<1>1. /\ run.at = "batch" /\ run \in Runs /\ run.todo = <<>> /\ kernel \in Journals
      /\ UNCHANGED <<disk, kernel, effect, left>>
      /\ \A c \in Range(run.batch) : Ended(run.call[c])
  BY DEF BatchSettled, Others, IInv, TypeOK
<1>2. Remembers
  BY <1>1, Standing DEF BatchSettled, Others
<1>3. Rests(run, effect, left.calls)
  <2>1. \A c \in Calls : run.call[c] \in Resting
    BY <1>1 DEF IInv, Accounted, Ended, Resting
  <2>2. QED  BY <2>1 DEF IInv, Accounted, Rests
<1>4. Fit(run)
  BY <1>1, <1>3 DEF Fit, IInv
<1>5. CASE Goto("catch")
  <2>1. "catch" \in Nexts \ Ahead /\ run.at # "down" /\ run' = [run EXCEPT !.at = "catch"]
    BY <1>1, <1>5, Onward DEF Goto
  <2>2. QED  BY <1>1, <1>2, <1>4, <2>1, GoesTo
<1>6. CASE /\ \A c \in Range(run.batch) : run.call[c] # "thrown"
           /\ Do([i \in DOMAIN run.batch |->
                    Message(Receipt(run.batch[i], Says(kernel, run.batch[i])))], "answer", "catch")
  <2> DEFINE events == [i \in DOMAIN run.batch |->
                          Message(Receipt(run.batch[i], Says(kernel, run.batch[i])))]
  <2>1. run.batch \in Seq(Calls) /\ DOMAIN run.batch = 1..Len(run.batch) /\ Len(run.batch) \in Nat
    BY <1>1, RunFields
  <2>2. ASSUME NEW i \in 1..Len(run.batch)
        PROVE  Message(Receipt(run.batch[i], Says(kernel, run.batch[i]))) \in Quiet
    <3>1. run.batch[i] \in Calls /\ run.batch[i] \in Range(run.batch)
      BY <2>1 DEF Range
    <3>2. run.call[run.batch[i]] = "recorded"
      BY <1>1, <1>6, <3>1 DEF Ended
    <3>3. IsOpen(kernel, run.batch[i])
      BY <1>1, <3>1, <3>2 DEF IInv, Recorded
    <3>4. kernel.tools \in Seq(Tools)
      BY <1>1, JournalFields
    <3>5. Says(kernel, run.batch[i]) \in Words
      <4>1. kernel.tools[Place(kernel, run.batch[i])] \in Tools
        BY <3>3, <3>4, Placed
      <4>2. QED  BY <3>3, <4>1, Placed DEF Tools
    <3>6. QED  BY <3>1, <3>5, SilentOnes, QuietOnes
  <2>3. events \in Seq(Quiet)
    <3> DEFINE Q == Quiet
    <3>1. \A i \in 1..Len(run.batch) : events[i] \in Q
      BY <2>1, <2>2
    <3>2. DOMAIN events = 1..Len(run.batch)
      BY <2>1
    <3> HIDE DEF Q
    <3>3. events = [i \in 1..Len(run.batch) |-> events[i]]
      BY <2>1
    <3> HIDE DEF events
    <3>4. events \in Seq(Q)
      BY <2>1, <3>1, <3>3, Listed
    <3>5. QED  BY <3>4 DEF Q
  <2> HIDE DEF events
  <2>4. run' = Script(run, events, "answer", "catch") /\ "answer" \in Nexts \ Ahead /\ "catch" \in Failures
    BY <1>6, Onward DEF Do, events
  <2>5. run.at # "down"
    BY <1>1
  <2>6. QED  BY <1>1, <1>2, <1>4, <2>3, <2>4, <2>5, Goes
<1>7. QED  BY <1>5, <1>6 DEF BatchSettled

\* The rounds that are complete are what a later failure goes back to.
LEMMA CheckpointKeeps ==
  ASSUME IInv, Checkpoint
  PROVE  IInv'
<1> DEFINE r == [run EXCEPT !.recovering = FALSE,
                            !.checkpoint = [hist |-> kernel.hist, adapter |-> kernel.adapter]]
<1>1. run.at = "answer" /\ Others /\ Fit(run) /\ run \in Runs
  BY Settled DEF Checkpoint, Fit
<1>2. kernel.hist \in Histories /\ kernel.adapter \in Histories /\ HonestIn(kernel.hist, effect, OpenNow)
  BY <1>1, Standing
<1>3. UNCHANGED <<disk, kernel, effect, left>> /\ Remembers
  BY <1>1, Standing DEF Others
<1>4. r \in Runs
  BY <1>1, <1>2 DEF Runs
<1>5. /\ r.todo = run.todo /\ r.before = run.before /\ r.checkpoint.hist = kernel.hist
      /\ r.call = run.call /\ r.told = run.told
  BY <1>1 DEF Runs
<1>6. run' = [r EXCEPT !.at = "answered"]
  BY <1>1 DEF Checkpoint, Runs
<1> HIDE DEF r
<1>7. Fit(r)
  BY <1>1, <1>2, <1>4, <1>5 DEF Fit, RunHonest, Rests
<1>8. "answered" \in Nexts \ Ahead /\ run.at # "down"
  BY <1>1, Onward
<1>9. QED  BY <1>3, <1>6, <1>7, <1>8, GoesTo

\* The round is over.
LEMMA RoundDoneKeeps ==
  ASSUME IInv, RoundDone
  PROVE  IInv'
<1>1. run.at = "answered" /\ Others /\ Fit(run)
  BY Settled DEF RoundDone
<1>2. CASE Goto("catch") \/ Goto("close")
  BY <1>1, <1>2, Onward, Jumps
<1>3. CASE Do(<<StepCompleted("completed")>>, "round", "catch")
  <2>1. Silent(StepCompleted("completed")) /\ "round" \in Nexts \ Ahead /\ "catch" \in Failures
    BY SilentOnes, Onward DEF Outcomes
  <2>2. run.at \notin {"down", "script", "batch"}
    BY <1>1
  <2>3. QED  BY <1>1, <1>3, <2>1, <2>2, SaysNothing DEF Do
<1>4. QED  BY <1>2, <1>3 DEF RoundDone, Aborted, Closed

\* The step that answered is over.
LEMMA ConcludeKeeps ==
  ASSUME IInv, Conclude
  PROVE  IInv'
<1>1. run.at = "after" /\ Others /\ Fit(run) /\ run \in Runs
  BY Settled DEF Conclude, Fit
<1>2. CASE Goto("catch") \/ Goto("close") \/ Goto("complete")
  BY <1>1, <1>2, Onward, Jumps
<1>3. CASE Do(<<Replaced(run.before, "turn_without_assistant_rolled_back"),
                Adapter(run.adapterBefore)>>, "complete", "catch")
  <2> DEFINE e == Replaced(run.before, "turn_without_assistant_rolled_back")
             a == Adapter(run.adapterBefore)
  <2>1. e \in Quiet /\ a \in Quiet
    <3>1. run.before \in Histories /\ run.adapterBefore \in Histories
      BY <1>1, RunFields
    <3>2. "turn_without_assistant_rolled_back" \in Reasons
      BY DEF Reasons
    <3>3. HonestIn(run.before, effect, OpenNow)
      BY DEF IInv, RunHonest
    <3>4. QED  BY <3>1, <3>2, <3>3, QuietReplacement, SilentOnes, QuietOnes
  <2> HIDE DEF e, a
  <2>2. <<e, a>> \in Seq(Quiet)
    BY <2>1
  <2>3. UNCHANGED <<disk, kernel, effect, left>> /\ Remembers
    BY <1>1, Standing DEF Others
  <2>4. run' = Script(run, <<e, a>>, "complete", "catch") /\ "complete" \in Nexts \ Ahead /\ "catch" \in Failures
    BY <1>3, Onward DEF Do, e, a
  <2>5. run.at # "down"
    BY <1>1
  <2>6. QED  BY <1>1, <2>2, <2>3, <2>4, <2>5, Goes
<1>4. QED  BY <1>2, <1>3 DEF Conclude, Aborted, Closed

\* The turn is over.
LEMMA CompleteKeeps ==
  ASSUME IInv, Complete
  PROVE  IInv'
<1>1. run.at = "complete" /\ Others /\ Fit(run)
  BY Settled DEF Complete
<1>2. CASE Goto("catch")
  BY <1>1, <1>2, Onward, Jumps
<1>3. CASE Do(<<TurnEnded("completed")>>, "committed", "catch")
  <2>1. Silent(TurnEnded("completed")) /\ "committed" \in Nexts \ Ahead /\ "catch" \in Failures
    BY SilentOnes, Onward DEF Outcomes
  <2>2. run.at \notin {"down", "script", "batch"}
    BY <1>1
  <2>3. QED  BY <1>1, <1>3, <2>1, <2>2, SaysNothing DEF Do
<1>4. QED  BY <1>2, <1>3 DEF Complete, Aborted

\* The history is projected, or the projection is left as it is.
LEMMA Projected ==
  ASSUME IInv, run.at # "down",
         (TryProject \/ Project(kernel.thread, kernel.hist)) \/ UNCHANGED mem
  PROVE  Remembers
<1>1. /\ kernel.hist \in Histories /\ HonestIn(kernel.hist, effect, OpenNow) /\ kernel.thread \in Threads
      /\ UNCHANGED mem => Remembers
  BY Standing
<1>2. Remembering(mem)
  BY DEF IInv, TypeOK, Remembering
<1>3. ASSUME Project(kernel.thread, kernel.hist) PROVE Remembers
  <2>1. mem' = [mem EXCEPT ![kernel.thread] = Projection(@, known[kernel.thread], kernel.hist)]
    BY <1>3 DEF Project
  <2>2. QED  BY <1>1, <1>2, <2>1, Projecting DEF Remembers
<1>4. QED  BY <1>1, <1>3 DEF TryProject

\* A place from which the history is projected and the turn goes on.
LEMMA MarkedKeeps ==
  ASSUME IInv, run.at \notin {"down", "script", "batch"}, UNCHANGED <<disk, kernel, effect, left>>,
         Remembers, NEW at \in Nexts \ Ahead, NEW b \in BOOLEAN,
         run' = [run EXCEPT !.at = at, !.recovering = b, !.terminal = TRUE]
  PROVE  IInv'
<1> DEFINE r == [run EXCEPT !.recovering = b, !.terminal = TRUE]
<1>1. Fit(run) /\ run \in Runs
  BY Settled DEF Fit
<1>2. r \in Runs /\ r.todo = run.todo /\ r.before = run.before /\ r.checkpoint = run.checkpoint
      /\ r.call = run.call /\ r.told = run.told
  BY <1>1 DEF Runs
<1>3. run' = [r EXCEPT !.at = at]
  BY <1>1 DEF Runs
<1> HIDE DEF r
<1>4. Fit(r)
  BY <1>1, <1>2, StillFit
<1>5. QED  BY <1>3, <1>4, GoesTo

\* The committed history is projected.
LEMMA CommittedKeeps ==
  ASSUME IInv, Committed
  PROVE  IInv'
<1>1. run.at = "committed" /\ UNCHANGED <<disk, kernel, effect, left>> /\ Remembers
  BY Projected DEF Committed
<1>2. run \in Runs
  BY DEF IInv, TypeOK
<1>3. run' = [run EXCEPT !.at = "done", !.recovering = run.recovering, !.terminal = TRUE]
  BY <1>2 DEF Committed, Runs
<1>4. run.recovering \in BOOLEAN /\ "done" \in Nexts \ Ahead
  BY <1>2, RunFields, Onward
<1>5. QED  BY <1>1, <1>3, <1>4, MarkedKeeps

\* The batch that was broken off is mended.
LEMMA MendedKeeps ==
  ASSUME IInv, Mended
  PROVE  IInv'
<1>1. run.at = "mended" /\ UNCHANGED <<disk, kernel, effect, left>> /\ Remembers
  BY Projected DEF Mended
<1>2. run' = [run EXCEPT !.at = "told", !.recovering = FALSE, !.terminal = TRUE]
  BY DEF Mended
<1>3. "told" \in Nexts \ Ahead
  BY Onward
<1>4. QED  BY <1>1, <1>2, <1>3, MarkedKeeps

\* The terminated turn is projected.
LEMMA TerminatedKeeps ==
  ASSUME IInv, Terminated
  PROVE  IInv'
<1>1. run.at = "terminated" /\ UNCHANGED <<disk, kernel, effect, left>> /\ Remembers
  BY Projected DEF Terminated
<1>2. run \in Runs
  BY DEF IInv, TypeOK
<1>3. run' = [run EXCEPT !.at = "told", !.recovering = run.recovering, !.terminal = TRUE]
  BY <1>2 DEF Terminated, Runs
<1>4. run.recovering \in BOOLEAN /\ "told" \in Nexts \ Ahead
  BY <1>2, RunFields, Onward
<1>5. QED  BY <1>1, <1>3, <1>4, MarkedKeeps

\* terminateTurn puts back a history that is true.
LEMMA TerminatesTruly ==
  ASSUME IInv, NEW outcome \in Outcomes
  PROVE  Terminate(outcome) \in Seq(Quiet)
<1>0. run \in Runs
  BY DEF IInv, TypeOK
<1> DEFINE hist == IF run.checkpoint = None THEN run.before ELSE run.checkpoint.hist
           adapter == IF run.checkpoint = None THEN run.adapterBefore ELSE run.checkpoint.adapter
           reason == IF run.checkpoint = None THEN "turn_failed" ELSE "turn_failed_partial_effects"
           s == IF kernel.step = None THEN <<>> ELSE <<StepCompleted(outcome)>>
           e == Replaced(hist, reason)
           a == Adapter(adapter)
           t == TurnEnded(outcome)
<1>1. hist \in Histories /\ adapter \in Histories /\ reason \in Reasons
  BY <1>0, RunFields DEF Reasons
<1>2. HonestIn(hist, effect, OpenNow)
  BY DEF IInv, RunHonest
<1>3. Terminate(outcome) = s \o <<e, a, t>>
  <2>1. CASE run.checkpoint = None
    BY <2>1 DEF Terminate
  <2>2. CASE run.checkpoint # None
    BY <2>2 DEF Terminate
  <2>3. QED  BY <2>1, <2>2
<1> HIDE DEF hist, adapter, reason
<1>4. e \in Quiet
  BY <1>1, <1>2, QuietReplacement
<1>5. a \in Quiet /\ t \in Quiet /\ s \in Seq(Quiet)
  <2>1. Silent(a) /\ Silent(t) /\ Silent(StepCompleted(outcome))
    BY <1>1, SilentOnes
  <2>2. a \in Quiet /\ t \in Quiet /\ StepCompleted(outcome) \in Quiet
    <3> HIDE DEF a, t
    <3> QED  BY <2>1, QuietOnes
  <2>3. s \in Seq(Quiet)
    BY <2>2
  <2>4. QED  BY <2>2, <2>3
<1> HIDE DEF s, e, a, t
<1>6. <<e, a, t>> \in Seq(Quiet)
  BY <1>4, <1>5
<1>7. s \o <<e, a, t>> \in Seq(Quiet)
  BY <1>5, <1>6, ConcatProperties
<1>8. QED  BY <1>3, <1>7

\* terminateTurn appends events that are true.
LEMMA TerminatesKeeps ==
  ASSUME IInv, run.at \notin {"down", "script", "batch"}, Others,
         NEW outcome \in Outcomes, NEW onFail \in Failures,
         Do(Terminate(outcome), "terminated", onFail)
  PROVE  IInv'
<1>1. UNCHANGED <<disk, kernel, effect, left>> /\ Remembers /\ Fit(run)
  BY Standing, Settled DEF Others
<1> DEFINE events == Terminate(outcome)
<1>2. events \in Seq(Quiet)
  BY TerminatesTruly
<1>3. run' = Script(run, events, "terminated", onFail) /\ "terminated" \in Nexts \ Ahead
  BY Onward DEF Do
<1> HIDE DEF events
<1>4. QED  BY <1>1, <1>2, <1>3, Goes

\* A failure tells the caller of every call what is known of it, and terminates the turn.
LEMMA CatchKeeps ==
  ASSUME IInv, Catch
  PROVE  IInv'
<1>1. run.at = "catch" /\ Others /\ Fit(run) /\ run \in Runs
  BY Settled DEF Catch, Fit
<1> DEFINE told == [c \in Calls |->
                      IF run.told[c] = "none" \/ run.call[c] = "recorded" THEN run.told[c] ELSE "unknown"]
           r == [run EXCEPT !.told = told]
<1>2. CASE run' = Script(r, RecoveryPlan(kernel), "mended", "told")
  <2>1. told \in [Calls -> Words \cup {"none"}]
    <3>1. \A c \in Calls : run.told[c] \in Words \cup {"none"}
      BY <1>1, RunFields
    <3>2. QED  BY <3>1 DEF Words
  <2>2. \A c \in Calls : told[c] = run.told[c] \/ (told[c] = "unknown" /\ run.told[c] # "none")
    OBVIOUS
  <2> HIDE DEF told
  <2>3. r \in Runs /\ r.todo = run.todo /\ r.before = run.before /\ r.checkpoint = run.checkpoint
        /\ r.call = run.call /\ r.told = told
    BY <1>1, <2>1 DEF Runs
  <2> HIDE DEF r
  <2>4. Rests(r, effect, left.calls)
    BY <1>1, <2>2, <2>3 DEF Fit, Rests
  <2>5. Fit(r)
    BY <1>1, <2>3, <2>4 DEF Fit, RunHonest
  <2> DEFINE plan == RecoveryPlan(kernel)
             calls == Range(left.calls)
  <2>6. plan \in Seq(Quiet)
    <3>1. kernel \in Journals /\ JournalHonest(kernel, effect, OpenNow)
      BY <1>1 DEF IInv, TypeOK
    <3>2. JournalHonest(kernel, effect, calls)
      BY <3>1, Narrower DEF JournalHonest
    <3>3. RecoveryPlan(kernel) \in Seq(Truths(effect, calls, left.calls))
      BY <3>1, <3>2, RecoveryIsTrue
    <3>4. QED  BY <3>3 DEF Quiet
  <2>7. run' = Script(r, plan, "mended", "told") /\ "mended" \in Nexts \ Ahead /\ "told" \in Failures
    BY <1>2, Onward
  <2>8. UNCHANGED <<disk, kernel, effect, left>> /\ Remembers /\ run.at # "down"
    BY <1>1, Standing DEF Others
  <2> HIDE DEF plan
  <2>9. QED  BY <2>5, <2>6, <2>7, <2>8, Goes
<1>3. CASE Do(Terminate("failed"), "terminated", "finally")
  <2>1. run.at \notin {"down", "script", "batch"} /\ "failed" \in Outcomes /\ "finally" \in Failures
    BY <1>1, Onward DEF Outcomes
  <2>2. QED  BY <1>1, <1>3, <2>1, TerminatesKeeps
<1>4. CASE Goto("told")
  BY <1>1, <1>4, Onward, Jumps
<1>5. QED  BY <1>2, <1>3, <1>4 DEF Catch

\* A stream that its consumer closes leaves its turn terminated.
LEMMA FinallyKeeps ==
  ASSUME IInv, Finally \/ Close
  PROVE  IInv'
<1>1. "failed" \in Outcomes /\ "interrupted" \in Outcomes /\ "told" \in Failures /\ "ended" \in Failures
  BY Onward DEF Outcomes
<1>2. CASE Finally
  <2>1. run.at \notin {"down", "script", "batch"} /\ Others /\ Do(Terminate("failed"), "terminated", "told")
    BY <1>2 DEF Finally
  <2>2. QED  BY <1>1, <2>1, TerminatesKeeps
<1>3. CASE Close
  <2>1. run.at \notin {"down", "script", "batch"} /\ Others /\ Do(Terminate("interrupted"), "terminated", "ended")
    BY <1>3 DEF Close
  <2>2. QED  BY <1>1, <2>1, TerminatesKeeps
<1>4. QED  BY <1>2, <1>3

\* A process at rest.
LEMMA IdleIsFit == Fit(Idle)
<1>1. First \in Threads
  BY ChatAssumption
<1>2. QED  BY <1>1, Blank, NothingToTell DEF Fit, RunHonest, Rests, Resting

\* An operation is over.
LEMMA ReturnKeeps ==
  ASSUME IInv, Return
  PROVE  IInv'
<1>1. run.at \notin {"down", "script", "batch"} /\ Others /\ run' = Idle
  BY DEF Return
<1>2. UNCHANGED <<disk, kernel, effect, left>> /\ Remembers /\ run.at # "down"
  BY <1>1, Standing DEF Others
<1>3. run' = [Idle EXCEPT !.at = "idle"]
  <2>1. Idle \in Runs /\ Idle.at = "idle"
    BY ChatAssumption, Blank
  <2>2. Idle = [Idle EXCEPT !.at = "idle"]
    BY <2>1 DEF Runs
  <2>3. QED  BY <1>1, <2>2
<1>4. "idle" \in Nexts \ Ahead
  BY Onward
<1>5. QED  BY <1>2, <1>3, <1>4, IdleIsFit, GoesTo

\* The thread that is left is projected before another is taken.
LEMMA KeepThreadKeeps ==
  ASSUME IInv, KeepThread
  PROVE  IInv'
<1>1. run.at = "keep" /\ UNCHANGED <<disk, kernel, effect, left>> /\ Fit(run)
  BY Settled DEF KeepThread
<1>2. Remembers
  BY <1>1, Projected DEF KeepThread
<1>3. CASE Goto("ended")
  <2>1. run.at # "down" /\ "ended" \in Nexts \ Ahead /\ run' = [run EXCEPT !.at = "ended"]
    BY <1>1, <1>3, Onward DEF Goto
  <2>2. QED  BY <1>1, <1>2, <2>1, GoesTo
<1>4. CASE Goto("clear")
  <2> DEFINE open == Range(left'.calls)
  <2>1. run' = Script(run, <<>>, "clear", "idle")
    BY <1>4 DEF Goto, Script
  <2>2. /\ run.to \in Threads /\ left' = left /\ left \in Lefts /\ IsInjective(left.calls)
        /\ run \in Runs /\ run.todo = <<>> /\ RunHonest(run, effect, OpenNow)
        /\ Rests(run, effect, left.calls)
    BY <1>1 DEF IInv, TypeOK, Addressed, Fit
  <2>3. <<>> \in Seq(Truths(effect, open, left'.calls)) /\ "idle" \in Failures /\ run.at # "down"
    BY <1>1, Onward
  <2>4. "clear" \in Addressed /\ "clear" \notin Ahead
    BY DEF Addressed, Ahead
  <2>5. open = Range(left'.calls) \cup (IF "clear" \in Ahead THEN Range(run.batch) ELSE {})
    BY <2>4
  <2> HIDE DEF open
  <2>6. QED  BY <1>1, <1>2, <2>1, <2>2, <2>3, <2>4, <2>5, Moves DEF Remembers, Remembering
<1>5. QED  BY <1>3, <1>4 DEF KeepThread

\* A thread that is reset.
LEMMA EndsWithReset ==
  ASSUME IInv, run.at \notin {"down", "script", "batch"}, UNCHANGED <<disk, kernel, effect, left>>,
         Remembers, NEW t \in Threads, Do(<<Reset(t)>>, "ended", "ended")
  PROVE  IInv'
<1>1. Fit(run)
  BY Settled
<1>2. <<Reset(t)>> \in Seq(Quiet)
  <2>1. Silent(Reset(t))
    BY SilentOnes
  <2>2. QED  BY <2>1, QuietOnes
<1>3. run' = Script(run, <<Reset(t)>>, "ended", "ended")
  BY DEF Do
<1>4. "ended" \in Nexts \ Ahead /\ "ended" \in Failures
  BY Onward
<1>5. QED  BY <1>1, <1>2, <1>3, <1>4, Goes

\* The thread is cleared, in the store and in the journal.
LEMMA ClearThreadKeeps ==
  ASSUME IInv, ClearThread
  PROVE  IInv'
<1>1. /\ run.at = "clear" /\ UNCHANGED <<disk, kernel, effect, left>> /\ run.to \in Threads
      /\ run.at \notin {"down", "script", "batch"}
  BY DEF ClearThread, IInv, TypeOK, Addressed
<1>2. Remembering(mem)
  BY DEF IInv, TypeOK, Remembering
<1>3. CASE Project(run.to, <<>>) /\ Do(<<Reset(run.to)>>, "ended", "ended")
  <2>1. mem' = [mem EXCEPT ![run.to] = Projection(@, known[run.to], <<>>)]
    BY <1>3 DEF Project
  <2>2. <<>> \in Histories /\ HonestIn(<<>>, effect, OpenNow)
    BY NothingToTell DEF Histories
  <2>3. Remembers
    BY <1>1, <1>2, <2>1, <2>2, Projecting DEF Remembers
  <2>4. QED  BY <1>1, <1>3, <2>3, EndsWithReset
<1>4. CASE Goto("ended") /\ UNCHANGED <<mem, known>>
  BY <1>1, <1>4, Onward, Jumps DEF Others
<1>5. QED  BY <1>3, <1>4 DEF ClearThread

\* The thread is deleted.
LEMMA DeleteThreadKeeps ==
  ASSUME IInv, DeleteThread
  PROVE  IInv'
<1>1. /\ run.at = "delete" /\ UNCHANGED <<disk, kernel, effect, left>> /\ run.to \in Threads
      /\ run.at \notin {"down", "script", "batch"} /\ left.threads \subseteq Threads
  BY DEF DeleteThread, IInv, TypeOK, Addressed, Lefts
<1>2. Remembers
  <2>1. Remembering(mem) /\ mem' = [mem EXCEPT ![run.to] = None]
    BY DEF IInv, TypeOK, Remembering, DeleteThread
  <2>2. HonestIn(MessagesOf(None), effect, OpenNow)
    BY NothingToTell DEF MessagesOf
  <2>3. QED  BY <1>1, <2>1, <2>2, Putting DEF Remembers
<1>3. CASE Goto("ended")
  <2>1. "ended" \in Nexts \ Ahead /\ run' = [run EXCEPT !.at = "ended"] /\ Fit(run)
    BY <1>1, <1>3, Onward, Settled DEF Goto
  <2>2. QED  BY <1>1, <1>2, <2>1, GoesTo
<1>4. ASSUME NEW t \in left.threads, Do(<<Reset(t)>>, "ended", "ended") PROVE IInv'
  BY <1>1, <1>2, <1>4, EndsWithReset
<1>5. QED  BY <1>3, <1>4 DEF DeleteThread

\* A message of another agent is ingested.
LEMMA IngestMessageKeeps ==
  ASSUME IInv, IngestMessage
  PROVE  IInv'
<1>1. run.at = "ingest" /\ Others /\ Fit(run)
  BY Settled DEF IngestMessage
<1>2. CASE Goto("ended")
  BY <1>1, <1>2, Onward, Jumps
<1>3. CASE Do(<<External(User(ExternalText))>>, "ended", "ended")
  <2>1. Silent(External(User(ExternalText)))
    <3>1. ExternalText \in Int
      BY DEF ExternalText
    <3>2. QED  BY <3>1, SilentOnes
  <2>2. run.at \notin {"down", "script", "batch"} /\ "ended" \in Nexts \ Ahead /\ "ended" \in Failures
    BY <1>1, Onward
  <2>3. QED  BY <1>1, <1>3, <2>1, <2>2, SaysNothing DEF Do
<1>4. QED  BY <1>2, <1>3 DEF IngestMessage

\* The session is destroyed.
LEMMA DestroySessionKeeps ==
  ASSUME IInv, DestroySession
  PROVE  IInv'
<1>1. run.at = "destroy" /\ Others /\ Fit(run)
  BY Settled DEF DestroySession
<1>2. CASE Goto("ended")
  BY <1>1, <1>2, Onward, Jumps
<1>3. CASE Do(<<Destroyed>>, "ended", "ended")
  <2>1. Silent(Destroyed)
    BY SilentOnes
  <2>2. run.at \notin {"down", "script", "batch"} /\ "ended" \in Nexts \ Ahead /\ "ended" \in Failures
    BY <1>1, Onward
  <2>3. QED  BY <1>1, <1>3, <2>1, <2>2, SaysNothing DEF Do
<1>4. QED  BY <1>2, <1>3 DEF DestroySession

\* The constructor projects the history, or imports that of the store.
LEMMA ImportKeeps ==
  ASSUME IInv, Import
  PROVE  IInv'
<1>1. /\ run.at = "import" /\ UNCHANGED <<disk, kernel, effect, left>> /\ Fit(run)
      /\ run.at \notin {"down", "script", "batch"}
  BY Settled DEF Import
<1>2. Remembers
  BY <1>1, Projected DEF Import
<1>3. CASE Goto("idle") \/ Goto("diverged")
  <2>1. PICK at \in {"idle", "diverged"} : run' = [run EXCEPT !.at = at]
    BY <1>3 DEF Goto
  <2>2. at \in Nexts \ Ahead
    BY Onward
  <2>3. QED  BY <1>1, <1>2, <2>1, <2>2, GoesTo
<1>4. CASE /\ MessagesOf(mem[kernel.thread]) # <<>>
           /\ Do(<<Replaced(mem[kernel.thread], "conversation_memory_imported")>>, "idle", "unopened")
  <2> DEFINE h == mem[kernel.thread]
  <2>1. kernel.thread \in Threads /\ Remembering(mem)
    BY <1>1, Standing DEF IInv, TypeOK, Remembering
  <2>2. h # None /\ MessagesOf(h) = h
    BY <1>4 DEF MessagesOf
  <2>3. h \in Histories /\ HonestIn(h, effect, OpenNow)
    <3>1. MessagesOf(h) \in Histories /\ HonestIn(MessagesOf(h), effect, OpenNow)
      BY <2>1, Stored
    <3> HIDE DEF h
    <3>2. QED  BY <2>2, <3>1
  <2> HIDE DEF h
  <2>4. <<Replaced(h, "conversation_memory_imported")>> \in Seq(Quiet)
    <3>1. "conversation_memory_imported" \in Reasons
      BY DEF Reasons
    <3>2. Replaced(h, "conversation_memory_imported") \in Quiet
      BY <2>3, <3>1, QuietReplacement
    <3>3. QED  BY <3>2
  <2>5. run' = Script(run, <<Replaced(h, "conversation_memory_imported")>>, "idle", "unopened")
    BY <1>4 DEF Do, h
  <2>6. "idle" \in Nexts \ Ahead /\ "unopened" \in Failures
    BY Onward
  <2>7. QED  BY <1>1, <1>2, <2>4, <2>5, <2>6, Goes
<1>5. QED  BY <1>3, <1>4 DEF Import

\* Another process writes messages that report no call.
LEMMA OtherWriterKeeps ==
  ASSUME IInv, NEW t \in Threads, OtherWriter(t)
  PROVE  IInv'
<1>1. /\ UNCHANGED <<disk, kernel, run, known, effect>>
      /\ left' \in Lefts /\ left'.calls = left.calls
  <2>1. UNCHANGED <<disk, kernel, run, known, effect>> /\ left' = [left EXCEPT !.others = @ - 1]
    BY DEF OtherWriter
  <2>2. left \in Lefts
    BY DEF IInv, TypeOK
  <2>3. left' \in Lefts /\ left'.calls = left.calls
    BY <2>1, <2>2 DEF Lefts
  <2>4. QED  BY <2>1, <2>3
<1> DEFINE h == MessagesOf(mem[t]) \o <<User(OtherText), Answer>>
<1>2. Remembering(mem) /\ mem' = [mem EXCEPT ![t] = h]
  BY DEF IInv, TypeOK, Remembering, OtherWriter
<1>3. MessagesOf(mem[t]) \in Histories /\ HonestIn(MessagesOf(mem[t]), effect, OpenNow)
  BY <1>2, Stored
<1>4. /\ <<User(OtherText), Answer>> \in Histories
      /\ HonestIn(<<User(OtherText), Answer>>, effect, OpenNow)
  <2>1. OtherText \in Int
    BY DEF OtherText
  <2>2. QED  BY <2>1, NothingToTell
<1>5. h \in Histories /\ HonestIn(h, effect, OpenNow)
  <2> DEFINE a == MessagesOf(mem[t])
             b == <<User(OtherText), Answer>>
  <2>1. a \in Seq(Messages) /\ b \in Seq(Messages) /\ HonestIn(a, effect, OpenNow) /\ HonestIn(b, effect, OpenNow)
    BY <1>3, <1>4 DEF Histories
  <2> HIDE DEF a, b
  <2>2. a \o b \in Seq(Messages)
    BY <2>1, ConcatProperties
  <2>3. \A i \in DOMAIN (a \o b) : \/ i \in DOMAIN a /\ (a \o b)[i] = a[i]
                                   \/ i - Len(a) \in DOMAIN b /\ (a \o b)[i] = b[i - Len(a)]
    BY <2>1, ConcatProperties
  <2>4. HonestIn(a \o b, effect, OpenNow)
    BY <2>1, <2>3 DEF HonestIn
  <2>5. QED  BY <2>2, <2>4 DEF a, b, Histories
<1> HIDE DEF h
<1>6. HonestIn(MessagesOf(h), effect, OpenNow)
  BY <1>5, NothingToTell DEF MessagesOf
<1>7. Remembering(mem')
  BY <1>2, <1>5, <1>6, Putting
<1>8. QED
  BY <1>1, <1>7
  DEF IInv, TypeOK, Remembering, OpenNow, Recorded, StartedIn

-----------------------------------------------------------------------------
(* The calls of a round.                                                     *)

\* The calls that a batch begins with are the ones its answer asked for.
LEMMA DispatchKeeps ==
  ASSUME IInv, Dispatch
  PROVE  IInv'
<1>1. /\ run.at = "dispatch" /\ run \in Runs /\ run.todo = <<>>
      /\ UNCHANGED <<disk, kernel, mem, effect, left>>
  BY DEF Dispatch, Others, IInv, TypeOK
<1> DEFINE call == [c \in Calls |-> IF c \in Range(run.batch) THEN "asked" ELSE run.call[c]]
<1>2. call \in [Calls -> Phases]
  BY <1>1, RunFields DEF Phases
<1>3. \A c \in Calls : call[c] = IF c \in Range(run.batch) THEN "asked" ELSE run.call[c]
  OBVIOUS
<1>4. run' = [run EXCEPT !.at = "batch", !.recovering = TRUE, !.call = call]
  BY DEF Dispatch
<1> HIDE DEF call
<1>5. /\ run' \in Runs /\ run'.at = "batch" /\ run'.call = call /\ run'.told = run.told
      /\ run'.batch = run.batch /\ run'.todo = <<>> /\ run'.before = run.before
      /\ run'.checkpoint = run.checkpoint
  <2>1. "batch" \in Places
    BY DEF Places
  <2>2. QED  BY <1>1, <1>2, <1>4, <2>1 DEF Runs
<1>6. Range(run.batch) \subseteq Calls
  BY <1>1, RunFields DEF Range
<1>7. Rests(run, effect, left.calls)
  BY <1>1, RestsOutside DEF IInv
<1>8. Pre(run) /\ ~Pre(run')
  BY <1>1, <1>5 DEF Pre, Ahead
<1>9. Unrun(run') = Range(run.batch)
  BY <1>3, <1>5, <1>6, <1>7 DEF Unrun, Rests, Resting
<1>10. OpenIn(run', left.calls) = OpenNow
  BY <1>1, <1>8, <1>9 DEF OpenNow, OpenIn, Unrun
<1>11. StartedIn(run') = StartedIn(run)
  BY <1>1, <1>3, <1>5, <1>7 DEF StartedIn, Rests, Resting
<1>12. Accounted(run', effect, left.calls)
  <2> SUFFICES ASSUME NEW c \in Calls
               PROVE  /\ c \in OpenNow => effect[c] = "no"
                      /\ call[c] # "none" => c \notin Range(left.calls)
                      /\ c \notin Range(run.batch) => call[c] \in Resting
                      /\ call[c] \notin {"refused", "running", "settled", "started"}
                      /\ call[c] # "none" /\ effect[c] # "no" => run.told[c] # "none"
                      /\ run.told[c] \in {"done", "failed"} => effect[c] = run.told[c]
    BY <1>5, <1>8, <1>10 DEF Accounted
  <2>1. /\ c \in OpenNow => effect[c] = "no"
        /\ c \in Range(run.batch) => c \in OpenNow /\ c \notin Range(left.calls)
    BY <1>1, <1>8 DEF IInv, Accounted, OpenNow, OpenIn
  <2>2. QED  BY <1>3, <1>7, <2>1 DEF Rests, Resting
<1>13. Recorded' /\ InStep(run', kernel)
  BY <1>3, <1>5, <1>6 DEF Recorded, InStep
<1>14. TypeOK'
  BY <1>1, <1>5 DEF IInv, TypeOK, Addressed
<1>15. QED
  BY <1>1, <1>5, <1>10, <1>11, <1>12, <1>13, <1>14
  DEF IInv, OpenNow, RunHonest, AllTrue

\* What a call's step makes of the operation's record.
Turned(c, phase, told) ==
  /\ run' \in Runs /\ run'.at = "batch" /\ run'.todo = <<>> /\ run'.batch = run.batch
  /\ run'.before = run.before /\ run'.checkpoint = run.checkpoint
  /\ run'.call[c] = phase /\ run'.told[c] = told
  /\ \A d \in Calls \ {c} : run'.call[d] = run.call[d] /\ run'.told[d] = run.told[d]

\* A call moves on, and the others stay where they are.
LEMMA CallTurns ==
  ASSUME IInv, run.at = "batch", NEW c \in Calls, NEW phase \in Phases,
         NEW told \in Words \cup {"none"}, Becomes(c, phase, told)
  PROVE  Turned(c, phase, told)
<1>1. run \in Runs /\ run.todo = <<>>
  BY DEF IInv, TypeOK
<1> DEFINE call == [run.call EXCEPT ![c] = phase]
           tolds == [run.told EXCEPT ![c] = told]
<1>2. call \in [Calls -> Phases] /\ tolds \in [Calls -> Words \cup {"none"}]
  BY <1>1, RunFields
<1>3. /\ call[c] = phase /\ tolds[c] = told
      /\ \A d \in Calls \ {c} : call[d] = run.call[d] /\ tolds[d] = run.told[d]
  BY <1>1, RunFields
<1>4. run' = [run EXCEPT !.call = call, !.told = tolds]
  BY <1>1 DEF Becomes, Runs
<1> HIDE DEF call, tolds
<1>5. run' \in Runs
  BY <1>1, <1>2, <1>4 DEF Runs
<1>6. /\ run'.at = "batch" /\ run'.todo = <<>> /\ run'.batch = run.batch
      /\ run'.before = run.before /\ run'.checkpoint = run.checkpoint
      /\ run'.call = call /\ run'.told = tolds
  BY <1>1, <1>4 DEF Runs
<1>7. QED  BY <1>3, <1>5, <1>6 DEF Turned

\* What is to be shown of a step of one call.
LEMMA TurnsOver ==
  ASSUME IInv, run.at = "batch", NEW c \in Calls, NEW phase, NEW told,
         run.call[c] \notin Resting, Turned(c, phase, told),
         effect' \in [Calls -> {"no", "entered", "done", "failed", "unknown"}],
         \A d \in Calls \ {c} : effect'[d] = effect[d],
         effect[c] = "no" /\ run.call[c] # "started" => effect'[c] = "no",
         effect[c] \in {"done", "failed"} => effect'[c] = effect[c],
         mem' = mem, left' \in Lefts, left'.calls = left.calls,
         disk' \in Journals, kernel' \in Journals,
         NEW open, open = OpenIn(run', left.calls),
         JournalHonest(disk', effect', open), JournalHonest(kernel', effect', open),
         ToolsTrue(disk', effect', open, left.calls, StartedIn(run')),
         phase \in {"asked", "called", "started"} => c \in OpenNow /\ effect'[c] = "no",
         phase \in {"called", "thrown", "recorded", "refused", "started", "running", "settled"},
         phase = "refused" => effect'[c] = "no",
         phase = "running" => effect'[c] = "entered",
         phase = "settled" => effect'[c] \in {"done", "failed", "unknown"},
         phase \in {"started", "running", "settled"} => told = "unknown",
         effect'[c] # "no" => told # "none",
         told \in {"done", "failed"} => effect'[c] = told,
         \A d \in Calls : IsOpen(kernel, d) => IsOpen(kernel', d),
         phase = "recorded" => IsOpen(kernel', c)
  PROVE  IInv'
<1>1. /\ TypeOK /\ Accounted(run, effect, left.calls)
      /\ RunHonest(run, effect, OpenNow) /\ MemHonest(mem, effect, OpenNow) /\ Recorded
      /\ run \in Runs /\ mem \in [Threads -> Histories \cup {None}]
  BY DEF IInv, TypeOK
<1>2. /\ run' \in Runs /\ run'.at = "batch" /\ run'.todo = <<>> /\ run'.batch = run.batch
      /\ run'.before = run.before /\ run'.checkpoint = run.checkpoint
      /\ run'.call[c] = phase /\ run'.told[c] = told
      /\ \A d \in Calls \ {c} : run'.call[d] = run.call[d] /\ run'.told[d] = run.told[d]
  BY DEF Turned
<1>3. ~Pre(run) /\ ~Pre(run')
  BY <1>2 DEF Pre, Ahead
<1>4. open = Range(left.calls) \cup Unrun(run') /\ OpenNow = Range(left.calls) \cup Unrun(run)
  BY <1>3 DEF OpenIn, OpenNow
<1>5. open \subseteq OpenNow
  BY <1>2, <1>4 DEF Unrun
<1>6. StartedIn(run) \subseteq OpenNow
  BY <1>1, StartedIsOpen
<1>7. Evolves(effect, OpenNow, left.calls, StartedIn(run), effect', open, left.calls, {})
  <2>1. \A d \in Calls :
          /\ effect[d] = "no" /\ d \notin StartedIn(run) => effect'[d] = "no"
          /\ effect[d] \in {"done", "failed"} => effect'[d] = effect[d]
    BY DEF StartedIn
  <2>2. QED  BY <1>5, <1>6, <2>1 DEF Evolves
<1>8. RunHonest(run', effect', open)
  <2>1. RunHonest(run, effect', open)
    BY <1>1, <1>7, RunStays
  <2>2. QED  BY <1>2, <2>1 DEF RunHonest
<1>9. MemHonest(mem, effect', open)
  BY <1>1, <1>7, MemStays
<1>10. Accounted(run', effect', left.calls)
  <2> SUFFICES ASSUME NEW d \in Calls
               PROVE  /\ d \in open => effect'[d] = "no"
                      /\ run'.call[d] # "none" => d \notin Range(left.calls)
                      /\ d \notin Range(run.batch) => run'.call[d] \in Resting
                      /\ run'.call[d] = "refused" => effect'[d] = "no"
                      /\ run'.call[d] = "running" => effect'[d] = "entered"
                      /\ run'.call[d] = "settled" => effect'[d] \in {"done", "failed", "unknown"}
                      /\ run'.call[d] \in {"started", "running", "settled"} => run'.told[d] = "unknown"
                      /\ run'.call[d] # "none" /\ effect'[d] # "no" => run'.told[d] # "none"
                      /\ run'.told[d] \in {"done", "failed"} => effect'[d] = run'.told[d]
    BY <1>2, <1>3 DEF Accounted
  <2>1. CASE d # c
    <3>1. run'.call[d] = run.call[d] /\ run'.told[d] = run.told[d] /\ effect'[d] = effect[d]
      BY <1>2, <2>1
    <3>2. d \in open => effect'[d] = "no"
      BY <1>1, <1>5, <3>1 DEF Accounted, OpenNow
    <3>3. QED  BY <1>1, <3>1, <3>2 DEF Accounted
  <2>2. CASE d = c
    <3>1. c \notin Range(left.calls) /\ c \in Range(run.batch)
      BY <1>1 DEF Accounted, Resting
    <3>2. c \in open => effect'[c] = "no"
      BY <1>2, <1>4, <3>1 DEF Unrun
    <3>3. QED  BY <1>2, <2>2, <3>1, <3>2
  <2>3. QED  BY <2>1, <2>2
<1>11. Recorded'
  <2> SUFFICES ASSUME NEW d \in Range(run.batch), run'.call[d] = "recorded" PROVE IsOpen(kernel', d)
    BY <1>2 DEF Recorded
  <2>1. d \in Calls
    BY <1>1, RunFields DEF Range
  <2>2. CASE d = c
    BY <1>2, <2>2
  <2>3. CASE d # c
    <3>1. run.call[d] = "recorded"
      BY <1>2, <2>1, <2>3
    <3>2. QED  BY <1>1, <2>1, <3>1 DEF Recorded
  <2>4. QED  BY <2>2, <2>3
<1>12. InStep(run', kernel')
  BY <1>2 DEF InStep
<1>13. TypeOK'
  BY <1>1, <1>2 DEF TypeOK, Addressed
<1>14. AllTrue(run'.todo, effect', open, left.calls, {})
  BY <1>2 DEF AllTrue
<1>15. OpenNow' = open
  BY DEF OpenNow
<1>16. QED
  BY <1>2, <1>8, <1>9, <1>10, <1>11, <1>12, <1>13, <1>14, <1>15 DEF IInv

\* A call's record stays open until its answer is in the history.
LEMMA StaysOpen ==
  ASSUME IInv, run.at = "batch", NEW e \in Events,
         e.type \in {"tool/call", "tool/execution-started", "tool/result"},
         Appended(e) \/ AppendFails(e)
  PROVE  /\ \A d \in Calls : IsOpen(kernel, d) => IsOpen(kernel', d)
         /\ Appended(e) /\ e.type = "tool/result" => IsOpen(kernel', e.call)
<1>1. disk \in Journals
  BY DEF IInv, TypeOK
<1>2. CASE AppendFails(e)
  BY <1>2 DEF AppendFails, Appended, Concludes, Accepts, Correlates
<1>3. CASE Appended(e)
  <2>1. kernel = disk /\ Accepts(disk, e) /\ kernel' = Advance(disk, e)
    BY <1>3 DEF Appended
  <2>2. kernel'.tools = ToolsAfter(disk, e)
    BY <1>1, <2>1, Advances DEF After
  <2>3. PICK at, says : ToolsAfter(disk, e) = SetTool(disk, e.call, at, says).tools
    BY DEF ToolsAfter
  <2>4. /\ DOMAIN kernel'.tools = DOMAIN disk.tools
        /\ \A i \in DOMAIN disk.tools :
             kernel'.tools[i] = IF disk.tools[i].call = e.call
                                THEN [call |-> e.call, at |-> at, says |-> says] ELSE disk.tools[i]
    BY <1>1, <2>2, <2>3, ToolSet
  <2>5. \A d : IsOpen(disk, d) => IsOpen(kernel', d)
    BY <2>4 DEF IsOpen
  <2>6. e.type = "tool/result" => IsOpen(disk, e.call)
    BY <2>1 DEF Accepts, Correlates, Concludes
  <2>7. QED  BY <2>1, <2>5, <2>6
<1>4. QED  BY <1>2, <1>3

\* A step of a call that appends to the journal, or fails to.
LEMMA RecordsCall ==
  ASSUME IInv, run.at = "batch", NEW c \in Calls, run.call[c] \notin Resting,
         NEW e \in Events, e.type \in {"tool/call", "tool/execution-started", "tool/result"}, e.call = c,
         NEW phase \in {"called", "thrown", "recorded", "refused", "started"},
         NEW told \in Words \cup {"none"}, Becomes(c, phase, told), UNCHANGED <<mem, effect>>,
         Appended(e) \/ (AppendFails(e) /\ phase \in {"thrown", "refused"}),
         EventTrue(e, effect, OpenIn(run', left.calls), left.calls, StartedIn(run)),
         phase = "started" => e.type = "tool/execution-started",
         phase = "recorded" => e.type = "tool/result",
         phase \in {"called", "started", "refused"} => c \in OpenNow,
         phase = "started" => told = "unknown",
         effect[c] # "no" => told # "none", told \in {"done", "failed"} => effect[c] = told
  PROVE  IInv'
<1>1. Turned(c, phase, told)
  <2>1. phase \in Phases
    BY DEF Phases
  <2>2. QED  BY <2>1, CallTurns
<1>2. TypeOK /\ Accounted(run, effect, left.calls)
  BY DEF IInv
<1> DEFINE open == OpenIn(run', left.calls)
<1>3. open \subseteq OpenNow
  BY <1>1 DEF Turned, OpenNow, OpenIn, Unrun, Pre, Ahead
<1>4. EventTrue(e, effect, open, left.calls, StartedIn(run))
  OBVIOUS
<1>5. run.at # "down" /\ (Appended(e) \/ AppendFails(e)) /\ UNCHANGED effect
  OBVIOUS
<1>6. \A d \in Calls : IsOpen(kernel, d) => IsOpen(kernel', d)
  BY <1>5, StaysOpen
<1>7. phase = "recorded" => IsOpen(kernel', c)
  BY <1>5, StaysOpen
<1> HIDE DEF open
<1>8. /\ disk' \in Journals /\ kernel' \in Journals
      /\ JournalHonest(disk', effect, open) /\ JournalHonest(kernel', effect, open)
      /\ ToolsTrue(disk', effect, open, left.calls, StartedIn(run))
      /\ Appended(e) /\ e.type = "tool/execution-started" =>
           ToolsTrue(disk', effect, open, left.calls, StartedIn(run) \cup {e.call})
      /\ left' \in Lefts /\ left'.calls = left.calls
  BY <1>3, <1>4, <1>5, Appending
<1>9. ToolsTrue(disk', effect, open, left.calls, StartedIn(run'))
  <2>1. CASE phase = "started"
    <3>1. StartedIn(run') = StartedIn(run) \cup {c}
      BY <1>1, <2>1 DEF StartedIn, Turned
    <3>2. QED  BY <1>8, <2>1, <3>1
  <2>2. CASE phase # "started"
    <3>1. StartedIn(run') \subseteq StartedIn(run)
      BY <1>1, <2>2 DEF StartedIn, Turned
    <3>2. QED  BY <1>8, <3>1 DEF ToolsTrue, ToolTrue
  <2>3. QED  BY <2>1, <2>2
<1>10. phase \in {"called", "started", "refused"} => effect[c] = "no"
  BY <1>2 DEF Accounted, OpenNow
<1>11. effect \in [Calls -> {"no", "entered", "done", "failed", "unknown"}] /\ effect' = effect /\ mem' = mem
  BY <1>2 DEF TypeOK
<1>12. open = OpenIn(run', left.calls)
  BY DEF open
<1>13. QED
  BY <1>1, <1>6, <1>7, <1>8, <1>9, <1>10, <1>11, <1>12, TurnsOver

\* A step of a call that only moves it on, and may run its handler.
LEMMA MovesCall ==
  ASSUME IInv, run.at = "batch", NEW c \in Calls, run.call[c] \notin Resting,
         NEW phase \in {"thrown", "refused", "running", "settled"}, Becomes(c, phase, run.told[c]),
         UNCHANGED <<disk, kernel, mem, left>>,
         effect' = effect \/ \E o \in {"entered", "done", "failed", "unknown"} : effect' = [effect EXCEPT ![c] = o],
         effect' # effect => run.call[c] \in {"started", "running"},
         phase = "refused" => effect'[c] = "no",
         phase = "thrown" => effect'[c] = "no",
         phase = "running" => effect'[c] = "entered",
         phase = "settled" => effect'[c] \in {"done", "failed", "unknown"},
         phase \in {"running", "settled"} => run.told[c] = "unknown"
  PROVE  IInv'
<1>1. TypeOK /\ Accounted(run, effect, left.calls) /\ run \in Runs
  BY DEF IInv, TypeOK
<1>2. Turned(c, phase, run.told[c])
  <2>1. phase \in Phases /\ run.told[c] \in Words \cup {"none"}
    BY <1>1, RunFields DEF Phases
  <2>2. QED  BY <2>1, CallTurns
<1>3. /\ effect' \in [Calls -> {"no", "entered", "done", "failed", "unknown"}]
      /\ \A d \in Calls \ {c} : effect'[d] = effect[d]
  BY <1>1 DEF TypeOK
<1>4. run.call[c] \notin {"started", "running"} => effect' = effect
  OBVIOUS
<1>5. run.call[c] = "running" => effect[c] = "entered"
  BY <1>1 DEF Accounted
<1>6. run.call[c] = "started" => effect[c] = "no"
  BY <1>1 DEF Accounted, OpenIn, Unrun
<1> DEFINE open == OpenIn(run', left.calls)
<1>7. open \subseteq OpenNow
  BY <1>2 DEF Turned, OpenNow, OpenIn, Unrun, Pre, Ahead
<1>8. StartedIn(run') \subseteq StartedIn(run) /\ StartedIn(run) \subseteq OpenNow
  BY <1>1, <1>2, StartedIsOpen DEF StartedIn, Turned
<1>9. effect[c] = "no" /\ run.call[c] # "started" => effect'[c] = "no"
  BY <1>4, <1>5
<1>10. effect[c] \in {"done", "failed"} => effect'[c] = effect[c]
  BY <1>4, <1>5, <1>6
<1>11. Evolves(effect, OpenNow, left.calls, StartedIn(run), effect', open, left.calls, StartedIn(run'))
  <2>1. \A d \in Calls :
          /\ effect[d] = "no" /\ d \notin StartedIn(run) => effect'[d] = "no"
          /\ effect[d] \in {"done", "failed"} => effect'[d] = effect[d]
    BY <1>3, <1>9, <1>10 DEF StartedIn
  <2>2. QED  BY <1>7, <1>8, <2>1 DEF Evolves
<1>12. open = OpenIn(run', left.calls)
  OBVIOUS
<1> HIDE DEF open
<1>13. /\ disk \in Journals /\ kernel \in Journals
       /\ JournalHonest(disk, effect', open) /\ JournalHonest(kernel, effect', open)
       /\ ToolsTrue(disk, effect', open, left.calls, StartedIn(run'))
  <2>1. disk \in Journals /\ kernel \in Journals
    BY <1>1 DEF TypeOK
  <2>2. JournalHonest(disk, effect', open)
    BY <1>11, <2>1, JournalStays DEF IInv
  <2>3. JournalHonest(kernel, effect', open)
    BY <1>11, <2>1, JournalStays DEF IInv
  <2>4. ToolsTrue(disk, effect', open, left.calls, StartedIn(run'))
    BY <1>11, <2>1, ToolsStay DEF IInv
  <2>5. QED  BY <2>1, <2>2, <2>3, <2>4
<1>14. left' \in Lefts /\ left' = left /\ disk' = disk /\ kernel' = kernel /\ mem' = mem
  BY <1>1 DEF TypeOK
<1>15. effect'[c] # "no" => run.told[c] # "none"
  OBVIOUS
<1>16. run.told[c] \in {"done", "failed"} => effect'[c] = run.told[c]
  BY <1>1, <1>10 DEF Accounted
<1>17. QED
  BY <1>2, <1>3, <1>9, <1>10, <1>12, <1>13, <1>14, <1>15, <1>16, TurnsOver

\* A call of the batch that has not been answered is one that was asked for.
LEMMA CallFields ==
  ASSUME IInv, NEW c \in Calls
  PROVE  /\ run \in Runs /\ run.told[c] \in Words \cup {"none"}
         /\ run.told[c] \in {"done", "failed"} => effect[c] = run.told[c]
         /\ run.call[c] # "none" => c \notin Range(left.calls)
         /\ run.at = "batch" /\ run.call[c] \in {"asked", "called", "started"} =>
              c \in OpenNow /\ effect[c] = "no"
         /\ run.call[c] = "refused" => effect[c] = "no"
         /\ run.call[c] # "none" /\ effect[c] # "no" => run.told[c] # "none"
<1>1. run \in Runs
  BY DEF IInv, TypeOK
<1>2. run.told[c] \in Words \cup {"none"}
  BY <1>1, RunFields
<1>3. QED  BY <1>1, <1>2 DEF IInv, Accounted, OpenNow, OpenIn, Unrun

\* The journal is told that a call is asked for.
LEMMA AskKeeps ==
  ASSUME IInv, NEW c \in Calls, Ask(c)
  PROVE  IInv'
<1> DEFINE e == ToolCall(c)
<1>1. /\ run.at = "batch" /\ run.call[c] = "asked" /\ UNCHANGED <<mem, effect>>
      /\ CallAppend(c, e, "called", run.told[c], "thrown")
  BY DEF Ask, Call, CallAppend
<1>2. c \in OpenNow /\ effect[c] = "no" /\ run.told[c] \in Words \cup {"none"}
      /\ (run.told[c] \in {"done", "failed"} => effect[c] = run.told[c])
  BY <1>1, CallFields
<1>3. e \in Events
  <2>1. "unknown" \in Words
    BY DEF Words
  <2>2. QED  BY <2>1, ToolEvents
<1>4. e.type = "tool/call" /\ e.call = c
  BY DEF ToolCall
<1> HIDE DEF e
<1>5. EventTrue(e, effect, OpenIn(run', left.calls), left.calls, StartedIn(run))
  BY <1>1, <1>2, <1>4 DEF EventTrue, StartedIn
<1>6. PICK phase \in {"called", "thrown"} :
        /\ Becomes(c, phase, run.told[c])
        /\ Appended(e) \/ (AppendFails(e) /\ phase = "thrown")
  BY <1>1 DEF CallAppend
<1>7. QED  BY <1>1, <1>2, <1>3, <1>4, <1>5, <1>6, RecordsCall DEF Resting

\* The journal is told that a handler is about to be entered.
LEMMA IntendKeeps ==
  ASSUME IInv, NEW c \in Calls, Intend(c)
  PROVE  IInv'
<1> DEFINE e == ToolStarted(c)
<1>1. /\ run.at = "batch" /\ run.call[c] = "called" /\ UNCHANGED <<mem, effect>>
      /\ CallAppend(c, e, "started", "unknown", "refused")
  BY DEF Intend, Call, CallAppend
<1>2. c \in OpenNow /\ effect[c] = "no" /\ run.told[c] \in Words \cup {"none"} /\ "unknown" \in Words
      /\ (run.told[c] \in {"done", "failed"} => effect[c] = run.told[c])
  BY <1>1, CallFields DEF Words
<1>3. e \in Events
  BY <1>2, ToolEvents
<1>4. e.type = "tool/execution-started" /\ e.call = c
  BY DEF ToolStarted
<1> HIDE DEF e
<1>5. EventTrue(e, effect, OpenIn(run', left.calls), left.calls, StartedIn(run))
  BY <1>4 DEF EventTrue
<1>6. CASE Appended(e) /\ Becomes(c, "started", "unknown")
  BY <1>1, <1>2, <1>3, <1>4, <1>5, <1>6, RecordsCall DEF Resting
<1>7. CASE AppendFails(e) /\ Becomes(c, "refused", run.told[c])
  BY <1>1, <1>2, <1>3, <1>4, <1>5, <1>7, RecordsCall DEF Resting
<1>8. QED  BY <1>1, <1>6, <1>7 DEF CallAppend

\* A call is refused, or its execution breaks before the handler is entered.
LEMMA RefuseKeeps ==
  ASSUME IInv, NEW c \in Calls, Refuse(c) \/ Break(c)
  PROVE  IInv'
<1>1. /\ run.at = "batch" /\ run.call[c] \in {"called", "started"}
      /\ UNCHANGED <<disk, kernel, mem, effect, left>>
      /\ Becomes(c, "refused", run.told[c]) \/ Becomes(c, "thrown", run.told[c])
  BY DEF Refuse, Break, Call, Others
<1>2. effect[c] = "no"
  BY <1>1, CallFields
<1>3. QED  BY <1>1, <1>2, MovesCall DEF Resting

\* The refusal of a call is recorded.
LEMMA RecordRefusalKeeps ==
  ASSUME IInv, NEW c \in Calls, RecordRefusal(c)
  PROVE  IInv'
<1> DEFINE e == ToolResult(c, "rejected")
<1>1. /\ run.at = "batch" /\ run.call[c] = "refused" /\ UNCHANGED <<mem, effect>>
      /\ CallAppend(c, e, "recorded", "none", "thrown")
  BY DEF RecordRefusal, Call, CallAppend
<1>2. effect[c] = "no" /\ run.told[c] \in Words \cup {"none"} /\ c \notin Range(left.calls)
      /\ (run.told[c] \in {"done", "failed"} => effect[c] = run.told[c]) /\ "rejected" \in Words
  BY <1>1, CallFields DEF Words
<1>3. e \in Events
  BY <1>2, ToolEvents
<1>4. e.type = "tool/result" /\ e.call = c /\ e.says = "rejected" /\ ~e.recovered
  BY DEF ToolResult
<1> HIDE DEF e
<1>5. PICK phase \in {"recorded", "thrown"}, told \in {"none", run.told[c]} :
        /\ Becomes(c, phase, told)
        /\ told = "none" \/ told = run.told[c]
        /\ Appended(e) \/ (AppendFails(e) /\ phase = "thrown")
  BY <1>1 DEF CallAppend
<1>6. Turned(c, phase, told)
  BY <1>1, <1>2, <1>5, CallTurns DEF Phases
<1>7. c \notin OpenIn(run', left.calls)
  BY <1>2, <1>5, <1>6 DEF Turned, OpenIn, Unrun, Pre, Ahead
<1>8. EventTrue(e, effect, OpenIn(run', left.calls), left.calls, StartedIn(run))
  BY <1>2, <1>4, <1>7 DEF EventTrue, Tells
<1>9. told \in Words \cup {"none"} /\ (told \in {"done", "failed"} => effect[c] = told)
  BY <1>2
<1>10. QED  BY <1>1, <1>2, <1>3, <1>4, <1>5, <1>8, <1>9, RecordsCall DEF Resting

\* The handler is entered.
LEMMA EnterKeeps ==
  ASSUME IInv, NEW c \in Calls, Enter(c)
  PROVE  IInv'
<1>1. /\ run.at = "batch" /\ run.call[c] = "started" /\ UNCHANGED <<disk, kernel, mem, left>>
      /\ Becomes(c, "running", run.told[c]) /\ effect' = [effect EXCEPT ![c] = "entered"]
  BY DEF Enter, Call
<1>2. effect'[c] = "entered" /\ run.told[c] = "unknown"
  BY <1>1 DEF IInv, TypeOK, Accounted
<1>3. QED  BY <1>1, <1>2, MovesCall DEF Resting

\* The handler returns, throws, or is given up.
LEMMA SettleKeeps ==
  ASSUME IInv, NEW c \in Calls, NEW o \in {"done", "failed", "unknown"}, Settle(c, o)
  PROVE  IInv'
<1>1. /\ run.at = "batch" /\ run.call[c] = "running" /\ UNCHANGED <<disk, kernel, mem, left>>
      /\ Becomes(c, "settled", run.told[c]) /\ effect' = [effect EXCEPT ![c] = o]
  <2>1. run.call[c] = "running" /\ run.call[c] \notin Resting
    BY DEF Settle, Call, Resting
  <2>2. QED  BY <2>1 DEF Settle, Call
<1>2. effect'[c] = o /\ run.told[c] = "unknown"
  BY <1>1 DEF IInv, TypeOK, Accounted
<1>3. QED  BY <1>1, <1>2, MovesCall DEF Resting

\* The result of a call is recorded, or that it is not known.
LEMMA RecordResultKeeps ==
  ASSUME IInv, NEW c \in Calls, RecordResult(c)
  PROVE  IInv'
<1>1. /\ run.at = "batch" /\ run.call[c] = "settled" /\ UNCHANGED <<mem, effect>>
  BY DEF RecordResult, Call, CallAppend
<1>2. PICK says \in {effect[c], "unknown"} :
        CallAppend(c, ToolResult(c, says), "recorded", says, "thrown")
  BY DEF RecordResult
<1> DEFINE e == ToolResult(c, says)
<1>3. effect[c] \in {"done", "failed", "unknown"} /\ run.told[c] = "unknown"
  BY <1>1 DEF IInv, Accounted
<1>4. says \in {"done", "failed", "unknown"} /\ (says # "unknown" => effect[c] = says) /\ says \in Words
      /\ "unknown" \in Words
  BY <1>2, <1>3 DEF Words
<1>5. e \in Events
  BY <1>4, ToolEvents
<1>6. e.type = "tool/result" /\ e.call = c /\ e.says = says /\ ~e.recovered
  BY DEF ToolResult
<1> HIDE DEF e
<1>7. EventTrue(e, effect, OpenIn(run', left.calls), left.calls, StartedIn(run))
  BY <1>4, <1>6 DEF EventTrue, Tells
<1>8. CASE Appended(e) /\ Becomes(c, "recorded", says)
  <2>1. (effect[c] # "no" => says # "none") /\ (says \in {"done", "failed"} => effect[c] = says)
    BY <1>4
  <2>2. QED  BY <1>1, <1>4, <1>5, <1>6, <1>7, <1>8, <2>1, RecordsCall DEF Resting
<1>9. CASE AppendFails(e) /\ Becomes(c, "thrown", run.told[c])
  BY <1>1, <1>3, <1>4, <1>5, <1>6, <1>7, <1>9, RecordsCall DEF Resting
<1>10. QED  BY <1>2, <1>8, <1>9 DEF CallAppend, e

-----------------------------------------------------------------------------
(* The process.                                                              *)

\* Only what no call has yet to do remains of an operation that is over.
LEMMA Narrowed ==
  ASSUME IInv, NEW open, open = Range(left.calls)
  PROVE  /\ JournalHonest(disk, effect, open) /\ MemHonest(mem, effect, open)
         /\ ToolsTrue(disk, effect, open, left.calls, {})
         /\ Evolves(effect, OpenNow, left.calls, StartedIn(run), effect, open, left.calls, {})
<1>1. TypeOK /\ Accounted(run, effect, left.calls) /\ open \subseteq OpenNow
  BY OpenCalls DEF IInv
<1>2. Evolves(effect, OpenNow, left.calls, StartedIn(run), effect, open, left.calls, {})
  BY <1>1, Steady
<1>3. disk \in Journals /\ mem \in [Threads -> Histories \cup {None}]
  BY <1>1 DEF TypeOK
<1>4. JournalHonest(disk, effect, open)
  BY <1>2, <1>3, JournalStays DEF IInv
<1>5. MemHonest(mem, effect, open)
  BY <1>2, <1>3, MemStays DEF IInv
<1>6. ToolsTrue(disk, effect, open, left.calls, {})
  BY <1>2, <1>3, ToolsStay DEF IInv
<1>7. QED  BY <1>2, <1>4, <1>5, <1>6

\* A session is opened: what a crash broke off is recovered.
LEMMA OpenKeeps ==
  ASSUME IInv, Open
  PROVE  IInv'
<1> DEFINE plan == RecoveryPlan(disk)
           open == Range(left.calls)
<1>1. /\ kernel' = disk /\ UNCHANGED <<disk, mem, effect, left>> /\ disk \in Journals
      /\ run' = Script(Idle, plan, "import", "unopened")
  BY DEF Open, IInv, TypeOK
<1>2. JournalHonest(disk, effect, open) /\ MemHonest(mem, effect, open)
      /\ ToolsTrue(disk, effect, open, left.calls, {})
  BY Narrowed
<1>3. plan \in Seq(Events) /\ AllTrue(plan, effect, open, left.calls, {})
  BY <1>1, <1>2, RecoveryIsTrue, TrueEvents
<1>4. /\ Idle \in Runs /\ Idle.todo = <<>> /\ Idle.before = <<>> /\ Idle.checkpoint = None
      /\ \A c \in Calls : Idle.call[c] = "none" /\ Idle.told[c] = "none"
  BY ChatAssumption, Blank
<1>5. "import" \in Nexts /\ "import" \notin Ahead /\ "unopened" \in Failures
  BY Onward
<1> HIDE DEF plan, open
<1>6. Follows(run', Idle, plan, "import")
  BY <1>1, <1>3, <1>4, <1>5, ScriptFields
<1>7. /\ run' \in Runs /\ run'.todo = plan /\ run'.before = <<>> /\ run'.checkpoint = None
      /\ \A c \in Calls : run'.call[c] = "none" /\ run'.told[c] = "none"
      /\ run'.at = "script" <=> run'.todo # <<>>
      /\ run'.at \in {"script", "import"} /\ (run'.at = "script" => run'.then = "import")
  BY <1>4, <1>6 DEF Follows
<1>8. ~Pre(run') /\ OpenIn(run', left.calls) = open /\ StartedIn(run') = {}
  BY <1>7 DEF Pre, Ahead, OpenIn, Unrun, StartedIn, open
<1>9. Accounted(run', effect, left.calls)
  <2>1. \A c \in Calls : c \in open => effect[c] = "no"
    BY OpenCalls DEF IInv, Accounted, OpenNow, open
  <2>2. QED  BY <1>7, <1>8, <2>1 DEF Accounted, Resting
<1>10. TypeOK'
  BY <1>1, <1>7 DEF IInv, TypeOK, Addressed
<1>11. RunHonest(run', effect, open) /\ Recorded' /\ InStep(run', kernel')
  BY <1>7, NothingToTell DEF RunHonest, Recorded, InStep
<1>12. OpenNow' = open
  BY <1>1, <1>8 DEF OpenNow
<1>13. QED
  BY <1>1, <1>2, <1>3, <1>7, <1>8, <1>9, <1>10, <1>11, <1>12 DEF IInv

\* The process is gone, and what it was about to do with it.
LEMMA GoneKeeps ==
  ASSUME IInv, run' = Down, kernel' = None, UNCHANGED <<disk, mem, effect>>,
         left' \in Lefts, left'.calls = left.calls
  PROVE  IInv'
<1> DEFINE open == Range(left.calls)
<1>1. JournalHonest(disk, effect, open) /\ MemHonest(mem, effect, open)
      /\ ToolsTrue(disk, effect, open, left.calls, {})
  BY Narrowed
<1>2. /\ run' \in Runs /\ run'.todo = <<>> /\ run'.before = <<>> /\ run'.checkpoint = None
      /\ run'.at = "down" /\ \A c \in Calls : run'.call[c] = "none" /\ run'.told[c] = "none"
  BY ChatAssumption, Blank
<1>3. ~Pre(run') /\ OpenIn(run', left.calls) = open /\ StartedIn(run') = {}
  BY <1>2 DEF Pre, Ahead, OpenIn, Unrun, StartedIn
<1>4. Accounted(run', effect, left.calls)
  <2>1. \A c \in Calls : c \in open => effect[c] = "no"
    BY OpenCalls DEF IInv, Accounted, OpenNow
  <2>2. QED  BY <1>2, <1>3, <2>1 DEF Accounted, Resting
<1>5. TypeOK'
  BY <1>2 DEF IInv, TypeOK, Addressed
<1>6. RunHonest(run', effect, open) /\ Recorded' /\ InStep(run', kernel')
      /\ AllTrue(run'.todo, effect, open, left.calls, {})
  BY <1>2, NothingToTell DEF RunHonest, Recorded, InStep, AllTrue
<1>7. OpenNow' = open
  BY <1>3 DEF OpenNow
<1> HIDE DEF open
<1>8. QED
  BY <1>1, <1>2, <1>3, <1>4, <1>5, <1>6, <1>7 DEF IInv

\* A session that could not be opened, and a crash.
LEMMA UnopenedKeeps ==
  ASSUME IInv, Unopened \/ Crash
  PROVE  IInv'
<1>1. left \in Lefts
  BY DEF IInv, TypeOK
<1>2. CASE Unopened
  <2>1. /\ run' = Down /\ kernel' = None /\ UNCHANGED <<disk, mem, effect>>
        /\ left' \in Lefts /\ left'.calls = left.calls
    BY <1>1, <1>2 DEF Unopened
  <2>2. QED  BY <2>1, GoneKeeps
<1>3. CASE Crash
  <2>1. /\ run' = Down /\ kernel' = None /\ UNCHANGED <<disk, mem, effect>>
        /\ left' = [left EXCEPT !.crashes = @ - 1]
    BY <1>3 DEF Crash
  <2>2. left' \in Lefts /\ left'.calls = left.calls
    BY <1>1, <2>1 DEF Lefts
  <2>3. QED  BY <2>1, <2>2, GoneKeeps
<1>4. QED  BY <1>2, <1>3

-----------------------------------------------------------------------------
(* The theorems.                                                             *)

\* The steps of a turn.
LEMMA TurnKeeps ==
  ASSUME IInv, Turn
  PROVE  IInv'
<1>1. CASE SwitchThread \/ ApplyBudget \/ OpenTheTurn \/ TheUserSays \/ NextRound \/ PrepareRequest
  BY <1>1, SwitchThreadKeeps, ApplyBudgetKeeps, OpenTheTurnKeeps, TheUserSaysKeeps, NextRoundKeeps,
     PrepareRequestKeeps
<1>2. CASE ModelAnswers \/ ReadResponse \/ Spoken \/ Dispatch \/ BatchSettled \/ Checkpoint \/ RoundDone
  BY <1>2, ModelAnswersKeeps, ReadResponseKeeps, SpokenKeeps, DispatchKeeps, BatchSettledKeeps,
     CheckpointKeeps, RoundDoneKeeps
<1>3. CASE \/ Conclude \/ Complete \/ Committed \/ Catch \/ Mended \/ Terminated
           \/ Finally \/ Close \/ Return
  BY <1>3, ConcludeKeeps, CompleteKeeps, CommittedKeeps, CatchKeeps, MendedKeeps, TerminatedKeeps,
     FinallyKeeps, ReturnKeeps
<1>4. QED  BY <1>1, <1>2, <1>3 DEF Turn

\* The steps of the calls of a round.
LEMMA BatchKeeps ==
  ASSUME IInv, Batch
  PROVE  IInv'
<1>1. PICK c \in Calls :
        \/ Ask(c) \/ Intend(c) \/ Refuse(c) \/ Break(c) \/ RecordRefusal(c) \/ Enter(c)
        \/ (\E o \in {"done", "failed", "unknown"} : Settle(c, o)) \/ RecordResult(c)
  BY DEF Batch
<1>2. QED
  BY <1>1, AskKeeps, IntendKeeps, RefuseKeeps, RecordRefusalKeeps, EnterKeeps, SettleKeeps,
     RecordResultKeeps

\* The steps of the process.
LEMMA StepKeeps ==
  ASSUME IInv, Step
  PROVE  IInv'
<1>1. CASE ScriptStep \/ Turn \/ Batch
  BY <1>1, ScriptStepKeeps, TurnKeeps, BatchKeeps
<1>2. CASE \E t \in left.threads : Chat(t) \/ ResetTo(t) \/ Delete(t) \/ OtherWriter(t)
  <2>1. PICK t \in left.threads : Chat(t) \/ ResetTo(t) \/ Delete(t) \/ OtherWriter(t)
    BY <1>2
  <2>2. t \in Threads
    BY DEF IInv, TypeOK, Lefts
  <2>3. CASE Chat(t)
    BY <2>2, <2>3, BeginKeeps DEF Chat
  <2>4. CASE ResetTo(t)
    BY <2>2, <2>4, BeginKeeps DEF ResetTo
  <2>5. CASE Delete(t)
    BY <2>2, <2>5, BeginKeeps DEF Delete
  <2>6. CASE OtherWriter(t)
    BY <2>2, <2>6, OtherWriterKeeps
  <2>7. QED  BY <2>1, <2>3, <2>4, <2>5, <2>6
<1>3. CASE Ingest
  BY <1>3, BeginKeeps DEF Ingest
<1>4. CASE Destroy
  BY <1>4, BeginKeeps DEF Destroy
<1>5. CASE KeepThread \/ ClearThread \/ DeleteThread \/ IngestMessage \/ DestroySession
  BY <1>5, KeepThreadKeeps, ClearThreadKeeps, DeleteThreadKeeps, IngestMessageKeeps,
     DestroySessionKeeps
<1>6. CASE Open \/ Import \/ Unopened
  BY <1>6, OpenKeeps, ImportKeeps, UnopenedKeeps
<1>7. QED  BY <1>1, <1>2, <1>3, <1>4, <1>5, <1>6 DEF Step

\* IInv is inductive.
LEMMA NextKeeps == IInv /\ [Next]_vars => IInv'
<1> SUFFICES ASSUME IInv, [Next]_vars PROVE IInv'
  OBVIOUS
<1>1. CASE Step
  BY <1>1, StepKeeps
<1>2. CASE Crash
  BY <1>2, UnopenedKeeps
<1>3. CASE UNCHANGED vars
  <2>1. /\ disk' = disk /\ kernel' = kernel /\ run' = run /\ mem' = mem /\ effect' = effect
        /\ left' = left
    BY <1>3 DEF vars
  <2>2. TypeOK' /\ OpenNow' = OpenNow /\ Recorded'
    BY <2>1 DEF IInv, TypeOK, OpenNow, Recorded
  <2>3. QED  BY <2>1, <2>2 DEF IInv
<1>4. QED  BY <1>1, <1>2, <1>3 DEF Next

(* Every journal, operation and message has the shape the code gives it, and *)
(* an operation appends events exactly while it has some left to append.     *)
THEOREM TypesHold == Spec => []TypeOK
<1>1. IInv => TypeOK
  BY DEF IInv
<1>2. QED  BY <1>1, Begins, NextKeeps, PTL DEF Spec

(* Whatever fails, a tool message in the history says of its call what is    *)
(* true of it, and the caller is told of every handler that was entered      *)
(* (chat-agent.ts 805-1010: the batch, its receipts and the failure paths).  *)
THEOREM ChatIsTruthful == Spec => []Truthful
<1>1. IInv => Truthful
  <2> SUFFICES ASSUME IInv PROVE Truthful
    OBVIOUS
  <2>1. Honest
    <3>1. HonestIn(disk.hist, effect, OpenNow)
      BY DEF IInv, JournalHonest
    <3>2. QED  BY <3>1 DEF Honest, HonestIn, Tells
  <2>2. EffectsTold
    BY DEF IInv, Accounted, EffectsTold
  <2>3. QED  BY <2>1, <2>2 DEF Truthful
<1>2. QED  BY <1>1, Begins, NextKeeps, PTL DEF Spec
=============================================================================
