----------------------------- MODULE MCChatTurn -----------------------------
EXTENDS ChatTurn

CONSTANTS t1, t2

Plan(ops, faults, crashes, others, threads, calls) ==
  [ops |-> ops, faults |-> faults, crashes |-> crashes, others |-> others,
   threads |-> threads, calls |-> calls]

(* A failed append and a crash around two calls of a round, and across two   *)
(* turns; a crash inside a recovery; two threads, and another process        *)
(* writing them; a history that compaction leaves empty.                     *)
Plans == {Plan(1, 1, 1, 0, {t1}, <<1, 2>>),
          Plan(2, 1, 1, 0, {t1}, <<1>>),
          Plan(1, 0, 2, 0, {t1}, <<1, 2>>),
          Plan(2, 1, 1, 0, {t1, t2}, <<>>),
          Plan(2, 0, 1, 1, {t1, t2}, <<>>),
          Plan(3, 0, 1, 0, {t1}, <<1>>)}
OneCrash == {Plan(2, 0, 1, 0, {t1}, <<1>>)}

(* The agent never asks the journal for an event its validator refuses, not *)
(* even when it terminates a broken turn, mends an interrupted batch or      *)
(* recovers a journal that an earlier recovery left half mended.  Only a     *)
(* turn that a failed recovery left open is refused its successor.           *)
NoRefusal ==
  (run.at = "script" /\ kernel = disk /\ (run.started \/ kernel.turn = None \/ run.then = "import"))
    => Accepts(kernel, Head(run.todo)) \/ kernel.dead

(* A session that has been opened has no open work, however often a crash    *)
(* broke into its recovery, and between steps every call asked for in the    *)
(* history is answered in call order right behind it.                        *)
Answers(history, i) ==
  LET calls == history[i].calls IN
  /\ i + Len(calls) <= Len(history)
  /\ \A k \in DOMAIN calls :
       history[i + k].role = "tool" /\ history[i + k].call = calls[k]

Balanced ==
  /\ run.at = "import" => kernel.turn = None
  /\ disk.step = None =>
       \A i \in DOMAIN disk.hist : disk.hist[i].role = "assistant" => Answers(disk.hist, i)

(* What the journal is asked to hold it may hold, and what it holds is whole.   *)
WellFormed == NoRefusal /\ Balanced

(* What a tool message says is true of the effect: a call that the history  *)
(* reports as not executed never entered its handler, and never will.        *)
Honest ==
  \A i \in DOMAIN disk.hist : disk.hist[i].role = "tool" =>
    LET c == disk.hist[i].call IN
    /\ disk.hist[i].says \in {"rejected", "not executed"} => effect[c] = "no"
    /\ disk.hist[i].says \in {"done", "failed"} => effect[c] = disk.hist[i].says

(* Between turns the provider's continuation covers nothing that the model  *)
(* history does not hold: an answer that cannot be replayed is not continued *)
(* from (chat-agent.ts 1043).                                                *)
ContinuationCovered == disk.turn = None => IsPrefix(disk.adapter, disk.hist)

(* The same, but for a crash between the rollback of a turn and its end.     *)
ContinuationRestored == torn \/ ContinuationCovered

(* However a turn ends for its caller, a handler that was entered is among   *)
(* its receipts, and no receipt claims more than what happened.              *)
EffectsTold ==
  run.at \in {"done", "told"} =>
    \A c \in Calls :
      /\ (run.call[c] # "none" /\ effect[c] # "no") => run.told[c] # "none"
      /\ run.told[c] \in {"done", "failed"} => effect[c] = run.told[c]

(* Neither the model nor the caller is told what did not happen, or not told    *)
(* what did.                                                                 *)
Truthful == Honest /\ EffectsTold

(* Once every call of a round is answered in the history, nothing that ends  *)
(* the turn drops the answer of a call that may have acted: not a failure of *)
(* a later round, nor a crash.                                               *)
Tried(J) == {c \in Calls : effect[c] # "no" /\ \E i \in DOMAIN J.hist :
               J.hist[i].role = "tool" /\ J.hist[i].call = c}
Ending == kernel # None /\ disk.turn # None /\ disk.tools = <<>>
EffectsSurvive == [][Ending => Tried(disk) \subseteq Tried(disk')]_vars

(* The same, but for a crash that falls into the termination of a turn.      *)
EffectsRetained == [][Ending /\ ~torn => Tried(disk) \subseteq Tried(disk')]_vars

(* When a turn has ended well, nobody else writes its thread and this       *)
(* process has once agreed with the store on it, the conversation store      *)
(* holds exactly the journal's history (chat-agent.ts 683-718).              *)
OthersWrote(t) == \E i \in DOMAIN MessagesOf(mem[t]) : mem[t][i] = User(OtherText)
MemoryFollows ==
  LET t == kernel.thread IN
  run.at = "done" /\ (run.answered \/ run.checkpoint # None) /\ ~OthersWrote(t) /\ known[t] # None =>
     MessagesOf(mem[t]) = kernel.hist

(* A session whose journal is intact can be opened. *)
Reopens == run.at # "diverged"
=============================================================================
