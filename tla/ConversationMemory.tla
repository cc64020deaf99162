-------------------------- MODULE ConversationMemory --------------------------
(***************************************************************************)
(* Several processes over one thread of the conversation store,             *)
(* src/src/framework/memory.ts.  Each has a journal of its own, which is    *)
(* authoritative, and projects its history onto the thread.  The store's     *)
(* mutate() makes every operation atomic (module FileStore).                 *)
(***************************************************************************)
EXTENDS Integers, Sequences, SequencesExt

CONSTANTS
  Writers,   \* processes, each with one ConversationMemory on the store
  None,      \* no such thread; no snapshot
  MaxTurns   \* bound: the messages the writers add between them

INSTANCE ThreadProjection

VARIABLES
  thread,    \* what the store holds: a sequence of messages, or None
  hist,      \* the history of each writer's journal
  snapshot,  \* its entry in knownSnapshots
  turns,     \* the messages added so far
  seen       \* the others' messages a writer has written to the thread or read from it

vars == <<thread, hist, snapshot, turns, seen>>

Init ==
  /\ thread = None
  /\ hist = [w \in Writers |-> <<>>]
  /\ snapshot = [w \in Writers |-> None]
  /\ turns = 0
  /\ seen = [w \in Writers |-> {}]

NewMessage(w) == [by |-> w, n |-> turns + 1]
Adds == turns < MaxTurns /\ turns' = turns + 1
OfOthers(w, messages) == {m \in Range(messages) : m.by # w}

(* remember(); what a writer supplies or is handed it has seen.              *)
Remember(w, messages) ==
  /\ snapshot' = [snapshot EXCEPT ![w] = messages]
  /\ seen' = [seen EXCEPT ![w] = @ \union OfOthers(w, messages)]

Journal(w, history) == hist' = [hist EXCEPT ![w] = history]

(* A turn, and a rollback or compaction of the journal.                      *)
Extend(w) ==
  /\ Adds /\ Journal(w, Append(hist[w], NewMessage(w)))
  /\ UNCHANGED <<thread, snapshot, seen>>
Shorten(w) ==
  /\ \E i \in 1..Len(hist[w]) :
       \/ Journal(w, SubSeq(hist[w], 1, i - 1))
       \/ Journal(w, SubSeq(hist[w], i + 1, Len(hist[w])))
  /\ UNCHANGED <<thread, snapshot, turns, seen>>

(* Seeded fault: a thread that was left alone becomes the baseline.          *)
ProjectRemembering(w) ==
  /\ hist[w] # <<>> /\ Agrees(thread, snapshot[w], hist[w])
  /\ thread' = Projection(thread, snapshot[w], hist[w])
  /\ snapshot' = [snapshot EXCEPT ![w] = thread']
  /\ seen' = [seen EXCEPT ![w] = @ \union OfOthers(w, hist[w])]
  /\ UNCHANGED <<hist, turns>>

(* replaceMessages, when it does not throw.  The agent projects an empty       *)
(* history only to clear the thread (Clear).                                  *)
Project(w) ==
  /\ hist[w] # <<>> /\ Agrees(thread, snapshot[w], hist[w])
  /\ thread' = Projection(thread, snapshot[w], hist[w])
  /\ Remember(w, hist[w])
  /\ UNCHANGED <<hist, turns>>

(* reset(): the thread is cleared first, then the journal.                   *)
Clear(w) ==
  /\ hist[w] # <<>> /\ Agrees(thread, snapshot[w], <<>>)
  /\ thread' = <<>>
  /\ Remember(w, <<>>) /\ Journal(w, <<>>)
  /\ UNCHANGED turns

(* addMessages.                                                              *)
Add(w) ==
  /\ Adds
  /\ thread' = Append(MessagesOf(thread), NewMessage(w))
  /\ Remember(w, thread')
  /\ UNCHANGED hist

(* getRecent, which the model reaches through its get_thread tool.           *)
Look(w) ==
  /\ thread # None /\ Remember(w, thread)
  /\ UNCHANGED <<thread, hist, turns>>

(* getThread, when the agent switches to the thread.                         *)
Import(w) ==
  /\ thread' = MessagesOf(thread)
  /\ Remember(w, thread') /\ Journal(w, thread')
  /\ UNCHANGED turns

(* deleteThread.                                                             *)
Delete(w) ==
  /\ thread' = None
  /\ snapshot' = IF thread = None THEN snapshot ELSE [snapshot EXCEPT ![w] = None]
  /\ UNCHANGED <<hist, turns, seen>>

(* A new process: its journal survives, its snapshots do not.                *)
Restart(w) ==
  /\ snapshot' = [snapshot EXCEPT ![w] = None]
  /\ seen' = [seen EXCEPT ![w] = {}]
  /\ UNCHANGED <<thread, hist, turns>>

Next ==
  \E w \in Writers :
    \/ Extend(w) \/ Shorten(w) \/ Project(w) \/ Clear(w) \/ Add(w) \/ Look(w)
    \/ Import(w) \/ Delete(w) \/ Restart(w)

Spec == Init /\ [][Next]_vars

-----------------------------------------------------------------------------
(* A projection takes no message of another writer from the thread which the *)
(* projecting process has neither written there nor read: an extension it     *)
(* does not know is kept, however often the stale projection is repeated      *)
(* (memory.ts 200-203).                                                       *)
NoErasure ==
  [][\A w \in Writers :
       Project(w) => OfOthers(w, MessagesOf(thread))
                       \subseteq Range(MessagesOf(thread')) \union seen[w]]_vars
=============================================================================
