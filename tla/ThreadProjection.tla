-------------------------- MODULE ThreadProjection --------------------------
(***************************************************************************)
(* The compatibility projection of a journal in the conversation store,     *)
(* src/src/framework/memory.ts, as pure operators over one thread.  A       *)
(* thread is None when the store has no such key.  known is what this       *)
(* ConversationMemory instance last saw or wrote there (knownSnapshots),    *)
(* None before it touched the thread.                                       *)
(***************************************************************************)
EXTENDS Sequences, SequencesExt
CONSTANT None

MessagesOf(thread) == IF thread = None THEN <<>> ELSE thread

(* replaceMessages: may desired replace what the thread holds now?          *)
Agrees(thread, known, desired) ==
  LET current == MessagesOf(thread) IN
  \/ current = known
  \/ current = desired
  \/ /\ known = None
     /\ desired = <<>> \/ IsPrefix(desired, current) \/ IsPrefix(current, desired)
  \/ /\ known # None
     /\ desired # <<>> /\ IsPrefix(known, current)
     /\ IsPrefix(desired, current) \/ IsPrefix(current, desired)

(* A longer thread that extends desired is left alone, except when this     *)
(* instance believes the thread is what it last saw.                        *)
Projection(thread, known, desired) ==
  LET current == MessagesOf(thread) IN
  IF current # known /\ desired # <<>> /\ IsStrictPrefix(desired, current)
  THEN thread ELSE desired
=============================================================================
