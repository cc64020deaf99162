------------------------- MODULE AdapterContinuation -------------------------
(***************************************************************************)
(* What a stateful provider is sent: the Responses adapters of               *)
(* src/src/framework/adapters (openai.ts; xai.ts has the same functions).     *)
(* The provider keeps the conversation behind each response id and is sent     *)
(* the rest, or, when there is no id to go by or it has expired, everything.   *)
(* The owner of the history is a session: it grows by turns, with one adapter  *)
(* or another, loses a failed turn, is compacted.                            *)
(***************************************************************************)
EXTENDS Naturals, Sequences, SequencesExt

CONSTANTS
  Keys,         \* sessionStateKey of the adapters the session is used with
  Models,       \* part of an adapter's fingerprint
  None,
  MaxMessages,  \* bound: the messages ever made
  MaxLosses     \* bound: failed turns, compactions, expired responses

VARIABLES
  history,   \* the session's messages: [role, by, id], by whose replay it carries
  made,      \* how many messages were ever made
  state,     \* per key the continuation: a response and its model, or None
  responses, \* the provider's: the conversation behind each response id
  expired,   \* response ids it no longer knows
  turn,      \* None, or the adapter of the open turn and what it began with
  request,   \* None, or the request on its way: [previous, input]
  losses

vars == <<history, made, state, responses, expired, turn, request, losses>>

Init ==
  /\ history = <<>> /\ made = 0
  /\ state = [k \in Keys |-> None]
  /\ responses = <<>> /\ expired = {}
  /\ turn = None /\ request = None /\ losses = 0

Makes(n) == made + n <= MaxMessages /\ made' = made + n
Message(role, by, id) == [role |-> role, by |-> by, id |-> id]
Loss == losses < MaxLosses /\ losses' = losses + 1

(* A turn of one adapter begins with a user message.                         *)
Ask(k, m) ==
  /\ turn = None /\ Makes(1)
  /\ turn' = [key |-> k, model |-> m, history |-> history, state |-> state[k]]
  /\ history' = Append(history, Message("user", None, made'))
  /\ UNCHANGED <<state, responses, expired, request, losses>>

(* The host adds a message of its own.                                       *)
AppendMessage ==
  /\ turn = None /\ Makes(1)
  /\ \E role \in {"user", "assistant"} : history' = Append(history, Message(role, None, made'))
  /\ UNCHANGED <<state, responses, expired, turn, request, losses>>

(* Seeded fault: another provider's answers are left out of the rest.         *)
ContinuationSkippingOthers(k) ==
  LET boundary == SelectLastInSeq(history, LAMBDA x : x.role = "assistant" /\ x.by = k)
      suffix == SubSeq(history, boundary + 1, Len(history))
  IN IF boundary = 0 \/ suffix = <<>> THEN None
     ELSE SelectSeq(suffix, LAMBDA x : x.role # "assistant")

(* continuationInput: what followed the last answer of this provider, unless  *)
(* another's answer is among it.                                             *)
Continuation(k) ==
  LET boundary == SelectLastInSeq(history, LAMBDA x : x.role = "assistant" /\ x.by = k)
      suffix == SubSeq(history, boundary + 1, Len(history))
  IN IF boundary = 0 \/ suffix = <<>> \/ \E x \in Range(suffix) : x.role = "assistant"
     THEN None ELSE suffix

(* chat(): the id, if it was made with this key and model, and the rest;       *)
(* otherwise the whole history (responsesInputFromHistory).                  *)
Eligible == state[turn.key] # None /\ state[turn.key].model = turn.model
Send ==
  /\ turn # None /\ request = None
  /\ LET rest == Continuation(turn.key) IN
     request' = IF Eligible /\ rest # None
                THEN [previous |-> state[turn.key].id, input |-> rest]
                ELSE [previous |-> 0, input |-> history]
  /\ UNCHANGED <<history, made, state, responses, expired, turn, losses>>

(* The provider does not know the id any more: the same again, in full.        *)
Replay ==
  /\ request # None /\ request.previous \in expired
  /\ request' = [previous |-> 0, input |-> history]
  /\ UNCHANGED <<history, made, state, responses, expired, turn, losses>>

Seen == (IF request.previous = 0 THEN <<>> ELSE responses[request.previous]) \o request.input

(* The answer carries its replay and a new continuation; it ends the turn, or  *)
(* asks for a tool.                                                          *)
Respond ==
  /\ request # None /\ request.previous \notin expired /\ request' = None
  /\ \E last \in BOOLEAN :
       LET answer == Message("assistant", turn.key, made + 1)
           result == Message("tool", None, made + 2) IN
       /\ Makes(IF last THEN 1 ELSE 2)
       /\ responses' = Append(responses, Append(Seen, answer))
       /\ history' = history \o (IF last THEN <<answer>> ELSE <<answer, result>>)
       /\ state' = [state EXCEPT ![turn.key] = [id |-> Len(responses'), model |-> turn.model]]
       /\ turn' = IF last THEN None ELSE turn
  /\ UNCHANGED <<expired, losses>>

(* The turn fails and is rolled back, its continuation with it (ChatTurn).     *)
RollBack ==
  /\ turn # None /\ Loss
  /\ history' = turn.history /\ state' = [state EXCEPT ![turn.key] = turn.state]
  /\ turn' = None /\ request' = None
  /\ UNCHANGED <<made, responses, expired>>

(* Seeded fault: compaction leaves the continuations alone.                   *)
CompactKeeping ==
  /\ turn = None /\ Loss
  /\ \E n \in 1..Len(history) : history' = SubSeq(history, n + 1, Len(history))
  /\ UNCHANGED <<made, state, responses, expired, turn, request>>

(* projectAdapterSessionStates: a compacted history has no continuations.      *)
Compact ==
  /\ turn = None /\ Loss
  /\ \E n \in 1..Len(history) : history' = SubSeq(history, n + 1, Len(history))
  /\ state' = [k \in Keys |-> None]
  /\ UNCHANGED <<made, responses, expired, turn, request>>

Expire ==
  /\ Loss
  /\ \E r \in 1..Len(responses) : r \notin expired /\ expired' = expired \union {r}
  /\ UNCHANGED <<history, made, state, responses, turn, request>>

Next ==
  \/ \E k \in Keys, m \in Models : Ask(k, m)
  \/ AppendMessage \/ Send \/ Replay \/ Respond \/ RollBack \/ Compact \/ Expire

Spec == Init /\ [][Next]_vars

-----------------------------------------------------------------------------
(* What the model sees - the conversation the provider keeps behind the id,     *)
(* followed by what it is sent - is the session's history, whichever adapters   *)
(* took the turns before, whatever was rolled back, compacted or expired.      *)
SeesTheHistory == request # None => Seen = history
=============================================================================
