------------------------------ MODULE AppendLog ------------------------------
(* What a journal stream promises: a log that only grows, whose synced part *)
(* survives anything and whose unsynced end a power failure may cut.        *)
EXTENDS Naturals, Sequences

CONSTANT Events

VARIABLES log, durable

Init == log = <<>> /\ durable = 0

Extend == \E e \in Events : log' = Append(log, e) /\ UNCHANGED durable
Sync   == durable' = Len(log) /\ UNCHANGED log
Lose   == \E k \in durable..Len(log) : log' = SubSeq(log, 1, k) /\ UNCHANGED durable

Next == Extend \/ Sync \/ Lose
Spec == Init /\ [][Next]_<<log, durable>>
=============================================================================
