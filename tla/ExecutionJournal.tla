-------------------------- MODULE ExecutionJournal --------------------------
(***************************************************************************)
(* The event lifecycle of one execution in src/framework/execution-journal *)
(* .ts: which event validateExecutionEvent lets a stream append after the  *)
(* events of the same execution, and what recover reads out of them.       *)
(***************************************************************************)
EXTENDS Naturals, Sequences

Phases     == {"not_started", "started", "settled"}
Outcomes   == {"succeeded", "failed", "unknown"}

\* What an event says: its type, and the phase and outcome of its receipt.
Event(type, phase, outcome) == [type |-> type, phase |-> phase, outcome |-> outcome]

Prior(events) == IF events = <<>> THEN "none" ELSE events[Len(events)].type

\* validateExecutionEvent.
ValidNext(events, e) ==
  CASE e.type = "requested" -> Prior(events) = "none"
    [] e.type = "admitted"  -> Prior(events) = "requested"
    [] e.type = "rejected"  -> Prior(events) = "requested" /\ e.phase = "not_started"
    [] e.type = "started"   -> Prior(events) = "admitted"
    [] e.type = "settled"   -> \/ Prior(events) = "started" /\ e.phase # "started"
                               \/ Prior(events) = "admitted" /\ e.phase = "not_started"

Has(events, type) == \E n \in 1..Len(events) : events[n].type = type
Final(events)     == Prior(events) \in {"settled", "rejected"}

\* recover: the state a reopened journal gives the execution.
Recovered(events) ==
  IF Final(events) THEN "settled" ELSE IF Has(events, "started") THEN "unknown" ELSE "not_started"
=============================================================================
