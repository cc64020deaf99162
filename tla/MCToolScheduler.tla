--------------------------- MODULE MCToolScheduler ---------------------------
(* Model-checking instances of ToolScheduler.                              *)
EXTENDS ToolScheduler, TLC

\* At most two calls are aborted or run into their deadlines.
TwoInterruptions == Cardinality(aborted' \cup expired') <= 2
LiveSpec == Init /\ [][Next /\ TwoInterruptions]_vars /\ Fairness
=============================================================================
