----------------------------- MODULE WorkBackend -----------------------------
(***************************************************************************)
(* The authority over one work item as WorkAttempt sees it: the legal      *)
(* transitions of LocalWorkBackend (src/framework/work/local-backend.ts)   *)
(* for one lease.  An operation is keyed, <<kind, nr>> or, for evidence,   *)
(* <<"evidence", verification>>; a receipt commits with its transition.    *)
(***************************************************************************)
EXTENDS FiniteSets

CONSTANT None   \* no evidence

Terminal  == {"completed", "needs_review", "blocked"}
Statuses  == {"ready", "claimed", "running", "released"} \cup Terminal
Submitted == [open |-> "claimed", start |-> "running", complete |-> "completed",
              review |-> "needs_review", release |-> "released"]

\* held: the attempt's lease is the item's;  live: it has not expired.
Untouched == [status |-> "ready", held |-> FALSE, live |-> FALSE, coverage |-> None, receipts |-> {}]

Claimable(b) == b.status \in {"ready", "released"} /\ ~(b.held /\ b.live)
Owned(b)     == b.held /\ b.live

\* What the backend checks before it commits a new key; e is the evidence.
Legal(b, kind) ==
  CASE kind = "open"     -> Claimable(b)
    [] kind = "start"    -> Owned(b) /\ b.status = "claimed"
    [] kind = "evidence" -> Owned(b) /\ b.status = "running"
    [] kind = "complete" -> /\ Owned(b) /\ b.status \in {"claimed", "running"}
                            /\ b.coverage # None /\ b.coverage.passed
    [] kind = "release"  -> b.held /\ b.status \in {"claimed", "running"}
    [] OTHER             -> Owned(b) /\ b.status \in {"claimed", "running"}

\* The item after a new key was committed.
After(b, key, e) ==
  LET kind == key[1] IN
  [b EXCEPT !.receipts = @ \cup {key},
            !.status   = IF kind \in DOMAIN Submitted THEN Submitted[kind] ELSE @,
            !.held     = (@ \/ kind = "open") /\ kind # "release",
            !.live     = (@ \/ kind = "open") /\ kind # "release",
            !.coverage = IF kind = "evidence" THEN e ELSE @]
=============================================================================
