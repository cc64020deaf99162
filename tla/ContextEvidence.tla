--------------------------- MODULE ContextEvidence ---------------------------
(***************************************************************************)
(* The source evidence of a context provider: the snapshot cache that every  *)
(* user of a connection shares, src/src/framework/context.ts, and the chat    *)
(* agents that collect from it and put what is new into their next message,   *)
(* src/src/framework/chat-agent.ts.  A snapshot is the version of the source  *)
(* that was read, under an id of its own.                                    *)
(***************************************************************************)
EXTENDS Naturals, Sequences, SequencesExt

CONSTANTS
  Users,         \* chat agents that share the connection
  None,
  MaxVersions,   \* bound: the versions of the source
  MaxSnapshots,  \* bound: the snapshots ever captured
  MaxLosses      \* bound: failed reads and dropped messages

VARIABLES
  source,      \* the source's version
  since,       \* its version when the connection was last invalidated
  cache,       \* the cached snapshot, None while there is none
  invalidated, \* is the connection in invalidatedConnections?
  clock,       \* before or after the time at which snapshots expire; never
  captures,    \* snapshots captured so far
  agent,       \* per agent: its policy, where it is, what it holds and has shown
  forgotten,   \* per agent: ids whose message was dropped (history variable)
  overlapped,  \* has a collection begun during another? (history variable)
  losses

vars == <<source, since, cache, invalidated, clock, captures, agent, forgotten, overlapped, losses>>

New(policy) ==
  [policy |-> policy, at |-> "new", late |-> FALSE, asked |-> 0, previous |-> None,
   read |-> None, holds |-> None, shown |-> <<>>, puts |-> FALSE]

Init ==
  /\ source = 1 /\ since = 0 /\ cache = None /\ invalidated = FALSE /\ clock \in {"before", "never"}
  /\ captures = 0 /\ overlapped = FALSE /\ losses = 0
  /\ \E policy \in [Users -> {"session", "turn"}] : agent = [a \in Users |-> New(policy[a])]
  /\ forgotten = [a \in Users |-> {}]

(* The source changes; the host may know and call invalidateContext.         *)
Change ==
  /\ source < MaxVersions /\ source' = source + 1
  /\ \/ invalidated' = TRUE /\ since' = source'
     \/ UNCHANGED <<invalidated, since>>
  /\ UNCHANGED <<cache, clock, captures, agent, forgotten, overlapped, losses>>

TimePasses ==
  /\ clock = "before" /\ clock' = "after"
  /\ UNCHANGED <<source, since, cache, invalidated, captures, agent, forgotten, overlapped, losses>>

Loss == losses < MaxLosses /\ losses' = losses + 1

-----------------------------------------------------------------------------
(* captured(): what had expired when the call began is stale.                *)
Captured(version, expires, state, began) ==
  [id |-> captures + 1, version |-> version, expires |-> expires,
   state |-> IF expires /\ began /\ state # "unavailable" THEN "stale" ELSE state]
Captures == captures < MaxSnapshots /\ captures' = captures + 1

(* refreshSourceContext, once collected: what the agent did not hold before   *)
(* is put into its message; at its creation, into the system prompt.         *)
Told(a, r, snapshot, new) ==
  agent' = [agent EXCEPT ![a] =
    [r EXCEPT !.at = IF r.holds = None THEN "idle" ELSE "turn", !.holds = snapshot,
       !.previous = None, !.read = None, !.late = FALSE, !.puts = new,
       !.shown = IF new THEN Append(@, snapshot.id) ELSE @]]

(* Seeded fault: what the agent is given is new when it has read it itself.   *)
GivenWhenRead(a, r, snapshot) == Told(a, r, snapshot, r.holds = None \/ r.read # None)

Given(a, r, snapshot) == Told(a, r, snapshot, r.holds = None \/ r.holds.id # snapshot.id)

(* collectContextSnapshots, served from the cache.                           *)
Collecting(a) == [agent[a] EXCEPT !.late = (clock = "after"), !.asked = since]
Overlaps(a) ==
  overlapped' = (overlapped \/ \E b \in Users \ {a} : agent[b].at \in {"asking", "answered"})
Refreshes(a) == cache = None \/ agent[a].policy = "turn" \/ invalidated

Serve(a) ==
  /\ agent[a].at \in {"new", "idle"} /\ ~Refreshes(a) /\ Overlaps(a)
  /\ IF cache.state # "stale" /\ cache.expires /\ clock = "after"
     THEN Captures /\ cache' = Captured(cache.version, TRUE, "stale", TRUE)
     ELSE UNCHANGED <<captures, cache>>
  /\ Given(a, Collecting(a), cache')
  /\ UNCHANGED <<source, since, invalidated, clock, forgotten, losses>>

(* It refreshes: up to the await of the provider's answer.                   *)
Refresh(a) ==
  /\ agent[a].at \in {"new", "idle"} /\ Refreshes(a) /\ Overlaps(a)
  /\ invalidated' = FALSE
  /\ agent' = [agent EXCEPT ![a] = [Collecting(a) EXCEPT !.at = "asking", !.previous = cache]]
  /\ UNCHANGED <<source, since, cache, clock, captures, forgotten, losses>>

(* The provider reads its source.                                            *)
Read(a) ==
  /\ agent[a].at = "asking"
  /\ \/ UNCHANGED losses /\ agent' = [agent EXCEPT ![a].at = "answered",
          ![a].read = [version |-> source, expires |-> clock = "before"]]
     \/ Loss /\ agent' = [agent EXCEPT ![a].at = "answered"]
  /\ UNCHANGED <<source, since, cache, invalidated, clock, captures, forgotten, overlapped>>

(* Seeded fault: the invalidation is taken back when the answer has come.     *)
StoreValidating(a) ==
  LET r == agent[a] IN
  /\ r.at = "answered" /\ r.read # None /\ Captures
  /\ cache' = Captured(r.read.version, r.read.expires, "fresh", r.late)
  /\ invalidated' = FALSE
  /\ Given(a, r, cache')
  /\ UNCHANGED <<source, since, clock, forgotten, overlapped, losses>>

(* The answer is stored, whatever was stored since, and returned.             *)
Store(a) ==
  LET r == agent[a] IN
  /\ r.at = "answered" /\ r.read # None /\ Captures
  /\ cache' = Captured(r.read.version, r.read.expires, "fresh", r.late)
  /\ Given(a, r, cache')
  /\ UNCHANGED <<source, since, invalidated, clock, forgotten, overlapped, losses>>

(* The read failed: what was there before, marked as stale.                  *)
Retain(a) ==
  LET r == agent[a] IN
  /\ r.at = "answered" /\ r.read = None /\ Captures
  /\ cache' = IF r.previous = None THEN Captured(0, FALSE, "unavailable", r.late)
              ELSE Captured(r.previous.version, r.previous.expires, "stale", r.late)
  /\ Given(a, r, cache')
  /\ UNCHANGED <<source, since, invalidated, clock, forgotten, overlapped, losses>>

-----------------------------------------------------------------------------
Idle(a, kept) == agent' = [agent EXCEPT ![a].at = "idle", ![a].shown = kept, ![a].puts = FALSE]
Shown(a) == agent[a].shown

Complete(a) ==
  /\ agent[a].at = "turn" /\ Idle(a, Shown(a))
  /\ UNCHANGED <<source, since, cache, invalidated, clock, captures, forgotten, overlapped, losses>>

(* A message is dropped, and what it showed with it: the turn fails, or never  *)
(* starts because the message is over the history budget; a reset, a switch    *)
(* to another thread, a compaction.                                          *)
Drop(a, kept) ==
  /\ Loss /\ Idle(a, kept)
  /\ forgotten' = [forgotten EXCEPT ![a] = @ \union (Range(Shown(a)) \ Range(kept))]
  /\ UNCHANGED <<source, since, cache, invalidated, clock, captures, overlapped>>

RollBack(a) == agent[a].at = "turn" /\ agent[a].puts /\ Drop(a, Front(Shown(a)))

Compact(a) ==
  /\ agent[a].at = "idle"
  /\ \E n \in 2..Len(Shown(a)) :
       Drop(a, <<Head(Shown(a))>> \o SubSeq(Shown(a), n + 1, Len(Shown(a))))

Next ==
  \/ Change \/ TimePasses
  \/ \E a \in Users :
       \/ Serve(a) \/ Refresh(a) \/ Read(a) \/ Store(a) \/ Retain(a)
       \/ Complete(a) \/ RollBack(a) \/ Compact(a)

Spec == Init /\ [][Next]_vars

-----------------------------------------------------------------------------
(* Evidence that an agent is given as fresh was read after the last           *)
(* invalidation before it asked, whichever agent's collection answered that   *)
(* invalidation and whatever changed during the read - as long as no           *)
(* collection begins during another.                                         *)
NoneOutdated ==
  \A a \in Users :
    LET h == agent[a].holds IN
    (h # None /\ h.state = "fresh" /\ agent[a].at \in {"idle", "turn"} /\ ~overlapped)
      => h.version >= agent[a].asked

(* What the record of a request says it was made with (`holds`) is what the   *)
(* model was shown last, whoever else collected from the connection; except   *)
(* that the message with it may have been dropped.                           *)
RecordedIsShown ==
  \A a \in Users : agent[a].holds # None =>
    \/ agent[a].holds.id \in forgotten[a]
    \/ agent[a].holds.id = Last(Shown(a))

Evidence == NoneOutdated /\ RecordedIsShown
=============================================================================
