----------------------------- MODULE MCRecords -----------------------------
(***************************************************************************)
(* Model-checking instance of what is left on record for the next process,   *)
(* turn or run to go by: private journals, session logs, threads, the        *)
(* receipts of a crew's runs, the continuation kept for a provider, the       *)
(* evidence and the catalog kept of one, and what was verified of a run.       *)
(* They have no state in common, so a behaviour exercises one of them, and    *)
(* `part` says which.                                                        *)
(***************************************************************************)
EXTENDS SecureJournal, TLC

CONSTANTS
  Kernels,                                  \* processes, users, calls or runs of a part
  MaxAppends, MaxUpsets,
  MaxTurns,
  Members, Rounds, MaxCalls, MaxIterations, Modes,
  Keys, Models, MaxMessages, MaxLosses,
  MaxVersions, MaxSnapshots, MaxDrops,
  Pages, MaxChanges, MaxRefreshes,
  Tasks, Methods, Coverage, Policies, MaxAttempts, MaxBundles, MaxDecisions

ASSUME KernelsAssumption ==
  /\ None \notin Kernels /\ Ghost \notin Kernels /\ None \notin Keys /\ None \notin Nat
  /\ None \notin [id : Nat, version : Nat, expires : BOOLEAN, state : {"fresh", "stale", "unavailable"}]
  /\ None \notin Seq([by : Kernels, n : Nat])
  /\ Members \in Nat /\ MaxCalls \in [0..Members -> Nat]

VARIABLES
  part,
  sLines, torn, stamp, backup, sOwner, sPc, events, known, appends, upsets,
  thread, hist, snapshot, turns, seen,
  mode, crew, iteration, status, round, batch, receipts, caller, entered, doubted,
  history, messages, state, responses, expired, turn, request, losses,
  source, since, cache, invalidated, clock, captures, agent, forgotten, overlapped, drops,
  version, notices, connected, stale, invalidations, refreshing, generation, catalog, listing,
  call, heard, refreshes,
  ended, task, claimed, attempts, bundles, decisions

Session == INSTANCE SessionStore WITH lines <- sLines, owner <- sOwner, pc <- sPc
Memory == INSTANCE ConversationMemory WITH Writers <- Kernels
Agents == INSTANCE AgentRuns
Adapters == INSTANCE AdapterContinuation WITH made <- messages
Context == INSTANCE ContextEvidence WITH
  Users <- Kernels, MaxLosses <- MaxDrops, losses <- drops
Mcp == INSTANCE McpConnection WITH Calls <- Kernels
Verified == INSTANCE Assurance WITH Runs <- Kernels, status <- ended

session == <<sLines, torn, stamp, backup, sOwner, sPc, events, known, appends, upsets>>
memory == <<thread, hist, snapshot, turns, seen>>
agents == <<mode, crew, iteration, status, round, batch, receipts, caller, entered, doubted>>
adapters == <<history, messages, state, responses, expired, turn, request, losses>>
context == <<source, since, cache, invalidated, clock, captures, agent, forgotten, overlapped, drops>>
mcp == <<version, notices, connected, stale, invalidations, refreshing, generation, catalog,
         listing, call, heard, refreshes>>
verified == <<ended, task, claimed, attempts, bundles, decisions>>

MCInit ==
  /\ part \in {"journal", "session", "memory", "agents", "adapters", "context", "mcp", "verified"}
  /\ Init /\ Session!Init /\ Memory!Init /\ Agents!Init /\ Adapters!Init
  /\ Context!Init /\ Mcp!Init /\ Verified!Init
  /\ part # "session" => sLines = <<>>
  /\ part # "agents" => mode = CHOOSE m \in Modes : TRUE
  /\ part # "context" => clock = "never" /\ \A k \in Kernels : agent[k].policy = "turn"

MCNext ==
  /\ UNCHANGED part
  /\ \/ part = "journal" /\ Next
        /\ UNCHANGED <<session, memory, agents, adapters, context, mcp, verified>>
     \/ part = "session" /\ Session!Next
        /\ UNCHANGED <<vars, memory, agents, adapters, context, mcp, verified>>
     \/ part = "memory" /\ Memory!Next
        /\ UNCHANGED <<vars, session, agents, adapters, context, mcp, verified>>
     \/ part = "agents" /\ Agents!Next
        /\ UNCHANGED <<vars, session, memory, adapters, context, mcp, verified>>
     \/ part = "adapters" /\ Adapters!Next
        /\ UNCHANGED <<vars, session, memory, agents, context, mcp, verified>>
     \/ part = "context" /\ Context!Next
        /\ UNCHANGED <<vars, session, memory, agents, adapters, mcp, verified>>
     \/ part = "mcp" /\ Mcp!Next
        /\ UNCHANGED <<vars, session, memory, agents, adapters, context, verified>>
     \/ part = "verified" /\ Verified!Next
        /\ UNCHANGED <<vars, session, memory, agents, adapters, context, mcp>>

MCSpec ==
  /\ MCInit
  /\ [][MCNext]_<<part, vars, session, memory, agents, adapters, context, mcp, verified>>

(* Of an agent's run, and of a policy.                                       *)
TwoRounds == [r \in 0..Members |-> IF r = 1 THEN 2 ELSE 1]
IndependentOracle == {[methods |-> Methods, coverage |-> Coverage, independent |-> TRUE]}

Symmetry == Permutations(Procs) \union Permutations(Kernels)

-----------------------------------------------------------------------------
(* SessionStore: one history, whoever writes (session.ts 324-400).           *)
NeverForks == Session!NeverForks

(* ConversationMemory: what a projection may drop (memory.ts 166-221).        *)
NoErasure == Memory!NoErasure

(* AgentRuns: what a run's record tells, and what a run that ended well         *)
(* leaves known (agents.ts 313-508, 735-765).                                *)
RunsTellAll == Agents!RecordsTellAll /\ Agents!NoDoubtUnderSuccess

(* AdapterContinuation: what the model is shown (openai.ts 435-478).          *)
SeesTheHistory == Adapters!SeesTheHistory

(* ContextEvidence: what evidence a model is shown (context.ts 265-312,        *)
(* chat-agent.ts 375-386).                                                   *)
Evidence == Context!Evidence

(* McpConnection: what a tool call rests on (providers/mcp/index.ts 166-306).  *)
CurrentTools == Mcp!CurrentTools

(* Assurance: what a fulfilment rests on (runs.ts 330-541).                    *)
Earned == Verified!Earned
=============================================================================
