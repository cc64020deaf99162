---------------------------- MODULE McpConnection ----------------------------
(***************************************************************************)
(* A connection to an MCP server, src/src/providers/mcp/index.ts: the         *)
(* catalog is listed page by page, approved by the host and projected into    *)
(* tools; the server may change its tools at any time and says so with a      *)
(* notification, which need not arrive before the answers sent after it.      *)
(***************************************************************************)
EXTENDS Naturals, FiniteSets, Sequences

CONSTANTS
  Calls,        \* the tool calls of a behaviour
  Pages,        \* pages of the catalog
  None,
  MaxChanges,   \* bound: changes of the server's tools
  MaxRefreshes  \* bound: listings after the first

VARIABLES
  version,      \* the server's: how often its tools have changed
  notices,      \* notifications on their way, by version
  connected, stale, invalidations, refreshing,
  generation,
  catalog,      \* [generation, pages: the version each was listed at]; None before the first
  listing,      \* None, or the discover() in progress: [pages, before]
  call,         \* per call: None, or the projection it came from, its state, what it was sent on
  heard,        \* the newest version the client was notified of (history variable)
  refreshes

vars == <<version, notices, connected, stale, invalidations, refreshing, generation,
          catalog, listing, call, heard, refreshes>>

server == <<version, notices, heard>>
client == <<connected, stale, invalidations>>
catalogs == <<refreshing, generation, catalog, listing, refreshes>>

Init ==
  /\ version = 0 /\ notices = {} /\ heard = 0
  /\ connected = TRUE /\ stale = FALSE /\ invalidations = 0
  /\ refreshing = FALSE /\ generation = 0 /\ catalog = None /\ refreshes = 0
  /\ listing = [pages |-> <<>>, before |-> None]
  /\ call = [c \in Calls |-> None]

ServerChanges ==
  /\ version < MaxChanges
  /\ version' = version + 1 /\ notices' = notices \union {version'}
  /\ UNCHANGED <<heard, client, catalogs, call>>

(* The handler of tools/list_changed.                                        *)
Notified ==
  /\ connected
  /\ \E v \in notices :
       /\ notices' = notices \ {v}
       /\ heard' = IF v > heard THEN v ELSE heard
  /\ stale' = TRUE /\ invalidations' = invalidations + 1
  /\ UNCHANGED <<version, connected, catalogs, call>>

(* The transport closes, or the host disconnects, of which onclose tells only  *)
(* later, if at all.                                                         *)
Closed ==
  /\ connected /\ connected' = FALSE
  /\ stale' = TRUE /\ invalidations' \in {invalidations, invalidations + 1}
  /\ UNCHANGED <<server, catalogs, call>>

-----------------------------------------------------------------------------
Active == {c \in Calls : call[c] # None /\ call[c].active}

(* Seeded fault: a refresh does not wait for the calls under way.             *)
RefreshAnyTime ==
  /\ catalog # None /\ connected /\ ~refreshing
  /\ refreshes < MaxRefreshes /\ refreshes' = refreshes + 1
  /\ stale' = TRUE /\ refreshing' = TRUE
  /\ listing' = [pages |-> <<>>, before |-> invalidations]
  /\ UNCHANGED <<server, connected, invalidations, generation, catalog, call>>

(* refreshCatalog, up to the first await.                                    *)
Refresh ==
  /\ catalog # None /\ connected /\ Active = {} /\ ~refreshing
  /\ refreshes < MaxRefreshes /\ refreshes' = refreshes + 1
  /\ stale' = TRUE /\ refreshing' = TRUE
  /\ listing' = [pages |-> <<>>, before |-> invalidations]
  /\ UNCHANGED <<server, connected, invalidations, generation, catalog, call>>

(* discover(): one page after the other.                                     *)
ListPage ==
  /\ connected /\ listing # None /\ Len(listing.pages) < Pages
  /\ listing' = [listing EXCEPT !.pages = Append(@, version)]
  /\ UNCHANGED <<server, client, refreshing, generation, catalog, call, refreshes>>

(* Seeded fault: a refresh vouches for its catalog whatever was heard         *)
(* meanwhile.                                                                *)
DiscoveredFresh ==
  /\ listing # None /\ Len(listing.pages) = Pages
  /\ generation' = generation + 1
  /\ catalog' = [generation |-> generation', pages |-> listing.pages]
  /\ stale' = IF refreshing THEN FALSE ELSE stale
  /\ refreshing' = FALSE /\ listing' = None
  /\ UNCHANGED <<server, connected, invalidations, call, refreshes>>

(* The host has approved the tools; what was heard since the listing began    *)
(* leaves the catalog stale.                                                 *)
Discovered ==
  /\ listing # None /\ Len(listing.pages) = Pages
  /\ generation' = generation + 1
  /\ catalog' = [generation |-> generation', pages |-> listing.pages]
  /\ stale' = IF refreshing THEN invalidations # listing.before ELSE stale
  /\ refreshing' = FALSE /\ listing' = None
  /\ UNCHANGED <<server, connected, invalidations, call, refreshes>>

(* A page is refused or repeats a tool, the host refuses: the catalog stays,   *)
(* stale.                                                                    *)
DiscoveryFails ==
  /\ catalog # None /\ listing # None
  /\ refreshing' = FALSE /\ listing' = None
  /\ UNCHANGED <<server, client, generation, catalog, call, refreshes>>

-----------------------------------------------------------------------------
(* createTools() projects the catalog of the time; its handlers may be called  *)
(* at any time.                                                              *)
Project(c) ==
  /\ call[c] = None /\ catalog # None
  /\ call' = [call EXCEPT ![c] =
       [from |-> catalog.generation, active |-> FALSE, sent |-> None, heard |-> 0]]
  /\ UNCHANGED <<server, client, catalogs>>

(* The guard of the handler and, with no await in between, the call, unless it *)
(* was aborted or is late.                                                    *)
Dispatch(c) ==
  /\ call[c] # None /\ call[c].sent = None
  /\ connected /\ ~stale /\ call[c].from = catalog.generation
  /\ call' = [call EXCEPT ![c].active = TRUE, ![c].sent = catalog.pages, ![c].heard = heard]
  /\ UNCHANGED <<server, client, catalogs>>

(* The answer comes, or the call fails, and its outcome is unknown.            *)
Answer(c) ==
  /\ c \in Active /\ call' = [call EXCEPT ![c].active = FALSE]
  /\ UNCHANGED <<server, client, catalogs>>

Next ==
  \/ ServerChanges \/ Notified \/ Closed
  \/ Refresh \/ ListPage \/ Discovered \/ DiscoveryFails
  \/ \E c \in Calls : Project(c) \/ Dispatch(c) \/ Answer(c)

Spec == Init /\ [][Next]_vars

-----------------------------------------------------------------------------
(* A tool is called only as its definition stood after the last change the     *)
(* client had heard of, whichever page it was on, whichever projection the     *)
(* caller kept, and whatever was heard while the catalog was listed and        *)
(* approved; and no catalog is replaced under a call.                        *)
CurrentTools ==
  \A c \in Calls : (call[c] # None /\ call[c].sent # None) =>
    /\ \A i \in DOMAIN call[c].sent : call[c].sent[i] >= call[c].heard
    /\ call[c].active => catalog.generation = call[c].from
=============================================================================
