-------------------------- MODULE ExtensionSessions ---------------------------
(***************************************************************************)
(* The registry of running extensions and MCP servers.  A session holds a  *)
(* lease of its own and leaves a marker that names it; the operating       *)
(* system drops the lease when the session dies, so that a marker whose    *)
(* lease can be had is stale.  A shutdown writes a request file and holds  *)
(* the registry lease until it is cancelled; when the process that asked   *)
(* dies, the lease goes and the file stays.                                *)
(***************************************************************************)
EXTENDS FiniteSets

CONSTANT Sessions

VARIABLES
    live,     \* sessions that hold their lease
    markers,  \* sessions with a marker file
    request,  \* extension-shutdown-request.json exists
    registry  \* a shutdown holds the registry lease

sessions == <<live, markers, request, registry>>

\* registerActiveExtension runs under the registry lease: it looks at the
\* request, takes the session's lease, replaces a stale marker and looks again.
Register(s) ==
    /\ ~ registry
    /\ ~ request
    /\ s \notin live
    /\ live' = live \cup {s}
    /\ markers' = markers \cup {s}
    /\ UNCHANGED <<request, registry>>

\* release: the marker first, then the lease.
UnmarkSession(s) ==
    /\ s \in live \cap markers
    /\ markers' = markers \ {s}
    /\ UNCHANGED <<live, request, registry>>

EndSession(s) ==
    /\ s \in live \ markers
    /\ live' = live \ {s}
    /\ UNCHANGED <<markers, request, registry>>

SessionDies(s) ==
    /\ s \in live
    /\ live' = live \ {s}
    /\ UNCHANGED <<markers, request, registry>>

BeginShutdown ==
    /\ ~ registry
    /\ registry' = TRUE
    /\ request' = TRUE
    /\ UNCHANGED <<live, markers>>

\* activeMarkers: markers whose session still holds its lease; the others go.
Active == markers \cap live

PruneMarkers ==
    /\ markers' = markers \cap live
    /\ UNCHANGED <<live, request, registry>>

CancelShutdown ==
    /\ request' = FALSE
    /\ registry' = FALSE
    /\ UNCHANGED <<live, markers>>

\* What is left of a shutdown whose process dies.
AbandonShutdown ==
    /\ registry' = FALSE
    /\ UNCHANGED <<live, markers, request>>
===============================================================================
