----------------------------- MODULE ControlStreams -----------------------------
(***************************************************************************)
(* The log streams of one connection to the control socket                   *)
(* (daemon/control-server.ts: handleConnection and dispatchRequest; the        *)
(* watch a stream keeps on the log file is backend.ts's). A chunk may bring   *)
(* several requests, which are handled together, before any of their answers; *)
(* how to stop a stream is only known once the backend has answered.          *)
(***************************************************************************)
EXTENDS Naturals, Sequences, FiniteSets

CONSTANTS
    Ids,            \* request ids, each used for one stream
    MaxCancels      \* bound

VARIABLES
    conn,           \* "open" or "closed"
    dispatched,     \* streams whose request waits for the backend
    pendingStops, cancelled, stops,     \* of handleConnection
    watches,        \* streams that watch the log file
    cancels,
    \* history
    opened,         \* ids used
    told            \* streams a cancel of which was answered `cancelled: true`

vars == <<conn, dispatched, pendingStops, cancelled, stops, watches, cancels, opened, told>>

Init ==
    /\ conn = "open"
    /\ dispatched = {} /\ pendingStops = {} /\ cancelled = {} /\ stops = {}
    /\ watches = {} /\ cancels = 0
    /\ opened = {} /\ told = {}

\* logs.tail --follow, and in the same chunk the cancel of it or of an earlier one
Follow(id) ==
    /\ conn = "open" /\ id \notin opened
    /\ opened' = opened \cup {id}
    /\ dispatched' = dispatched \cup {id}
    /\ pendingStops' = pendingStops \cup {id}
    /\ watches' = watches \cup {id}

\* mutant: a cancel that comes before the stop function is known is forgotten
CancelForgetting(id, pending) == cancelled' = cancelled

\* a stream that has not been answered yet is stopped when it is
CancelPending(id, pending) == cancelled' = IF id \in pending THEN cancelled \cup {id} ELSE cancelled

Cancel(id, pending, watching) ==
    /\ cancels < MaxCancels /\ cancels' = cancels + 1
    /\ told' = IF id \in stops \cup pending THEN told \cup {id} ELSE told
    /\ IF id \in stops
       THEN stops' = stops \ {id} /\ watches' = watching \ {id} /\ UNCHANGED cancelled
       ELSE CancelPending(id, pending) /\ watches' = watching /\ UNCHANGED stops

FollowAlone == \E id \in Ids : Follow(id) /\ UNCHANGED <<conn, cancelled, stops, cancels, told>>

FollowAndCancel ==
    \E id \in Ids \ opened, other \in Ids :
        /\ conn = "open"
        /\ opened' = opened \cup {id}
        /\ dispatched' = dispatched \cup {id}
        /\ pendingStops' = pendingStops \cup {id}
        /\ Cancel(other, pendingStops', watches \cup {id})
        /\ UNCHANGED conn

CancelAlone ==
    /\ conn = "open"
    /\ \E id \in Ids : Cancel(id, pendingStops, watches)
    /\ UNCHANGED <<conn, dispatched, pendingStops, opened>>

\* the backend has answered
Settled(id) ==
    IF id \in cancelled THEN watches' = watches \ {id} /\ cancelled' = cancelled \ {id} /\ UNCHANGED stops
    ELSE IF conn = "closed" THEN watches' = watches \ {id} /\ UNCHANGED <<stops, cancelled>>
    ELSE stops' = stops \cup {id} /\ UNCHANGED <<watches, cancelled>>

Settle(id) ==
    /\ id \in dispatched
    /\ dispatched' = dispatched \ {id}
    /\ pendingStops' = pendingStops \ {id}
    /\ Settled(id)
    /\ UNCHANGED <<conn, cancels, opened, told>>

\* the backend's own failure: nothing is watched, and what was asked to be cancelled stays noted
SettleFails(id) ==
    /\ id \in dispatched
    /\ dispatched' = dispatched \ {id}
    /\ pendingStops' = pendingStops \ {id}
    /\ watches' = watches \ {id}
    /\ UNCHANGED <<conn, cancelled, stops, cancels, opened, told>>

\* cleanup, on close or on an error of the socket
Close ==
    /\ conn = "open" /\ conn' = "closed"
    /\ watches' = watches \ stops
    /\ stops' = {} /\ cancelled' = {} /\ pendingStops' = {}
    /\ UNCHANGED <<dispatched, cancels, opened, told>>

Next ==
    \/ FollowAlone \/ FollowAndCancel \/ CancelAlone \/ Close
    \/ \E id \in Ids : Settle(id) \/ SettleFails(id)

Spec == Init /\ [][Next]_vars

-----------------------------------------------------------------------------
\* No watch on the log outlives its stream: once the backend has answered, a stream that watches is
\* one that can be stopped, on a socket that is open, and was not said to be cancelled. A cancel or a
\* close may come before the stop function is known (handleConnection: "rather than leak the fs.watch
\* handle").
NoWatchLeaks ==
    \A id \in watches \ dispatched : conn = "open" /\ id \in stops /\ id \notin told
=============================================================================
