--------------------------- MODULE MetricsCollector ----------------------------
(***************************************************************************)
(* The sampler behind the metrics panel (metrics/collector.ts) and what the  *)
(* server does with it (server.ts, ws/commands/metrics.ts): its cadence       *)
(* follows who watches, a tick is a series of awaits during which watchers     *)
(* come, go and close their sockets, and each sample goes to those it is for.   *)
(* Samples are numbered; the measured values are abstracted (CpuLedger has      *)
(* the CPU time).                                                             *)
(***************************************************************************)
EXTENDS Naturals, FiniteSets

CONSTANTS
    Clients,
    Background,         \* MAKIT_METRICS_BACKGROUND is not "0"
    MaxSamples, MaxToggles      \* bounds

VARIABLES
    socket,             \* of a client: "closed", "authed" or "watching"
    running, interval, watchers,        \* the collector; interval is "none" when no timer is armed
    tick,               \* the tick in flight: "none", or what it found: "coarse" or "fine"
    ring,               \* how many samples were taken; the ring holds them all here
    chart,              \* what each watching client has drawn
    toggles

collector == <<running, interval, watchers>>
vars == <<socket, collector, tick, ring, chart, toggles>>

Cadence(n) == IF n > 0 THEN "watched" ELSE "idle"

Init ==
    /\ socket = [c \in Clients |-> "closed"]
    /\ running = Background /\ interval = (IF Background THEN "idle" ELSE "none") /\ watchers = 0
    /\ tick = "none" /\ ring = 0
    /\ chart = [c \in Clients |-> {}]
    /\ toggles = 0

-----------------------------------------------------------------------------
(* recomputeMetricsWatchers: start, setWatchers and stop of the collector. *)

Recompute ==
    LET n == Cardinality({c \in Clients : socket'[c] = "watching"}) IN
    /\ watchers' = n
    /\ running' = (Background \/ n > 0)
    /\ interval' = IF running' THEN Cadence(n) ELSE "none"

\* mutant: a socket that closes takes its flag along, and nobody counts again
ClosedUncounted == UNCHANGED collector

Closed == Recompute

Auth(c) ==
    /\ socket[c] = "closed" /\ toggles < MaxToggles
    /\ socket' = [socket EXCEPT ![c] = "authed"]
    /\ chart' = [chart EXCEPT ![c] = {}]
    /\ toggles' = toggles + 1
    /\ UNCHANGED <<collector, tick, ring>>

HistoryDue(c) == socket[c] # "watching"

\* metrics.watch {on: true}: the history goes to one who was not watching yet
Watch(c) ==
    /\ socket[c] # "closed" /\ toggles < MaxToggles
    /\ socket' = [socket EXCEPT ![c] = "watching"]
    /\ chart' = IF HistoryDue(c) THEN [chart EXCEPT ![c] = @ \cup 1 .. ring] ELSE chart
    /\ toggles' = toggles + 1
    /\ Recompute
    /\ UNCHANGED <<tick, ring>>

Unwatch(c) ==
    /\ socket[c] = "watching"
    /\ socket' = [socket EXCEPT ![c] = "authed"]
    /\ Recompute
    /\ UNCHANGED <<tick, ring, chart, toggles>>

Close(c) ==
    /\ socket[c] # "closed"
    /\ socket' = [socket EXCEPT ![c] = "closed"]
    /\ Closed
    /\ UNCHANGED <<tick, ring, chart, toggles>>

-----------------------------------------------------------------------------
(* onTick and tick. *)

\* the timer; one tick at a time, others are skipped
TickStarts ==
    /\ interval # "none" /\ tick = "none" /\ ring < MaxSamples
    /\ tick' = IF watchers = 0 THEN "coarse" ELSE "fine"
    /\ UNCHANGED <<socket, collector, ring, chart, toggles>>

\* idle samples are for every client, the others for those who watch now
Seen(c) == tick = "coarse" \/ socket[c] = "watching"

\* ps, the storage and the assembly are done: ring.push and onSample, though the collector be stopped
TickEnds ==
    /\ tick # "none" /\ tick' = "none"
    /\ ring' = ring + 1
    /\ chart' = [c \in Clients |-> IF socket[c] # "closed" /\ Seen(c) THEN chart[c] \cup {ring + 1} ELSE chart[c]]
    /\ UNCHANGED <<socket, collector, toggles>>

\* logged, and the timer stays
TickFails ==
    /\ tick # "none" /\ tick' = "none"
    /\ UNCHANGED <<socket, collector, ring, chart, toggles>>

Next ==
    \/ \E c \in Clients : Auth(c) \/ Watch(c) \/ Unwatch(c) \/ Close(c)
    \/ TickStarts \/ TickEnds \/ TickFails

Spec == Init /\ [][Next]_vars

-----------------------------------------------------------------------------
\* The fast timer runs exactly while somebody watches, and without background sampling no timer runs
\* otherwise, however the panel went away: a leaked flag would sample each second for ever.
CadenceFollowsWatchers ==
    interval = IF \E c \in Clients : socket[c] = "watching" THEN "watched"
               ELSE IF Background THEN "idle" ELSE "none"

\* A client that watches has every sample there is, those taken before it watched included, and
\* those whose tick was in flight when it began.
ChartHasNoGap == \A c \in Clients : socket[c] = "watching" => chart[c] = 1 .. ring

\* The panel is fed while it is open, and only then (metrics/collector.ts, server.ts).
PanelSafety == CadenceFollowsWatchers /\ ChartHasNoGap
=============================================================================
