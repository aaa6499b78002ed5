----------------------------- MODULE PortScanner -----------------------------
(***************************************************************************)
(* The watch-gated port scan: the cadence and the published snapshot       *)
(* (ports/service.ts), the health verdicts (ports/health.ts), the outage    *)
(* detector (ports/watch.ts) and the watchers' wiring (server.ts,           *)
(* ws/commands/ports.ts), for one endpoint owned by a worktree.             *)
(*                                                                         *)
(* A time stamp only matters here by being new: probedAt alternates, and    *)
(* an age grows by TimePasses up to the bound that is compared with it.     *)
(***************************************************************************)
EXTENDS Naturals

CONSTANTS
    Clients,       \* authenticated sockets
    Grace,         \* WATCH_DOWN_GRACE_MS in steps of TimePasses
    MaxChanges,    \* bound on what the machine's processes do
    MaxMoves,      \* bound on what users do
    MaxFailures    \* bound on lsof or ps failing

ASSUME PortScannerAssumption == Grace \in Nat \ {0} /\ {MaxChanges, MaxMoves, MaxFailures} \subseteq Nat

VARIABLES
    world,      \* what the endpoint really does
    client,     \* "gone", "open" or "watching", per socket
    view,       \* the last ports.snapshot a socket was sent
    armed,      \* the interval timer is set
    scan,       \* the scan in flight: its stage and what it read
    lastGood, cached,
    verdict,    \* the cached health of the endpoint; old is its TTL having passed
    probes,     \* health probes in flight
    watched,    \* the user asked to be told when it stops
    track,      \* the outage detector's entry for it
    told,       \* alerts sent since a scan last saw it serving
    changes, moves, failures

sockets == <<client, view>>
health == <<verdict, probes>>
outage == <<watched, track, told>>
bounds == <<changes, moves, failures>>
vars == <<world, sockets, armed, scan, lastGood, cached, health, outage, bounds>>

None == "none"
NoVerdict == [kind |-> None, probedAt |-> 0, old |-> FALSE]
NoTrack == [seenUp |-> FALSE, down |-> FALSE, age |-> 0, notified |-> FALSE]
NoPort == [bound |-> FALSE, kind |-> None, probedAt |-> 0, watched |-> FALSE]
NoSnapshot == [port |-> NoPort, scan |-> None]
NotScanning == [pc |-> "idle", seen |-> None]

Init ==
    /\ world \in {"absent", "serving"}
    /\ client = [c \in Clients |-> "open"]
    /\ view = [c \in Clients |-> NoSnapshot]
    /\ armed = FALSE
    /\ scan = NotScanning
    /\ lastGood = NoPort
    /\ cached = NoSnapshot
    /\ verdict = NoVerdict
    /\ probes = 0
    /\ watched \in BOOLEAN      \* loadWatchedPorts
    /\ track = NoTrack
    /\ told = 0
    /\ changes = 0 /\ moves = 0 /\ failures = 0

Watchers(cl) == {c \in Clients : cl[c] = "watching"}

\* runScan: a scan in flight makes another call return at once
RunScan == IF scan.pc = "idle" THEN [pc |-> "reading", seen |-> None] ELSE scan

-----------------------------------------------------------------------------
(* Users: the sockets, ports.watch, ports.watchPort, and a kill that worked. *)

Moved == moves < MaxMoves /\ moves' = moves + 1 /\ UNCHANGED <<changes, failures>>

\* setWatchers acts on the edges 0 -> 1 and 1 -> 0 only
SetWatchers(cl) ==
    LET was == Watchers(client) # {} is == Watchers(cl) # {} IN
    /\ client' = cl
    /\ armed' = is
    /\ scan' = IF ~was /\ is THEN RunScan ELSE scan

\* ports.watch {on: true}: the cached snapshot goes to a socket that was not watching
Watch(c) ==
    /\ client[c] = "open" /\ Moved
    /\ SetWatchers([client EXCEPT ![c] = "watching"])
    /\ view' = IF cached = NoSnapshot THEN view ELSE [view EXCEPT ![c] = cached]
    /\ UNCHANGED <<world, lastGood, cached, health, outage>>

\* ports.watch {on: false}, or the socket closes with the panel open
Unwatch(c, to) ==     \* to is "open" or "gone"
    /\ client[c] \in {"watching", "open"} /\ to # client[c] /\ Moved
    /\ SetWatchers([client EXCEPT ![c] = to])
    /\ view' = [view EXCEPT ![c] = NoSnapshot]
    /\ UNCHANGED <<world, lastGood, cached, health, outage>>

SetWatchedPort ==
    /\ Moved
    /\ watched' = ~watched
    /\ UNCHANGED <<world, sockets, armed, scan, lastGood, cached, health, track, told>>

\* rescanPorts after a kill released the endpoint
KillReleased ==
    /\ world # "absent" /\ Moved
    /\ world' = "absent"
    /\ scan' = RunScan
    /\ UNCHANGED <<sockets, armed, lastGood, cached, health, outage>>

-----------------------------------------------------------------------------
(* The scan. *)

Tick ==
    /\ armed /\ scan.pc = "idle"
    /\ scan' = RunScan
    /\ UNCHANGED <<world, sockets, armed, lastGood, cached, health, outage, bounds>>

ListenersRead ==
    /\ scan.pc = "reading"
    /\ \/ scan' = [pc |-> "read", seen |-> world] /\ UNCHANGED bounds
       \/ /\ failures < MaxFailures
          /\ scan' = [pc |-> "read", seen |-> "failed"]
          /\ failures' = failures + 1 /\ UNCHANGED <<changes, moves>>
    /\ UNCHANGED <<world, sockets, armed, lastGood, cached, health, outage>>

\* doScan's result: attribution reads the verdict and the watch list when the reads are over
Attributed ==
    IF scan.seen = "absent" THEN NoPort
    ELSE [bound |-> TRUE, kind |-> verdict.kind, probedAt |-> verdict.probedAt, watched |-> watched]

Serving(port) == port.bound /\ port.kind # "refused"

\* the detector's entry after a scan
Observe(port) ==
    IF ~watched THEN NoTrack
    ELSE IF Serving(port) THEN [NoTrack EXCEPT !.seenUp = TRUE]
    ELSE IF ~track.seenUp THEN track
    ELSE LET since == IF track.down THEN track.age ELSE 0 IN
         [track EXCEPT !.down = TRUE, !.age = since,
                       !.notified = track.notified \/ since >= Grace]

\* onPortDown is called when the entry turns notified
Told(port) ==
    IF watched /\ Serving(port) THEN 0
    ELSE IF ~track.notified /\ Observe(port).notified THEN told + 1
    ELSE told

\* a socket that watches gets every broadcast, and only a changed projection is one
Broadcast(snapshot) ==
    IF Watchers(client) = {} \/ snapshot = cached THEN UNCHANGED <<view, cached>>
    ELSE /\ cached' = snapshot
         /\ view' = [c \in Clients |-> IF c \in Watchers(client) THEN snapshot ELSE view[c]]

\* probe.refresh: forget the verdict of an endpoint that is gone, probe a missing or old one
Refresh(port) ==
    /\ verdict' = IF port.bound THEN verdict ELSE NoVerdict
    /\ probes' = IF port.bound /\ (verdict.kind = None \/ verdict.old) /\ probes < 2
                 THEN probes + 1 ELSE probes

ScanEnds ==
    /\ scan.pc = "read"
    /\ LET ok == scan.seen # "failed"
           port == IF ok THEN Attributed ELSE lastGood
       IN
       /\ lastGood' = port
       /\ track' = IF ok THEN Observe(port) ELSE track
       /\ told' = IF ok THEN Told(port) ELSE told
       /\ Broadcast([port |-> port, scan |-> IF ok THEN "ok" ELSE "failed"])
       /\ IF ok /\ Watchers(client) # {} THEN Refresh(port) ELSE UNCHANGED health
    /\ scan' = NotScanning
    /\ UNCHANGED <<world, client, armed, watched, bounds>>

\* a probe may time out whatever the endpoint does
ProbeAnswers ==
    /\ probes > 0
    /\ probes' = probes - 1
    /\ \E kind \in {IF world = "serving" THEN "ok" ELSE "refused", "refused"} :
          verdict' = [kind |-> kind, probedAt |-> 1 - verdict.probedAt, old |-> FALSE]
    /\ UNCHANGED <<world, sockets, armed, scan, lastGood, cached, outage, bounds>>

-----------------------------------------------------------------------------
(* The machine. *)

WorldChanges ==
    /\ changes < MaxChanges
    /\ changes' = changes + 1
    /\ \E w \in {"absent", "serving", "mute"} \ {world} : world' = w
    /\ UNCHANGED <<sockets, armed, scan, lastGood, cached, health, outage, moves, failures>>

TimePasses ==
    /\ verdict' = IF verdict.kind = None THEN verdict ELSE [verdict EXCEPT !.old = TRUE]
    /\ track' = IF track.down /\ track.age < Grace THEN [track EXCEPT !.age = @ + 1] ELSE track
    /\ <<verdict', track'>> # <<verdict, track>>
    /\ UNCHANGED <<world, sockets, armed, scan, lastGood, cached, probes, watched, told, bounds>>

UserMoves ==
    \/ \E c \in Clients : Watch(c) \/ Unwatch(c, "open") \/ Unwatch(c, "gone")
    \/ SetWatchedPort
    \/ KillReleased

Next == UserMoves \/ Tick \/ ListenersRead \/ ScanEnds \/ ProbeAnswers \/ WorldChanges \/ TimePasses

Spec == Init /\ [][Next]_vars

\* the timer of a live process fires, and a started read, probe or wait ends
Fairness ==
    /\ WF_vars(Tick) /\ WF_vars(ListenersRead) /\ WF_vars(ScanEnds)
    /\ WF_vars(ProbeAnswers) /\ WF_vars(TimePasses)

FairSpec == Spec /\ Fairness

-----------------------------------------------------------------------------
\* Sockets that watch all show the same snapshot, the cached one, however they arrived: a
\* newcomer is never handed one that the others did not get (service.ts, runScan).
ViewsAgree == \A c \in Watchers(client) : view[c] = cached

\* An outage is reported at most once: between two alerts a scan saw the port serving,
\* whatever is toggled, missed or unwatched in between (watch.ts, observe).
OneAlertPerOutage == told <= 1

\* A socket that keeps watching ends up showing what the machine does, whatever scans
\* failed, overlapped a kill, or were under way when it came (service.ts, setWatchers, runScan).
WatchersCatchUp ==
    \A c \in Clients :
        <>[](client[c] = "watching")
            => <>[](view[c] # NoSnapshot /\ view[c].port.bound = (world # "absent"))
=============================================================================
