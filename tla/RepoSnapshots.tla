----------------------------- MODULE RepoSnapshots -----------------------------
(***************************************************************************)
(* How a change on disk reaches the clients: the watches on a repository's   *)
(* git directory (worktree_watcher.ts), the snapshot a finished turn asks    *)
(* for (ws/throttle.ts) and broadcastReposSnapshot (server.ts), whose passes  *)
(* overlap: each lists the repositories with git, is shown, and is shown      *)
(* again with its pull requests.                                             *)
(*                                                                         *)
(* What a snapshot says is the number of the change it has seen last.         *)
(***************************************************************************)
EXTENDS Naturals, FiniteSets

CONSTANTS MaxChanges, MaxPasses, MaxOverlap, MaxFaults     \* bounds

VARIABLES
    listed,         \* the repository is a project
    linked,         \* .git/worktrees exists
    version,        \* changes so far to what a snapshot would say
    turn,           \* an agent is at work in it
    armed,          \* the watcher's `repos` holds the repository
    watches,        \* the watches that are attached, of git, inner and heads
    orphaned,       \* the inner watch is of a directory that was removed
    events,         \* the watches the system has an event or an error to deliver of
    debounce,       \* the watcher's timer
    throttle,       \* "open", "closed" for a second after a run, or "armed" for a trailing run
    generation, passes,
    shown, enriched,      \* the last snapshot sent, and the last with its pull requests
    faults,
    lost, broken    \* the last change whose notice or pass was lost; a watch failed for good

disk == <<listed, linked, version, turn>>
watcher == <<armed, watches, orphaned, events, debounce>>
fault == <<faults, lost, broken>>
vars == <<disk, watcher, throttle, generation, passes, shown, enriched, fault>>

Watch == {"git", "inner", "heads"}

\* arm
Arm == IF linked THEN Watch ELSE Watch \ {"inner"}

Init ==
    /\ listed \in BOOLEAN /\ linked \in BOOLEAN
    /\ version = 0 /\ turn = FALSE
    /\ armed = listed
    /\ watches = (IF listed THEN Arm ELSE {})
    /\ orphaned = FALSE /\ events = {} /\ debounce = FALSE
    /\ throttle = "open"
    /\ generation = 0 /\ passes = {}
    /\ shown = 0 /\ enriched = 0
    /\ faults = 0 /\ lost = 0 /\ broken = FALSE

-----------------------------------------------------------------------------
(* broadcastReposSnapshot. *)

\* WorktreeWatcher.sync: closing a repository's watches drops what they had to deliver
Sync(now) ==
    /\ armed' = now
    /\ IF now = armed THEN UNCHANGED <<watches, orphaned, events, broken>>
       ELSE /\ watches' = (IF now THEN Arm ELSE {})
            /\ orphaned' = FALSE /\ events' = {} /\ broken' = FALSE

Broadcast(now) ==
    /\ generation < MaxPasses /\ Cardinality(passes) < MaxOverlap
    /\ Sync(now)
    /\ generation' = generation + 1
    /\ passes' = passes \cup {[gen |-> generation + 1, phase |-> "listing", seen |-> 0]}

PassTo(pass, next) == passes' = (passes \ {pass}) \cup {next}
PassEnds(pass) == passes' = passes \ {pass}

\* listRepos, which reads the disk at some moment between its start and its answer
List(pass) ==
    /\ pass.phase = "listing"
    /\ PassTo(pass, [pass EXCEPT !.phase = "listed", !.seen = version])
    /\ UNCHANGED <<disk, watcher, throttle, generation, shown, enriched, fault>>

\* mutant: a pass shows what it found although a newer one has started
AnyGeneration(pass) == TRUE

Current(pass) == pass.gen = generation

ShowListed(pass) ==
    /\ pass.phase = "listed"
    /\ IF Current(pass)
       THEN shown' = pass.seen /\ PassTo(pass, [pass EXCEPT !.phase = "enriching"])
       ELSE PassEnds(pass) /\ UNCHANGED shown
    /\ UNCHANGED <<disk, watcher, throttle, generation, enriched, fault>>

\* enrichPrs has answered: lastEnrichedRepos, the poller's tracked set, and the second frame
ShowEnriched(pass) ==
    /\ pass.phase = "enriching"
    /\ IF Current(pass) THEN shown' = pass.seen /\ enriched' = pass.seen ELSE UNCHANGED <<shown, enriched>>
    /\ PassEnds(pass)
    /\ UNCHANGED <<disk, watcher, throttle, generation, fault>>

\* logged and left: no pass is retried
PassFails(pass) ==
    /\ faults < MaxFaults /\ faults' = faults + 1
    /\ PassEnds(pass)
    /\ lost' = IF Current(pass) THEN version ELSE lost
    /\ UNCHANGED <<disk, watcher, throttle, generation, shown, enriched, broken>>

-----------------------------------------------------------------------------
(* worktree_watcher.ts. *)

\* mutant: an event is reported, and the watch on .git/worktrees stays as it is
SyncInnerNever(ws) == ws

\* syncInner: a watch that is there is kept, though its directory may be another by now
SyncInner(ws) == IF linked THEN ws \cup {"inner"} ELSE ws \ {"inner"}

\* an event of a watch: `fire`, after .git had the inner watch follow its directory
Event(w) ==
    /\ w \in events \cap watches
    /\ watches' = IF w = "git" THEN SyncInner(watches) ELSE watches
    /\ orphaned' = (orphaned /\ "inner" \in watches')
    /\ events' = (events \ {w}) \cap watches'
    /\ debounce' = TRUE
    /\ UNCHANGED <<disk, armed, throttle, generation, passes, shown, enriched, fault>>

\* the error the inner watch may give when its directory has vanished: dropped, and `fire`; only an event
\* of .git attaches it to the next one
InnerVanished ==
    /\ orphaned /\ orphaned' = FALSE
    /\ watches' = watches \ {"inner"}
    /\ events' = events \ {"inner"}
    /\ debounce' = TRUE
    /\ broken' = (broken \/ (linked /\ "git" \notin events))
    /\ UNCHANGED <<disk, armed, throttle, generation, passes, shown, enriched, faults, lost>>

\* any other error of a watch. heads is armed again at once; inner waits for an event of .git, which
\* is never watched again. What was to be delivered is lost
WatchFails(w) ==
    /\ faults < MaxFaults /\ faults' = faults + 1
    /\ w \in watches
    /\ watches' = IF w = "heads" THEN watches ELSE watches \ {w}
    /\ orphaned' = (orphaned /\ w # "inner")
    /\ events' = events \ {w}
    /\ debounce' = (debounce \/ w = "inner")
    /\ lost' = IF w \in events THEN version ELSE lost
    /\ broken' = (broken \/ w # "heads")
    /\ UNCHANGED <<disk, armed, throttle, generation, passes, shown, enriched>>

\* onChange
DebounceFires ==
    /\ debounce /\ debounce' = FALSE
    /\ Broadcast(listed)
    /\ UNCHANGED <<disk, throttle, shown, enriched, faults, lost>>

-----------------------------------------------------------------------------
(* throttleTrailing, over the end of a turn. *)

Ask == throttle' = (IF throttle = "open" THEN "closed" ELSE "armed")

TurnEnds ==
    /\ turn /\ turn' = FALSE
    /\ Ask
    /\ IF throttle = "open" THEN Broadcast(listed) ELSE UNCHANGED <<armed, watches, orphaned, events, broken, generation, passes>>
    /\ UNCHANGED <<listed, linked, version, debounce, shown, enriched, faults, lost>>

SecondPasses ==
    /\ throttle # "open"
    /\ IF throttle = "armed" THEN throttle' = "closed" /\ Broadcast(listed)
       ELSE throttle' = "open" /\ UNCHANGED <<armed, watches, orphaned, events, broken, generation, passes>>
    /\ UNCHANGED <<disk, debounce, shown, enriched, faults, lost>>

-----------------------------------------------------------------------------
(* What happens to the repository. *)

Change == version < MaxChanges /\ version' = version + 1

Attached == watches \ (IF orphaned THEN {"inner"} ELSE {})

\* the watches see what happens while they are attached
Seen(ws) == events' = events \cup (ws \cap Attached)

Disk == UNCHANGED <<armed, watches, debounce, throttle, generation, passes, shown, enriched, fault>>

\* a commit, or a branch made or moved
RefMoves == listed /\ Change /\ Seen({"heads"}) /\ Disk /\ UNCHANGED <<listed, linked, turn, orphaned>>

\* a worktree of an existing branch comes or goes: the first one brings .git/worktrees, the last takes it
WorktreeMoves ==
    /\ listed /\ Change
    /\ \E there \in BOOLEAN : linked' = there /\ (linked \/ there)
    /\ Seen(IF linked = linked' THEN {"inner"} ELSE {"git"})
    /\ orphaned' = (orphaned \/ ("inner" \in watches /\ ~linked'))
    /\ Disk /\ UNCHANGED <<listed, turn>>

TurnStarts ==
    /\ listed /\ ~turn /\ version < MaxChanges /\ turn' = TRUE
    /\ UNCHANGED <<listed, linked, version, orphaned, events>> /\ Disk

\* the agent edits files: no watch sees it, the turn's end asks for it
AgentEdits ==
    /\ turn /\ Change
    /\ UNCHANGED <<listed, linked, turn, orphaned, events>> /\ Disk

\* project.add and project.remove broadcast
ProjectsChange ==
    /\ ~turn /\ Change /\ listed' = ~listed
    /\ Broadcast(~listed)
    /\ UNCHANGED <<linked, turn, debounce, throttle, shown, enriched, faults, lost>>

-----------------------------------------------------------------------------
PassStep == \E pass \in passes : List(pass) \/ ShowListed(pass) \/ ShowEnriched(pass)

Next ==
    \/ PassStep \/ (\E pass \in passes : PassFails(pass))
    \/ \E w \in Watch : Event(w) \/ WatchFails(w)
    \/ InnerVanished \/ DebounceFires
    \/ TurnEnds \/ SecondPasses
    \/ RefMoves \/ WorktreeMoves \/ TurnStarts \/ AgentEdits \/ ProjectsChange

\* the system delivers events, timers fire, git and the forge answer; whoever changes the disk, and an
\* agent, owes nothing
Fairness ==
    /\ WF_vars(PassStep)
    /\ WF_vars(\E w \in Watch : Event(w))
    /\ WF_vars(DebounceFires) /\ WF_vars(SecondPasses)

Spec == Init /\ [][Next]_vars /\ Fairness

-----------------------------------------------------------------------------
\* What the clients were shown is never replaced by what an overtaken pass had read before it: the
\* passes overlap, and a slow one may finish last (reposSnapshotGeneration).
NewestWins == [][shown' >= shown]_vars

\* Every change is shown in the end, with and without pull requests, unless a pass or a watch failed
\* on it: between a directory's appearance and its watch, during a listing, within the second after
\* another turn's snapshot. Nor is it if .git/worktrees was removed and made again before the watcher
\* heard of either: it keeps the watch on the one that is gone (`rw.inner ??=`).
SnapshotsCatchUp ==
    <>[](~turn /\ ~broken /\ ~orphaned /\ lost <= enriched /\ generation < MaxPasses)
        => <>[](shown = version /\ enriched = version)
=============================================================================
