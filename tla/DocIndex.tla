------------------------------- MODULE DocIndex -------------------------------
(***************************************************************************)
(* When the document index is rebuilt (docs/service.ts, server.ts,          *)
(* ws/commands/docs.ts): on the first watcher, after a change of the        *)
(* worktrees once the debounce has passed, and again when one of these fell *)
(* into a walk. The tree is a version number; a walk reads it when it ends  *)
(* or at any earlier time since it began.                                   *)
(***************************************************************************)
EXTENDS Integers

CONSTANTS Clients, MaxChanges, MaxMoves, MaxFailures

VARIABLES
    tree,        \* the version on disk
    watching,    \* sockets with watchingDocs
    shown,       \* the last docs.snapshot a socket was sent
    debounce,    \* the timer is armed
    walk,        \* the version the walk in flight has read, or Idle
    rescan,      \* rescanQueued
    cached,
    changes, moves, failures

vars == <<tree, watching, shown, debounce, walk, rescan, cached, changes, moves, failures>>
bounds == <<changes, moves, failures>>

\* no versions
Idle == -1       \* no walk in flight
Failed == -2     \* the snapshot with scanOk false
Unsent == -3

Init ==
    /\ tree = 1
    /\ watching = {}
    /\ shown = [c \in Clients |-> Unsent]
    /\ debounce = FALSE
    /\ walk = Idle /\ rescan = FALSE
    /\ cached = Unsent
    /\ changes = 0 /\ moves = 0 /\ failures = 0

\* mutant: a walk asked for while one is in flight is dropped
RunScanDropping == walk' = (IF walk = Idle THEN tree ELSE walk) /\ rescan' = rescan

RunScan ==
    IF walk = Idle THEN walk' = tree /\ rescan' = rescan
    ELSE walk' = walk /\ rescan' = TRUE

\* docs.watch and the close of a socket
SetWatchers(now) ==
    /\ watching' = now
    /\ IF watching = {} /\ now # {} THEN RunScan /\ UNCHANGED debounce
       ELSE IF watching # {} /\ now = {} THEN debounce' = FALSE /\ UNCHANGED <<walk, rescan>>
       ELSE UNCHANGED <<debounce, walk, rescan>>

Watch(c) ==
    /\ c \notin watching /\ moves < MaxMoves
    /\ moves' = moves + 1
    /\ SetWatchers(watching \cup {c})
    /\ shown' = IF cached = Unsent THEN shown ELSE [shown EXCEPT ![c] = cached]
    /\ UNCHANGED <<tree, cached, changes, failures>>

Unwatch(c) ==
    /\ c \in watching /\ moves < MaxMoves
    /\ moves' = moves + 1
    /\ SetWatchers(watching \ {c})
    /\ UNCHANGED <<tree, shown, cached, changes, failures>>

\* the worktree watcher reports; unwatched, nothing is remembered
OnWorktreeChange ==
    /\ changes < MaxChanges
    /\ changes' = changes + 1
    /\ tree' = tree + 1
    /\ debounce' = (watching # {})
    /\ UNCHANGED <<watching, shown, walk, rescan, cached, moves, failures>>

DebounceFires ==
    /\ debounce
    /\ debounce' = FALSE
    /\ RunScan
    /\ UNCHANGED <<tree, watching, shown, cached, bounds>>

\* the walk reads on: it may or may not see a change that came after its start
WalkReads ==
    /\ walk \notin {Idle, tree}
    /\ walk' = tree
    /\ UNCHANGED <<tree, watching, shown, debounce, rescan, cached, bounds>>

Publish(snapshot) ==
    IF watching = {} THEN UNCHANGED <<cached, shown>>
    ELSE /\ cached' = snapshot
         /\ shown' = [c \in Clients |-> IF c \in watching THEN snapshot ELSE shown[c]]

\* runScan's finally: one more walk if one was asked for and somebody still watches
WalkEnds ==
    /\ walk # Idle
    /\ \/ Publish(walk) /\ UNCHANGED failures
       \/ failures < MaxFailures /\ Publish(Failed) /\ failures' = failures + 1
    /\ rescan' = FALSE
    /\ walk' = IF rescan /\ watching # {} THEN tree ELSE Idle
    /\ UNCHANGED <<tree, watching, debounce, changes, moves>>

Next ==
    \/ \E c \in Clients : Watch(c) \/ Unwatch(c)
    \/ OnWorktreeChange \/ DebounceFires \/ WalkReads \/ WalkEnds

Spec == Init /\ [][Next]_vars

\* a set timer fires and a walk ends
Fairness == WF_vars(DebounceFires) /\ WF_vars(WalkEnds)

FairSpec == Spec /\ Fairness

-----------------------------------------------------------------------------
\* A socket that keeps watching ends up showing the tree as it is, or that the last walk
\* failed, wherever the changes fell: into a walk, a debounce, or a time without watchers
\* (service.ts, runScan: "without this the change is lost").
IndexCatchesUp ==
    \A c \in Clients : <>[](c \in watching) => <>[](shown[c] \in {tree, Failed})
=============================================================================
