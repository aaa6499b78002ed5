-------------------------------- MODULE Lineage ---------------------------------
(***************************************************************************)
(* Agents that spawn agents: the tree of sessions (lineage.ts, manager.ts,    *)
(* ws/commands/session.ts). A command checks the bounds on depth and fan-out,  *)
(* then awaits git or the fork of a thread, and the manager checks them again   *)
(* in the step that registers the child; other spawns, closes, reopens and      *)
(* kills come between, and the server may restart.                             *)
(***************************************************************************)
EXTENDS Naturals, FiniteSets

CONSTANTS
    MaxSessions,        \* bound: sessions are numbered in the order they are asked for
    None,
    MaxDepth,           \* MAX_SPAWN_DEPTH
    MaxLive,            \* MAX_LIVE_CHILDREN
    MaxRoots,           \* bound: sessions nobody spawned; lineage says nothing of them
    MaxClosed, MaxReopens, MaxKills, MaxRestarts        \* bounds; MaxClosed at a time; what a restart revives counts for MaxKills

SessionIds == 1 .. MaxSessions

VARIABLES
    phase,      \* of a session: "free", "forking", "checked", "draft", "started", "killing", "killed" or "refused"
    parent,     \* the session it was spawned by, in memory
    closed,
    rows,       \* sessions with a row in the store
    threads,    \* sessions for which the back end forked a thread
    spawnedBy,  \* history: the session it was spawned by, whatever a restart forgets
    reopened,   \* history: sessions that were opened again
    revived,    \* history: sessions a restart brought back that the registry had let go
    excused,    \* history: forks in the making that may be refused after their first check
    restarts

vars == <<phase, parent, closed, rows, threads, spawnedBy, reopened, revived, excused, restarts>>

Init ==
    /\ phase = [s \in SessionIds |-> "free"]
    /\ parent = [s \in SessionIds |-> None]
    /\ spawnedBy = parent
    /\ closed = {} /\ rows = {} /\ threads = {} /\ reopened = {} /\ revived = {} /\ excused = {}
    /\ restarts = 0

-----------------------------------------------------------------------------
(* The bounds, walked over the sessions the manager has. *)

\* the registry: closed sessions stay in it, killed ones are gone
Known == {s \in SessionIds : phase[s] \in {"draft", "started", "killing"}}

\* what the walk up from an id in A comes to is in A; an id that is gone ends it
ClosedUpwards(A) == \A r \in A \cap Known : parent[r] # None => parent[r] \in A

\* the ids the walk up from p sees, p and a last ancestor that is gone among them
Line(p) == {q \in SessionIds : \A A \in SUBSET SessionIds : p \in A /\ ClosedUpwards(A) => q \in A}

\* the depth of a child of p
SpawnDepth(p) == Cardinality(Line(p))

LiveChildren(p) == {s \in Known \ closed : parent[s] = p}

MaySpawn(p) == SpawnDepth(p) <= MaxDepth /\ Cardinality(LiveChildren(p)) < MaxLive

-----------------------------------------------------------------------------
(* Commands. *)

NextId == {s \in SessionIds : phase[s] = "free" /\ \A r \in 1 .. s - 1 : phase[r] # "free"}

Roots == {s \in SessionIds : phase[s] # "free" /\ parent[s] = None}

Forks == {s \in SessionIds : phase[s] = "forking" \/ (phase[s] = "checked" /\ s \in threads)}

\* A child of p appeared: a fork that was checked for p may find the place taken.
Overtaken(s, p) == excused' = (excused \cup {r \in Forks : parent[r] = p}) \ {s}

\* session.spawn: a root, or the child of a session that is known and has room
Spawn(s, p) ==
    /\ s \in NextId /\ p \in Known \cup {None}
    /\ IF p = None THEN Cardinality(Roots) < MaxRoots ELSE MaySpawn(p)
    /\ phase' = [phase EXCEPT ![s] = "checked"]
    /\ parent' = [parent EXCEPT ![s] = p]
    /\ spawnedBy' = [spawnedBy EXCEPT ![s] = p]
    /\ UNCHANGED <<closed, rows, threads, reopened, revived, excused, restarts>>

\* session.fork: of a session whose agent can fork; the bounds come before the fork
Fork(s, p) ==
    /\ s \in NextId /\ p \in Known \ closed /\ phase[p] # "draft" /\ MaySpawn(p)
    /\ phase' = [phase EXCEPT ![s] = "forking"]
    /\ parent' = [parent EXCEPT ![s] = p]
    /\ spawnedBy' = [spawnedBy EXCEPT ![s] = p]
    /\ UNCHANGED <<closed, rows, threads, reopened, revived, excused, restarts>>

Forked(s) ==
    /\ phase[s] = "forking"
    /\ \/ phase' = [phase EXCEPT ![s] = "checked"] /\ threads' = threads \cup {s}
       \/ phase' = [phase EXCEPT ![s] = "refused"] /\ UNCHANGED threads
    /\ UNCHANGED <<parent, closed, rows, spawnedBy, reopened, revived, excused, restarts>>

\* mutant: the command's check is taken for good
MayRegisterUnchecked(s) == TRUE

MayRegister(s) == parent[s] = None \/ MaySpawn(parent[s])

(* The rest of spawnPendingSession, in one step once the worktrees are listed: *)
(* the Session is built, which writes its row, and only then checked again.   *)
Register(s) ==
    /\ phase[s] = "checked"
    /\ rows' = rows \cup {s}
    /\ \/ /\ MayRegister(s)
          /\ phase' = [phase EXCEPT ![s] = "draft"]
          /\ Overtaken(s, parent[s])
       \/ /\ ~MayRegister(s)
          /\ phase' = [phase EXCEPT ![s] = "refused"]
          /\ UNCHANGED excused
    /\ UNCHANGED <<parent, closed, threads, spawnedBy, reopened, revived, restarts>>

\* the worktree is not one of the project
WorktreeUnknown(s) ==
    /\ phase[s] = "checked"
    /\ phase' = [phase EXCEPT ![s] = "refused"]
    /\ excused' = excused \cup ({s} \cap threads)
    /\ UNCHANGED <<parent, closed, rows, threads, spawnedBy, reopened, revived, restarts>>

\* the first message starts the agent
Promote(s) ==
    /\ phase[s] = "draft" /\ s \notin closed
    /\ phase' = [phase EXCEPT ![s] = "started"]
    /\ UNCHANGED <<parent, closed, rows, threads, spawnedBy, reopened, revived, excused, restarts>>

CloseSession(s) ==
    /\ phase[s] \in {"draft", "started"} /\ s \notin closed /\ Cardinality(closed) < MaxClosed
    /\ closed' = closed \cup {s}
    /\ UNCHANGED <<phase, parent, rows, threads, spawnedBy, reopened, revived, excused, restarts>>

\* nobody counts the children of the parent here
ReopenSession(s) ==
    /\ phase[s] \in {"draft", "started"} /\ s \in closed /\ Cardinality(reopened) < MaxReopens
    /\ closed' = closed \ {s}
    /\ reopened' = reopened \cup {s}
    /\ UNCHANGED <<phase, parent, rows, threads, spawnedBy, revived, restarts>>
    /\ Overtaken(s, parent[s])

KillSession(s) ==
    /\ phase[s] \in {"draft", "started"}
    /\ Cardinality(revived \cup {r \in SessionIds : phase[r] \in {"killing", "killed"}}) < MaxKills
    /\ phase' = [phase EXCEPT ![s] = "killing"]
    /\ UNCHANGED <<parent, closed, rows, threads, spawnedBy, reopened, revived, excused, restarts>>

\* the registry lets go of it; its row stays
Killed(s) ==
    /\ phase[s] = "killing"
    /\ phase' = [phase EXCEPT ![s] = "killed"]
    /\ UNCHANGED <<parent, closed, rows, threads, spawnedBy, reopened, revived, excused, restarts>>

(* A restart: every row is a session again, the killed and the refused ones   *)
(* too, and none has a parent, for rehydrate passes none and the constructor  *)
(* writes the row back.                                                      *)
Restart ==
    /\ restarts < MaxRestarts
    /\ restarts' = restarts + 1
    /\ phase' = [s \in SessionIds |-> IF s \in rows THEN "started"
                               ELSE IF phase[s] = "free" THEN "free" ELSE "refused"]
    /\ parent' = [s \in SessionIds |-> None]
    /\ revived' = revived \cup {s \in rows : phase[s] \in {"killed", "refused"}}
    /\ excused' = excused \cup Forks
    /\ UNCHANGED <<closed, rows, threads, spawnedBy, reopened>>

Next ==
    \/ \E s \in SessionIds :
         \/ \E p \in SessionIds \cup {None} : Spawn(s, p)
         \/ \E p \in SessionIds : Fork(s, p)
         \/ Forked(s) \/ Register(s) \/ WorktreeUnknown(s) \/ Promote(s)
         \/ CloseSession(s) \/ ReopenSession(s) \/ KillSession(s) \/ Killed(s)
    \/ Restart

Spec == Init /\ [][Next]_vars

-----------------------------------------------------------------------------
(* Properties. *)

\* Sessions that were spawned by another, as the app may still tell, but whose
\* parent a restart forgot: they are roots to the bounds.
Forgotten == {s \in SessionIds : parent[s] # spawnedBy[s]}

\* the sessions that run which p ever spawned
Spawned(p) == {s \in Known \ closed : spawnedBy[s] = p}

(* No session sits deeper than the bound below the last of its line that was  *)
(* killed, or that is a root since a restart, whatever was killed above it.   *)
DepthBounded ==
    \A s \in Known \ Forgotten : spawnedBy[s] # None => SpawnDepth(spawnedBy[s]) <= MaxDepth

(* However many spawns it had in flight at once, a session has no more live   *)
(* children than the bound that were spawned since the last restart, and all   *)
(* in all that many for each time the server ran: `lineage.ts:22` makes no     *)
(* exception, but rehydrate gives no session its parent back. Not counted are  *)
(* those that were closed and opened again, which nobody checks, and those     *)
(* that only a restart brought back.                                          *)
FanOutBounded ==
    \A p \in SessionIds :
        /\ Cardinality(Spawned(p) \ (reopened \cup Forgotten)) <= MaxLive
        /\ Cardinality(Spawned(p) \ (reopened \cup revived)) <= MaxLive * (restarts + 1)

(* A thread that was forked and has no session was overtaken by another child *)
(* of its parent, named a worktree that is none, or was cut off by a restart: *)
(* the check before the fork refuses all others before there is a thread.    *)
OrphansExplained == \A s \in threads : phase[s] = "refused" => s \in excused

SpawnsStayBounded == DepthBounded /\ FanOutBounded /\ OrphansExplained
=============================================================================
