------------------------------- MODULE PortKill -------------------------------
(***************************************************************************)
(* Terminating the process behind one endpoint (ports/service.ts: killPort, *)
(* killOrphans; ports/kill.ts), while processes exit, pids are reused, the  *)
(* endpoint changes hands, and the worktree is removed or comes back.       *)
(*                                                                         *)
(* A scan is three commands; the two reads that can disagree are a step     *)
(* each. startedAt is unique to a process: "target" and "reborn" share a    *)
(* pid and differ in it (two starts within the tolerance are left out).     *)
(***************************************************************************)
EXTENDS Naturals

CONSTANT Retries       \* POST_SIGNAL_SCAN_RETRIES

VARIABLES
    holder,     \* who listens on the endpoint: "target", "reborn", "other" or "nobody"
    pidUser,    \* who has the target's pid: "target", "reborn" or "nobody"
    active,     \* the worktree of these processes is in the repos snapshot
    recorded,   \* port-history.json has it: without it a removed worktree has no orphans
    role,       \* what the target is: "plain", "session", "server" or "foreign" (another uid)
    kill        \* the attempt in progress

world == <<holder, pidUser, active, recorded, role>>
vars == <<world, kill>>

\* the fields after tries are history: the endpoint was let go or disowned since the attempt
\* began, the pid was reused since the deciding scan read it, who was signalled, as what
NoKill == [pc |-> "none", by |-> "user", phase |-> 1, saw |-> "nobody", tries |-> 0, outcome |-> "none",
           letGo |-> FALSE, disowned |-> FALSE, reused |-> FALSE, struck |-> "nobody", orphan |-> FALSE]

Init ==
    /\ holder = "target" /\ pidUser = "target"
    /\ active \in BOOLEAN /\ recorded \in BOOLEAN
    /\ role \in {"plain", "session", "server", "foreign"}
    /\ kill = NoKill

Orphan == ~active /\ recorded

-----------------------------------------------------------------------------
(* One scan and the whitelist. *)

\* mutant: the pid alone identifies the process
SameProcessByPid(saw, user) == saw \in {"target", "reborn"}

\* R3: the pid found at the endpoint, with the start time ps gives for it
SameProcess(saw, user) == saw \in {"target", "reborn"} /\ user = "target"

Classify(saw) ==
    CASE saw = "nobody" -> "not_found"
      [] saw # "nobody" /\ ~SameProcess(saw, pidUser) -> "identity_mismatch"
      [] SameProcess(saw, pidUser) /\ ~active /\ ~recorded -> "not_owned"
      [] SameProcess(saw, pidUser) /\ (active \/ recorded) /\ role = "server" -> "refused_self"
      [] SameProcess(saw, pidUser) /\ (active \/ recorded) /\ role = "session" -> "refused_session"
      [] OTHER -> "signal"

\* what killPort reports when the scan after a signal does not say to signal (again)
AfterSignal(decision) ==
    CASE decision = "scan_unavailable" -> "scan_unavailable"
      [] decision # "scan_unavailable" /\ kill.phase = 2 -> "released"
      [] OTHER -> "force-killed"

Finish(outcome) == [kill EXCEPT !.pc = "done", !.outcome = outcome]

Decided(decision) ==
    CASE decision = "scan_unavailable" /\ kill.phase > 1 /\ kill.tries < Retries ->
            [kill EXCEPT !.pc = "listeners", !.tries = @ + 1]
      [] decision = "signal" /\ kill.phase < 3 -> [kill EXCEPT !.pc = "signal", !.orphan = Orphan, !.reused = FALSE]
      [] decision = "signal" /\ kill.phase = 3 -> Finish("survived")
      [] decision # "signal" /\ kill.phase = 1 -> Finish(decision)
      [] OTHER -> Finish(AfterSignal(decision))

ScanFails ==
    /\ kill.pc \in {"listeners", "procs"}
    /\ kill' = Decided("scan_unavailable")
    /\ UNCHANGED world

ReadListeners ==
    /\ kill.pc = "listeners"
    /\ kill' = [kill EXCEPT !.pc = "procs", !.saw = holder]
    /\ UNCHANGED world

ReadProcs ==
    /\ kill.pc = "procs"
    /\ kill' = Decided(Classify(kill.saw))
    /\ UNCHANGED world

-----------------------------------------------------------------------------
(* The attempt. *)

Begin(by, pc) ==
    [NoKill EXCEPT !.pc = pc, !.by = by, !.letGo = holder # "target", !.disowned = ~active /\ ~recorded]

KillPort ==
    /\ kill.pc \in {"none", "done"}
    /\ kill' = Begin("user", "listeners")
    /\ UNCHANGED world

\* killOrphans: one scan makes the list, then each entry is killed in turn
KillOrphans ==
    /\ kill.pc \in {"none", "done"}
    /\ holder = "target" /\ pidUser = "target" /\ Orphan
    /\ kill' = Begin("sweep", "queued")
    /\ UNCHANGED world

SweepReaches ==
    /\ kill.pc = "queued"
    /\ kill' = [kill EXCEPT !.pc = "listeners"]
    /\ UNCHANGED world

\* SIGTERM in phase 1, SIGKILL in phase 2; the scan after SIGTERM waits for the grace
Signal ==
    /\ kill.pc = "signal"
    /\ kill' =
          CASE pidUser = "nobody" -> Finish("released")
            [] pidUser = "target" /\ role = "foreign" -> Finish("survived")
            [] OTHER -> [kill EXCEPT !.pc = "listeners", !.phase = @ + 1, !.tries = 0, !.struck = pidUser]
    /\ UNCHANGED world

-----------------------------------------------------------------------------
(* The machine. *)

Noted(held, owned) ==
    [kill EXCEPT !.letGo = @ \/ held # "target", !.disowned = @ \/ ~owned]

Changes(h, u, a, r) ==
    /\ holder' = h /\ pidUser' = u /\ active' = a /\ recorded' = r
    /\ kill' = [Noted(h, a \/ r) EXCEPT !.reused = @ \/ (u = "reborn" /\ pidUser # "reborn")]
    /\ UNCHANGED role

Exits ==
    /\ pidUser # "nobody"
    /\ Changes(IF holder = pidUser THEN "nobody" ELSE holder, "nobody", active, recorded)

PidReused == pidUser = "nobody" /\ Changes(holder, "reborn", active, recorded)

Listens ==
    /\ holder = "nobody"
    /\ \E h \in {pidUser, "other"} \ {"nobody"} : Changes(h, pidUser, active, recorded)

StopsListening == holder # "nobody" /\ Changes("nobody", pidUser, active, recorded)

WorktreeComesOrGoes == Changes(holder, pidUser, ~active, recorded)

\* a broadcast scan records what an active worktree binds; an entry expires after HISTORY_TTL_MS
HistoryChanges ==
    \/ active /\ ~recorded /\ holder # "nobody" /\ Changes(holder, pidUser, active, TRUE)
    \/ ~active /\ recorded /\ Changes(holder, pidUser, active, FALSE)

Machine ==
    \/ Exits \/ PidReused \/ Listens \/ StopsListening
    \/ WorktreeComesOrGoes \/ HistoryChanges

Attempt ==
    \/ KillPort \/ KillOrphans \/ SweepReaches
    \/ ReadListeners \/ ReadProcs \/ ScanFails \/ Signal

Next == Attempt \/ Machine

Spec == Init /\ [][Next]_vars

-----------------------------------------------------------------------------
\* A process that merely inherited the target's pid is signalled only if it took the pid
\* after the scan that decided on the signal had read the process table: no restart, churn of
\* the endpoint or overlap of the reads redirects a signal (service.ts, killPort).
StrangersAreSpared == kill.struck = "reborn" => kill.reused

\* Success is reported only if the target let go of the endpoint during the attempt, or
\* makit lost every claim to it, never because a scan could not run (service.ts, killPort).
SuccessIsReal == kill.outcome \in {"released", "force-killed"} => kill.letGo \/ kill.disowned

\* A kill signals what it was aimed at, and says what became of it (service.ts, killPort).
KillSafety == StrangersAreSpared /\ SuccessIsReal
=============================================================================
