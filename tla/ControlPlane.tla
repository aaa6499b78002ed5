------------------------------ MODULE ControlPlane ------------------------------
(***************************************************************************)
(* Starting and stopping a daemon: `makit start | stop | restart`            *)
(* (daemon/service.ts) over a pid file and a control socket, which every      *)
(* server binds, one in the foreground included, and removes when it shuts   *)
(* down (daemon/control-server.ts, serve.ts).                                *)
(*                                                                         *)
(* One command runs at a time; its status request is answered, and acted on, *)
(* at one moment. A path may be unlinked while its server still listens, who  *)
(* is not reached any more.                                                  *)
(***************************************************************************)
EXTENDS Naturals, FiniteSets

CONSTANTS
    Procs,          \* process ids
    None,
    MaxCommands     \* bound

VARIABLES
    procs,          \* what has each pid: "free", "booting", "probed", "listening", "plain" (a
                    \* server without control socket), "closing", "gone", or a "stranger"
    path,           \* the server whose socket the path is, or None
    pidfile,        \* None if it is missing
    cmd,            \* the command that runs
    commands,
    signalled,      \* pids that were sent SIGTERM
    \* history
    bound,          \* pids whose server has bound the socket
    started,        \* the pid that `start` reported last, or None
    confirmed       \* and that it had bound the socket then

history == <<bound, started, confirmed>>
vars == <<procs, path, pidfile, cmd, commands, signalled, history>>

Server == {"booting", "probed", "listening", "plain", "closing"}
Alive(p) == procs[p] \in Server \cup {"stranger"}

Idle == [op |-> "none"]

Init ==
    /\ procs = [p \in Procs |-> "free"]
    /\ path = None /\ pidfile = None
    /\ cmd = Idle /\ commands = 0
    /\ signalled = {} /\ bound = {} /\ started = None /\ confirmed = FALSE

\* fetchStatus: who answers on the path
Answers == IF path # None /\ procs[path] = "listening" THEN path ELSE None

RunningPid == IF pidfile # None /\ Alive(pidfile) THEN pidfile ELSE None

Becomes(p, what) == procs' = [procs EXCEPT ![p] = what]

-----------------------------------------------------------------------------
(* The commands. *)

Command(op) ==
    /\ cmd = Idle /\ commands < MaxCommands /\ commands' = commands + 1
    /\ cmd' = [op |-> op, pc |-> IF op = "start" THEN "start" ELSE "stop"]
    /\ UNCHANGED <<procs, path, pidfile, signalled, history>>

\* a server that runs is left alone; otherwise a child is spawned and its pid written
Spawn ==
    /\ cmd.op # "none" /\ cmd.pc = "start"
    /\ IF RunningPid # None THEN cmd' = Idle /\ UNCHANGED <<procs, pidfile>>
       ELSE \E p \in Procs :
              /\ procs[p] = "free" /\ Becomes(p, "booting")
              /\ pidfile' = p
              /\ cmd' = [cmd EXCEPT !.pc = "waiting"]
    /\ UNCHANGED <<path, commands, signalled, history>>

\* waitForUp: whoever answers will do
Up ==
    /\ cmd.op # "none" /\ cmd.pc = "waiting" /\ Answers # None
    /\ started' = pidfile /\ confirmed' = (pidfile \in bound)
    /\ cmd' = Idle
    /\ UNCHANGED <<procs, path, pidfile, commands, signalled, bound>>

GivesUp ==
    /\ cmd.op # "none" /\ cmd.pc = "waiting" /\ Answers = None
    /\ pidfile' = None
    /\ cmd' = Idle
    /\ UNCHANGED <<procs, path, commands, signalled, history>>

\* only a pid that the socket confirms is signalled, and nobody waits for it to exit; whatever the
\* outcome the pid file goes
Stop ==
    /\ cmd.op # "none" /\ cmd.pc = "stop"
    /\ signalled' = signalled \cup (IF RunningPid # None /\ Answers = RunningPid THEN {RunningPid} ELSE {})
    /\ pidfile' = None
    /\ cmd' = IF cmd.op = "restart" THEN [cmd EXCEPT !.pc = "start"] ELSE Idle
    /\ UNCHANGED <<procs, path, commands, history>>

-----------------------------------------------------------------------------
(* A server. *)

Foreground(p) ==
    /\ commands < MaxCommands /\ commands' = commands + 1
    /\ procs[p] = "free" /\ Becomes(p, "booting")
    /\ UNCHANGED <<path, pidfile, cmd, signalled, history>>

\* createControlServer: a live peer refuses it, and the server goes on without
Probe(p) ==
    /\ procs[p] = "booting"
    /\ Becomes(p, IF Answers # None THEN "plain" ELSE "probed")
    /\ UNCHANGED <<path, pidfile, cmd, commands, signalled, history>>

\* what is at the path is taken for stale and removed
Bind(p) ==
    /\ procs[p] = "probed" /\ Becomes(p, "listening")
    /\ path' = p
    /\ bound' = bound \cup {p}
    /\ UNCHANGED <<pidfile, cmd, commands, signalled, started, confirmed>>

\* mutant: the pid file goes whoever it names
ClearAnyPidFile(p) == pidfile' = None

ClearPidFile(p) == pidfile' = IF pidfile = p THEN None ELSE pidfile

\* SIGTERM or SIGINT, handled once the server is up: close() unlinks the path, whoever bound it last
ShutDown(p) ==
    /\ p \in signalled
    /\ IF procs[p] \in {"listening", "plain"}
       THEN /\ Becomes(p, "closing")
            /\ path' = IF procs[p] = "listening" THEN None ELSE path
            /\ ClearPidFile(p)
       ELSE procs[p] \in {"booting", "probed"} /\ Becomes(p, "gone") /\ UNCHANGED <<path, pidfile>>
    /\ UNCHANGED <<cmd, commands, signalled, history>>

Interrupt(p) ==
    /\ procs[p] \in {"listening", "plain"} /\ p \notin signalled
    /\ commands < MaxCommands /\ commands' = commands + 1
    /\ signalled' = signalled \cup {p}
    /\ UNCHANGED <<procs, path, pidfile, cmd, history>>

\* the path is unlinked once more when the last connection is closed, if that comes within 100 ms
Exit(p) ==
    /\ procs[p] = "closing" /\ Becomes(p, "gone")
    /\ path' \in {path, None}
    /\ UNCHANGED <<pidfile, cmd, commands, signalled, history>>

\* the port is taken, or a crash: the files stay
Dies(p) ==
    /\ procs[p] \in Server /\ Becomes(p, "gone")
    /\ UNCHANGED <<path, pidfile, cmd, commands, signalled, history>>

Recycled(p) ==
    /\ procs[p] = "gone" /\ Becomes(p, "stranger")
    /\ UNCHANGED <<path, pidfile, cmd, commands, signalled, history>>

Next ==
    \/ \E op \in {"start", "stop", "restart"} : Command(op)
    \/ Spawn \/ Up \/ GivesUp \/ Stop
    \/ \E p \in Procs :
          \/ Foreground(p) \/ Probe(p) \/ Bind(p)
          \/ ShutDown(p) \/ Interrupt(p) \/ Exit(p) \/ Dies(p) \/ Recycled(p)

Spec == Init /\ [][Next]_vars

-----------------------------------------------------------------------------
\* A daemon that `start` reported when it had bound the socket, and that answers there, is the one the
\* pid file names, so that `stop` finds it: the server it replaced, which shuts down while this one
\* boots, leaves the pid file alone (serve.ts: "Only clear the PID file if it points at us").
ReportedIsNamed ==
    Answers # None /\ Answers = started /\ confirmed /\ started \notin signalled => pidfile = started
=============================================================================
