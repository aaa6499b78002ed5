------------------------------- MODULE PlatformMC -------------------------------
(* What runs beside the sessions: the daemon's control plane and its log       *)
(* streams, `makit wait`, the transport of an agent's process, the CPU ledger  *)
(* and the sampler, the tree of spawned sessions, the compaction of old logs,   *)
(* the cached catalog of a harness and the push tokens of devices. The parts    *)
(* share no state: `part` says which one runs. One that does not starts in a     *)
(* fixed state, in which no fair action is enabled.                             *)
EXTENDS Naturals, Sequences, FiniteSets, TLC

CONSTANTS
    Procs, None, MaxCommands, Ids, MaxCancels, ForWhats, MaxEvents,
    MaxFrameBytes, MaxLength, MaxFrames, MaxChunk,
    Pids, Root, Comms, MaxCpu, MaxSpawns, Clients, MaxSamples, MaxToggles,
    MaxSessions, MaxDepth, MaxLive, MaxRoots, MaxClosed, MaxReopens, MaxKills, MaxRestarts,
    Messages, Tools, MaxRows, MaxCompactions, MaxVersion, MaxCrashes, Foreign, MaxTokens

ASSUME SessionsAssumption == MaxSessions \in Nat
ASSUME CapAssumption == MaxFrameBytes \in Nat
ASSUME LiveAssumption == MaxLive \in Nat
ASSUME DepthAssumption == MaxDepth \in Nat
ASSUME NoneAssumption == None \notin 1 .. MaxSessions
ASSUME NoProbeAssumption == None \notin [began : Nat, saw : Nat]
ASSUME PidsAssumption == IsFiniteSet(Pids) /\ Root \in Pids /\ 0 \notin Pids
ASSUME CommsAssumption == "none" \notin Comms
ASSUME RowsAssumption == MaxRows \in Nat
ASSUME ClientsAssumption == IsFiniteSet(Clients)

VARIABLES
    part,
    procs, path, pidfile, cmd, commands, signalled, bound, started, confirmed,
    conn, dispatched, pendingStops, cancelled, stops, watches, cancels, opened, told,
    forWhat, status, log, following, net, pc, sawRunning, replayed, code, turnEnded, missed,
    child, written, unfinished, pipe, buf, dropUntilNewline, lines, streamEnded, settled, exits,
    sigterm, killTimer, sigkilled, disposed,
    proc, spawns, base, live, total, spent,
    socket, running, interval, watchers, tick, ring, chart, toggles,
    phase, parent, closed, rows, threads, spawnedBy, reopened, revived, excused, restarts,
    history, nextSeq, plan, late, compactions,
    version, cached, disk, probe, call, asked, answer, crashes,
    paired, online, issued, token, sent, flying, announced, overtaken, dead

cpVars == <<procs, path, pidfile, cmd, commands, signalled, bound, started, confirmed>>
csVars == <<conn, dispatched, pendingStops, cancelled, stops, watches, cancels, opened, told>>
cwVars == <<forWhat, status, log, following, net, pc, sawRunning, replayed, code, turnEnded, missed>>
ctVars == <<child, written, unfinished, pipe, buf, dropUntilNewline, lines, streamEnded, settled, exits,
            sigterm, killTimer, sigkilled, disposed>>
clVars == <<proc, spawns, base, live, total, spent>>
mcVars == <<socket, running, interval, watchers, tick, ring, chart, toggles>>
lnVars == <<phase, parent, closed, rows, threads, spawnedBy, reopened, revived, excused, restarts>>
cmVars == <<history, nextSeq, plan, late, compactions>>
ccVars == <<version, cached, disk, probe, call, asked, answer, crashes>>
ptVars == <<paired, online, issued, token, sent, flying, announced, overtaken, dead>>

Cp == INSTANCE ControlPlane
Cs == INSTANCE ControlStreams
Cw == INSTANCE CliWait
Ct == INSTANCE ChildTransport
Cl == INSTANCE CpuLedger
Mt == INSTANCE MetricsCollector WITH Background <- FALSE
Ln == INSTANCE Lineage
Cm == INSTANCE Compaction WITH log <- history, next <- nextSeq
Cc == INSTANCE CapabilityCache WITH Callers <- Clients
Pt == INSTANCE PushTokens WITH Phones <- Clients

PartsInit ==
    /\ part \in {"control", "streams", "wait", "transport", "ledger", "metrics",
                "lineage", "compaction", "catalog", "tokens"}
    /\ Cp!Init /\ Cs!Init /\ Ct!Init /\ Cl!Init /\ Mt!Init
    /\ Ln!Init /\ Cm!Init /\ Cc!Init /\ Pt!Init
    /\ Cw!Init /\ (part # "wait" => forWhat = "any" /\ status = "idle" /\ log = <<>>)

PartsNext ==
    /\ part' = part
    /\ \/ part = "control" /\ Cp!Next
          /\ UNCHANGED <<csVars, cwVars, ctVars, clVars, mcVars, lnVars, cmVars, ccVars, ptVars>>
       \/ part = "streams" /\ Cs!Next
          /\ UNCHANGED <<cpVars, cwVars, ctVars, clVars, mcVars, lnVars, cmVars, ccVars, ptVars>>
       \/ part = "wait" /\ Cw!Next
          /\ UNCHANGED <<cpVars, csVars, ctVars, clVars, mcVars, lnVars, cmVars, ccVars, ptVars>>
       \/ part = "transport" /\ Ct!Next
          /\ UNCHANGED <<cpVars, csVars, cwVars, clVars, mcVars, lnVars, cmVars, ccVars, ptVars>>
       \/ part = "ledger" /\ Cl!Next
          /\ UNCHANGED <<cpVars, csVars, cwVars, ctVars, mcVars, lnVars, cmVars, ccVars, ptVars>>
       \/ part = "metrics" /\ Mt!Next
          /\ UNCHANGED <<cpVars, csVars, cwVars, ctVars, clVars, lnVars, cmVars, ccVars, ptVars>>
       \/ part = "lineage" /\ Ln!Next
          /\ UNCHANGED <<cpVars, csVars, cwVars, ctVars, clVars, mcVars, cmVars, ccVars, ptVars>>
       \/ part = "compaction" /\ Cm!Next
          /\ UNCHANGED <<cpVars, csVars, cwVars, ctVars, clVars, mcVars, lnVars, ccVars, ptVars>>
       \/ part = "catalog" /\ Cc!Next
          /\ UNCHANGED <<cpVars, csVars, cwVars, ctVars, clVars, mcVars, lnVars, cmVars, ptVars>>
       \/ part = "tokens" /\ Pt!Next
          /\ UNCHANGED <<cpVars, csVars, cwVars, ctVars, clVars, mcVars, lnVars, cmVars, ccVars>>

PartsSpec ==
    /\ PartsInit
    /\ [][PartsNext]_<<part, cpVars, csVars, cwVars, ctVars, clVars, mcVars, lnVars, cmVars, ccVars, ptVars>>
    /\ Cw!Fairness /\ Ct!Fairness

ReportedIsNamed == Cp!ReportedIsNamed
NoWatchLeaks == Cs!NoWatchLeaks
ZeroMeansATurnEnded == Cw!ZeroMeansATurnEnded
LinesArriveWhole == Ct!LinesArriveWhole
PanelSafety == Mt!PanelSafety
SpawnsStayBounded == Ln!SpawnsStayBounded

\* What is served from memory is what it stands for: a catalog, a device's token.
KeptAnswersAreTrue ==
    Cc!AnswersFitTheFingerprint /\ Pt!RegisteredIsKept /\ Pt!DeadIsForgotten

\* Time is accounted to whom it belongs, and text stays in the log that is rewritten.
NothingLostOrMisplaced == Cl!LedgerSafety /\ Cm!CompactionLosesNothing

\* A session that is gone ends the wait for it, and a process that is disposed of goes.
GoneIsNoticed == Cw!GoneIsReported /\ Ct!DisposedExits
=============================================================================
