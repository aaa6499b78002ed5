------------------------------- MODULE CpuLedger -------------------------------
(***************************************************************************)
(* The CPU time charged to one agent (metrics/ledger.ts, metrics/tree.ts):   *)
(* its processes come and go between two readings of `ps`, and their pids    *)
(* are used again, while the total may neither fall nor count twice.         *)
(***************************************************************************)
EXTENDS Naturals, Functions

CONSTANTS
    Pids, Root,         \* Root is the agent's own process, which lives as long as it is sampled
    Comms,              \* names of programs
    MaxCpu, MaxSpawns   \* bounds: of one process's time, of the processes

VARIABLES
    proc,               \* the machine: pid -> a row of ps, or "none"
    spawns,
    base, live, total,  \* RootState, and what observe answered last
    spent               \* history: what processes of the agent's tree really used

machine == <<proc, spawns>>
ledger == <<base, live, total>>
vars == <<machine, ledger, spent>>

Elsewhere == 0      \* the parent of what is not the agent's
Row(parent, comm) == [ppid |-> parent, cpu |-> 0, comm |-> comm]
Gone == Row(Elsewhere, "none")
Alive == {p \in Pids : proc[p] # Gone}

Init ==
    /\ proc = [p \in Pids |-> IF p = Root THEN Row(Elsewhere, "agent") ELSE Gone]
    /\ spawns = 0
    /\ base = 0 /\ live = [p \in {} |-> 0] /\ total = 0
    /\ spent = 0

\* childIndex and descendants
Descendants ==
    {p \in Alive : \A S \in SUBSET Alive :
        (Root \in S /\ \A q \in Alive : proc[q].ppid \in S => q \in S) => p \in S}

-----------------------------------------------------------------------------
(* The machine. *)

\* a child of any process, or an unrelated one; the pid may have had another owner
Spawn(p, parent, comm) ==
    /\ proc[p] = Gone /\ spawns < MaxSpawns
    /\ proc' = [proc EXCEPT ![p] = Row(parent, comm)]
    /\ spawns' = spawns + 1
    /\ UNCHANGED <<ledger, spent>>

Work(p) ==
    /\ proc[p] # Gone /\ proc[p].cpu < MaxCpu
    /\ proc' = [proc EXCEPT ![p].cpu = @ + 1]
    /\ spent' = IF p \in Descendants THEN spent + 1 ELSE spent
    /\ UNCHANGED <<spawns, ledger>>

\* its children are handed to init: they leave the tree
Die(p) ==
    /\ p # Root /\ proc[p] # Gone
    /\ proc' = [q \in Pids |-> IF q = p THEN Gone ELSE
                    [proc[q] EXCEPT !.ppid = IF @ = p THEN Elsewhere ELSE @]]
    /\ UNCHANGED <<spawns, ledger, spent>>

-----------------------------------------------------------------------------
(* The ledger. *)

\* a process's time cannot fall and its name cannot change
Recycled(p) == proc[p].cpu < live[p].seconds \/ proc[p].comm # live[p].comm

Retired == {p \in DOMAIN live : p \notin Descendants \/ Recycled(p)}

Seconds == [p \in DOMAIN live |-> live[p].seconds]
Cpu == [p \in Pids |-> proc[p].cpu]

\* observe, on a whole process table
Observe ==
    /\ base' = base + SumFunctionOnSet(Seconds, Retired)
    /\ live' = [p \in Descendants |-> [seconds |-> proc[p].cpu, comm |-> proc[p].comm]]
    /\ total' = base' + SumFunctionOnSet(Cpu, Descendants)
    /\ UNCHANGED <<machine, spent>>

Next ==
    \/ \E p \in Pids, c \in Comms : \E parent \in Alive \cup {Elsewhere} : Spawn(p, parent, c)
    \/ \E p \in Pids : Work(p) \/ Die(p)
    \/ Observe

Spec == Init /\ [][Next]_vars

-----------------------------------------------------------------------------
\* No time is charged that the agent's processes did not use, however their pids are used again.
ChargedWasSpent == total <= spent

\* The total never falls, whatever exited since: the rate on the dashboard is its difference.
TotalNeverFalls == [][total' >= total]_vars

\* The charge never falls, and never exceeds what was used (metrics/ledger.ts).
LedgerSafety == []ChargedWasSpent /\ TotalNeverFalls
=============================================================================
