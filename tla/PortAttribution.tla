---------------------------- MODULE PortAttribution ----------------------------
(***************************************************************************)
(* How a listening port gets an owner (ports/ancestors.ts, attribute.ts,    *)
(* derive.ts, the history): which working directories one scan reads,  *)
(* which worktree they lead to, and what the port history adds.             *)
(*                                                                         *)
(* An initial state is a machine: a process table, directories, listeners.  *)
(* Paths are sequences of segments; a path is its own realpath.             *)
(***************************************************************************)
EXTENDS Naturals, Sequences, FiniteSets, SequencesExt

CONSTANTS
    Pids,                  \* a range 1 .. n; 0 is a pid the table does not have
    MaxAncestorDepth,
    MaxListeners,          \* bounds how many are listed
    Places,                \* the directories processes may be in
    Worktrees              \* directories that are or were worktrees

VARIABLES
    parent,     \* ppid by pid
    place,      \* working directory by pid, <<>> when lsof gives none
    listeners,  \* pids of the listeners, in lsof's order
    live        \* worktrees in the repos snapshot

vars == <<parent, place, listeners, live>>

Init ==
    /\ parent \in [Pids -> Pids \cup {0}]
    /\ place \in [Pids -> Places]
    /\ \E n \in 1 .. MaxListeners : listeners \in [1 .. n -> Pids]
    /\ live \in SUBSET Worktrees

Next == UNCHANGED vars

Spec == Init /\ [][Next]_vars

-----------------------------------------------------------------------------
\* walkAncestors: the chain of ppids, cut at the depth bound, at a pid seen before, at a
\* process that is its own parent and at one the table does not have
WalkAncestors(start, seen) ==
    LET up[d \in 0 .. MaxAncestorDepth] ==
            IF d = 0 THEN start ELSE IF up[d-1] \in Pids THEN parent[up[d-1]] ELSE 0
        cut(d) == up[d] \in seen \cup {0} \/ \E e \in 0 .. d - 1 : up[e] = up[d]
        whole == {d \in 0 .. MaxAncestorDepth : \A e \in 0 .. d : ~cut(e)}
    IN [i \in 1 .. Cardinality(whole) |-> up[i-1]]

\* the pids whose directory one lsof asks for; a walk stops where an earlier one went
CwdPidSet ==
    LET seen[i \in 0 .. Len(listeners)] ==
            IF i = 0 THEN {} ELSE seen[i-1] \cup ToSet(WalkAncestors(listeners[i], seen[i-1]))
    IN seen[Len(listeners)]

Cwd(pid, known) == IF pid \in known THEN place[pid] ELSE <<>>

\* the longest of these worktrees that holds this directory
MatchWorktree(cwd, trees) ==
    LET holding == {w \in trees : w # <<>> /\ IsPrefix(w, cwd)} IN
    IF holding = {} THEN <<>> ELSE CHOOSE w \in holding : \A v \in holding : Len(v) <= Len(w)

\* the nearest process up the chain whose directory is under one of them
Nearest(pid, known, trees) ==
    LET chain == WalkAncestors(pid, {})
        hits == {i \in DOMAIN chain : MatchWorktree(Cwd(chain[i], known), trees) # <<>>}
    IN IF hits = {} THEN <<>>
       ELSE MatchWorktree(Cwd(chain[CHOOSE i \in hits : \A j \in hits : i <= j], known), trees)

OwnerOf(pid) == Nearest(pid, CwdPidSet, live)

\* history remembers the worktrees that are gone
ResolveOrphan(pid) == IF OwnerOf(pid) # <<>> THEN <<>> ELSE Nearest(pid, CwdPidSet, Worktrees \ live)

-----------------------------------------------------------------------------
ChainEnds(pid) == Len(WalkAncestors(pid, {})) <= MaxAncestorDepth

\* A port has the worktree, there or gone, that its process or its nearest ancestor sits in, whatever the
\* order of the listeners and wherever their chains join, unless a chain is deeper than the
\* bound (ancestors.ts: asking for the listeners only made the fallback dead code).
OwnersAreFound ==
    (\A i \in DOMAIN listeners : ChainEnds(listeners[i])) =>
        \A i \in DOMAIN listeners :
            LET pid == listeners[i]
                owner == Nearest(pid, Pids, live)
            IN /\ OwnerOf(pid) = owner
               /\ ResolveOrphan(pid) = (IF owner # <<>> THEN <<>> ELSE Nearest(pid, Pids, Worktrees \ live))

=============================================================================
