------------------------------- MODULE BaseSync -------------------------------
(***************************************************************************)
(* Bringing the local base branch up to date after a pull request landed on  *)
(* it (git.ts: syncBaseBranch, listWorktrees), one git command a step, while  *)
(* others push, commit and switch branches.                                  *)
(*                                                                         *)
(* A branch holds the first commits of the line on origin, and may hold one   *)
(* of its own that was never pushed.                                          *)
(***************************************************************************)
EXTENDS Naturals, FiniteSets

CONSTANTS
    Base, Feature,      \* branches
    Paths,              \* worktrees
    MaxPushed, MaxExternal      \* bounds

VARIABLES
    origin, tracking,   \* commits on origin, and as origin/<base> knows them here
    ref,                \* branch -> [upto, own]
    head,               \* path -> the branch it is on
    tree,               \* path -> the commits its files are at
    sync,               \* where syncBaseBranch stands, or "idle"
    host,               \* the worktree it merges in
    external

vars == <<origin, tracking, ref, head, tree, sync, host, external>>

Branches == {Base, Feature}
NoHost == "none"

Init ==
    /\ origin = 1 /\ tracking = 1
    /\ ref \in [Branches -> [upto : {1}, own : BOOLEAN]]
    /\ head \in [Paths -> Branches]
    /\ tree = [p \in Paths |-> ref[head[p]]]
    /\ sync = "idle" /\ host = NoHost /\ external = 0

Hosts(b) == {p \in Paths : head[p] = b}

External == /\ external < MaxExternal /\ external' = external + 1
            /\ UNCHANGED <<tracking, sync, host>>

OthersPush == External /\ origin < MaxPushed /\ origin' = origin + 1 /\ UNCHANGED <<ref, head, tree>>

\* committing in a worktree moves its branch; with one more checkout of it, whoever commits is told
Commits(p) ==
    /\ External /\ ~ref[head[p]].own /\ Cardinality(Hosts(head[p])) = 1
    /\ ref' = [ref EXCEPT ![head[p]].own = TRUE]
    /\ tree' = [tree EXCEPT ![p] = ref'[head[p]]]
    /\ UNCHANGED <<origin, head>>

Switches(p, b) ==
    /\ External /\ Hosts(b) = {}
    /\ head' = [head EXCEPT ![p] = b]
    /\ tree' = [tree EXCEPT ![p] = ref[b]]
    /\ UNCHANGED <<origin, ref>>

-----------------------------------------------------------------------------
(* syncBaseBranch. *)

Ends == sync' = "idle" /\ host' = NoHost

Fetch ==
    /\ sync = "idle"
    /\ \/ tracking' = origin /\ sync' = "fetched"
       \/ UNCHANGED <<tracking, sync>>
    /\ UNCHANGED <<origin, ref, head, tree, host, external>>

Compare ==
    /\ sync = "fetched"
    /\ sync' = IF ref[Base].upto >= tracking THEN "idle" ELSE "behind"
    /\ UNCHANGED <<origin, tracking, ref, head, tree, host, external>>

\* mutant: the first of several hosts will do
PickAny(hosts) == IF hosts = {} THEN NoHost ELSE CHOOSE p \in hosts : TRUE

PickHost(hosts) == IF Cardinality(hosts) = 1 THEN CHOOSE p \in hosts : TRUE ELSE NoHost

\* listWorktrees
List ==
    /\ sync = "behind"
    /\ LET hosts == Hosts(Base) IN
       /\ host' = PickHost(hosts)
       /\ sync' = IF host' # NoHost THEN "merge" ELSE IF hosts = {} THEN "fetchRef" ELSE "idle"
    /\ UNCHANGED <<origin, tracking, ref, head, tree, external>>

\* merge --ff-only origin/<base> in the host, on whatever branch that is on by now; own commits or a
\* dirty tree refuse it
Merge ==
    /\ sync = "merge"
    /\ LET b == head[host] now == [ref[b] EXCEPT !.upto = tracking] IN
       \/ /\ ~ref[b].own /\ ref[b].upto < tracking
          /\ ref' = [ref EXCEPT ![b] = now]
          /\ tree' = [tree EXCEPT ![host] = now]
       \/ UNCHANGED <<ref, tree>>
    /\ Ends
    /\ UNCHANGED <<origin, tracking, head, external>>

\* git's own refusals of fetch <branch>:<branch>: not a fast-forward, or checked out
Refused(b) == ref[b].own \/ Hosts(b) # {}

FetchRef ==
    /\ sync = "fetchRef"
    /\ IF Refused(Base) THEN UNCHANGED <<tracking, ref>>
       ELSE tracking' = origin /\ ref' = [ref EXCEPT ![Base] = [upto |-> origin, own |-> FALSE]]
    /\ Ends
    /\ UNCHANGED <<origin, head, tree, external>>

Next ==
    \/ Fetch \/ Compare \/ List \/ Merge \/ FetchRef
    \/ OthersPush
    \/ \E p \in Paths : Commits(p) \/ (\E b \in Branches : Switches(p, b))

Spec == Init /\ [][Next]_vars

-----------------------------------------------------------------------------
\* No worktree is left with the files of an older commit of its branch: a base that is checked out
\* twice is left alone, and one that is checked out is only moved where it is ("leave the others'
\* index and working tree on the old commit - spuriously dirty").
WorkingTreesFollow == \A p \in Paths : tree[p] = ref[head[p]]

\* Catching up never drops a commit that was not pushed ("Fast-forward only, always").
NothingIsDiscarded == [][\A b \in Branches : ref[b].own => ref'[b].own]_vars
=============================================================================
