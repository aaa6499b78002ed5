---------------------------- MODULE LandingBranch ----------------------------
(***************************************************************************)
(* Where a worktree's work lands: the default branch (git.ts), the picker's *)
(* candidates (target_candidates.ts), setWorktreeTarget's check             *)
(* (manager.ts), the snapshot's answer (repo_service.ts:                    *)
(* resolveTargetBranch) and whether its numbers could be measured (git.ts:  *)
(* diffStat).                                                               *)
(***************************************************************************)
EXTENDS Naturals, FiniteSets, Sequences

CONSTANTS
    Names,          \* branches, in alphabetical order
    Me,             \* the worktree's own branch
    MaxCommits,     \* bounds the repository: its commits are 1 .. MaxCommits, no parent after its child
    None

VARIABLES
    parents,        \* the commit graph: commit -> its parents, two for a merge, none for a first one
    head,           \* local branch -> its commit
    onOrigin,       \* the branches of origin, as last fetched
    originTip,      \* the commit of the one candidate that may be only there, the default
    originHead,     \* what origin/HEAD names, or None
    override,       \* the project's defaultBranch setting, or None
    prBase,         \* the base of the live pull request, or None
    stored,         \* the persisted target, or None
    answer          \* to setWorktreeTarget: [to, kept], or None

repo == <<parents, head, onOrigin, originTip, originHead, override, prBase>>
vars == <<repo, stored, answer>>

Branches == {Names[i] : i \in DOMAIN Names}
Locals == DOMAIN head
Commits == 1 .. MaxCommits

\* a rev is a local branch, or a branch of origin under its qualified name
Local(b) == <<"heads", b>>
Remote(b) == <<"origin", b>>
Resolves(rev) == rev[2] \in IF rev[1] = "heads" THEN Locals ELSE onOrigin

\* what git reaches from a commit: whatever is in every set that has the commit and all parents
Closed(past) == \A c \in past : parents[c] \subseteq past
History(c) == {d \in Commits : \A past \in SUBSET Commits : c \in past /\ Closed(past) => d \in past}

\* detectDefaultBranch: what origin/HEAD names, or main here, or the current branch
DetectDefault ==
    IF originHead # None THEN Local(originHead)
    ELSE IF "main" \in Locals THEN Local("main") ELSE Local(Me)

\* resolveDefaultBranch
DefaultBranch ==
    IF override \in Locals THEN Local(override)
    ELSE IF override \in onOrigin THEN Remote(override)
    ELSE DetectDefault

Init ==
    /\ parents \in [Commits -> SUBSET Commits] /\ \A c \in Commits : parents[c] \subseteq 1 .. c - 1
    /\ \E locals \in SUBSET Branches : Me \in locals /\ head \in [locals -> Commits]
    /\ onOrigin \in SUBSET Branches
    /\ originHead \in {None} \cup onOrigin
    /\ override \in {None} \cup Branches
    /\ originTip \in IF DefaultBranch[1] = "origin" THEN Commits ELSE {1}
    /\ prBase \in {None, Me} \cup onOrigin
    /\ stored = None /\ answer = None

-----------------------------------------------------------------------------
(* The picker. *)

\* the order that ties are broken in: the default, and then the names' own
Selectable == {Local(b) : b \in Locals} \cup (IF Resolves(DefaultBranch) THEN {DefaultBranch} ELSE {})
Rank(rev) == IF rev = DefaultBranch THEN 0 ELSE CHOOSE i \in DOMAIN Names : Names[i] = rev[2]

Commit(rev) == IF rev[1] = "heads" THEN head[rev[2]] ELSE originTip

Distance(rev) == Cardinality(History(head[Me]) \ History(Commit(rev)))

Ancestors(revs) == {rev \in revs : rev # Local(Me) /\ Commit(rev) \in History(head[Me])}

\* mutant: an ancestor is as good as another
AnyAncestor(revs) == IF Ancestors(revs) = {} THEN None ELSE CHOOSE rev \in Ancestors(revs) : TRUE

\* closestAncestorBranch, over the candidates in their order
ClosestAncestor(revs) ==
    LET better(r, s) == Distance(r) < Distance(s) \/ (Distance(r) = Distance(s) /\ Rank(r) <= Rank(s))
    IN IF Ancestors(revs) = {} THEN None
       ELSE CHOOSE r \in Ancestors(revs) : \A s \in Ancestors(revs) : better(r, s)

\* what the picker lets the user choose: not itself, and on origin if there is one
CanBePicked(rev) ==
    /\ rev \in Selectable /\ rev # Local(Me)
    /\ onOrigin = {} \/ rev[1] = "origin" \/ rev[2] \in onOrigin

\* setWorktreeTarget
SetWorktreeTarget(rev) ==
    /\ answer = None /\ CanBePicked(rev)
    /\ answer' = [to |-> rev, kept |-> rev[1] = "heads"]
    /\ stored' = IF rev[1] = "heads" THEN rev ELSE stored
    /\ UNCHANGED repo

Next == \E rev \in Selectable : SetWorktreeTarget(rev)

Spec == Init /\ [][Next]_vars

-----------------------------------------------------------------------------
(* The snapshot. *)

\* resolveTargetBranch: the first that is there and not the worktree's own branch
ResolveTarget(base, chosen, default) ==
    LET tiers == <<base, chosen, default>>
        sound == {i \in 1 .. 3 : tiers[i] \notin {None, Local(Me)}}
    IN IF sound = {} THEN None ELSE tiers[CHOOSE i \in sound : \A j \in sound : i <= j]

Target == ResolveTarget(IF prBase = None THEN None ELSE Local(prBase), stored, DefaultBranch)

\* diffStat: a target that cannot be resolved is reported, and its numbers are left out
TargetResolved == Target = None \/ Resolves(Target)

-----------------------------------------------------------------------------
\* The branch the picker suggests is the one the work forked from: no other candidate lies between,
\* and of two at the same commit the default is suggested ("the tie we most want to win").
SuggestionIsNearest ==
    LET s == ClosestAncestor(Selectable) IN
    s # None => \A r \in Selectable \ {s, Local(Me)} :
        /\ Commit(r) = Commit(s) => r # DefaultBranch
        /\ ~(Commit(r) # Commit(s) /\ Commit(r) \in History(head[Me]) /\ Commit(s) \in History(Commit(r)))

\* What the user picked and was told is stored is where the next snapshot says the work lands, with
\* numbers that could be measured, unless a live pull request goes elsewhere.
ChosenIsShown ==
    answer # None /\ answer.kept =>
        (Target = answer.to /\ TargetResolved) \/ prBase \notin {None, Me}

\* The landing branch shown is the chosen one, and the suggested one the nearest (target_candidates.ts).
LandingSafety == SuggestionIsNearest /\ ChosenIsShown
=============================================================================
