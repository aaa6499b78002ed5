------------------------------- MODULE Worktrees -------------------------------
(***************************************************************************)
(* The worktrees of one repository and where their work lands (manager.ts:  *)
(* createWorktree to withWorktreeCreateLock; repo_service.ts;               *)
(* worktree-target-store.ts; git.ts): commands, and the snapshots that      *)
(* adopt the bases of pull requests and repair targets that vanished, while *)
(* agents and users use git on their own.                                   *)
(*                                                                         *)
(* Every command awaits git between its parts. A step is a git command's    *)
(* effect with the code that runs when it has exited. A request that is      *)
(* refused changes nothing and is left out.                                 *)
(***************************************************************************)
EXTENDS Naturals, Sequences, FiniteSets

CONSTANTS
    Tasks,          \* commands and snapshots that may be in flight together
    Names,          \* branches
    Main,           \* the default branch, which the primary checkout is on
    Candidates,     \* the names a new branch is given, the first free one
    Paths, Dirs,    \* worktree paths, and as the sequence a new one is taken from
    PrHead, PrPath, \* the pull request's branch here, and the path made for it
    Other,          \* a worktree of another repository in the same store
    None,
    MaxRequests, MaxTroubles       \* bounds

VARIABLES
    branches,       \* local branches
    tree,           \* per path: the branch of its worktree, "detached" or None
    store,          \* worktree-targets.json: path -> target, note; target None is no entry
    prBase,         \* the base of the live pull request the last poll found, or None
    task,
    requests, troubles,     \* troubles: troubles, and what is done outside
    \* history
    choice,         \* per path: the target last acknowledged to the user, while it lives
    overruled,      \* per path: since then the branch was gone, tidied away, or not the PR's base
    disturbed,      \* something but createWorktree changed branches or paths since a name was picked
    clash           \* git refused a name that createWorktree had picked, undisturbed

repo == <<branches, tree>>
counts == <<requests, troubles>>
vars == <<branches, tree, store, prBase, task, counts, choice, overruled, disturbed, clash>>

NoEntry == [target |-> None, note |-> None]
Entry(target) == [target |-> target, note |-> None]
Idle == [op |-> "none"]

Init ==
    /\ branches = {Main, "a", "b"}
    /\ tree \in {[p \in Paths |-> None], [p \in Paths |-> IF p = Dirs[1] THEN "a" ELSE "b"]}
    /\ store = [p \in Paths \cup {Other} |->
                  IF p = Other THEN Entry("a")
                  ELSE IF tree[p] = "b" THEN Entry("a") ELSE IF tree[p] = "a" THEN Entry(Main) ELSE NoEntry]
    /\ prBase = None
    /\ task = [t \in Tasks |-> Idle]
    /\ requests = 0 /\ troubles = 0
    /\ choice = [p \in Paths |-> store[p].target]
    /\ overruled = [p \in Paths |-> FALSE]
    /\ disturbed = FALSE /\ clash = FALSE

Lives(p) == tree[p] # None
CheckedOut(b) == b = Main \/ \E p \in Paths : tree[p] = b

Begin(t, op) ==
    /\ task[t] = Idle /\ requests < MaxRequests
    /\ requests' = requests + 1 /\ UNCHANGED troubles
    /\ task' = [task EXCEPT ![t] = op]

GoesOn(t, op) == task' = [task EXCEPT ![t] = op] /\ UNCHANGED requests
Ends(t) == GoesOn(t, Idle)

\* saveTargets: the file is replaced, or everything stays
Saved(new) ==
    \/ store' = new /\ UNCHANGED troubles
    \/ new # store /\ troubles < MaxTroubles /\ troubles' = troubles + 1 /\ UNCHANGED store

-----------------------------------------------------------------------------
(* createWorktree and createWorktreeFromPr. *)

CreateWorktree(t, target) ==
    /\ target \in branches
    /\ Begin(t, [op |-> "create", pc |-> "queued", target |-> target])
    /\ UNCHANGED <<repo, store, prBase, choice>>

\* mutant: creations do not wait for each other
MayPickAtOnce(t) == TRUE

\* withWorktreeCreateLock
MayPick(t) == \A u \in Tasks \ {t} : task[u].op = "create" => task[u].pc # "add"

FirstFree(i, names, used) ==
    i \in DOMAIN names /\ names[i] \notin used /\ \A j \in 1 .. i - 1 : names[j] \in used

\* uniqueBranch and uniqueWorktreeDir
PickName(t) ==
    /\ task[t].op = "create" /\ task[t].pc = "queued" /\ MayPick(t)
    /\ \E i \in DOMAIN Candidates, k \in DOMAIN Dirs :
          /\ FirstFree(i, Candidates, branches) /\ FirstFree(k, Dirs, {p \in Paths : Lives(p)})
          /\ GoesOn(t, [op |-> "create", pc |-> "add", target |-> task[t].target,
                        branch |-> Candidates[i], path |-> Dirs[k]])
    /\ UNCHANGED <<repo, store, prBase, troubles, choice>>

\* addWorktree and putTarget, which is best-effort
AddWorktree(t) ==
    /\ task[t].op = "create" /\ task[t].pc = "add"
    /\ LET p == task[t].path b == task[t].branch target == task[t].target IN
       IF b \in branches \/ Lives(p) \/ target \notin branches
       THEN UNCHANGED <<repo, store, troubles, choice>>
       ELSE /\ branches' = branches \cup {b}
            /\ tree' = [tree EXCEPT ![p] = b]
            /\ Saved([store EXCEPT ![p] = Entry(target)])
            /\ choice' = [choice EXCEPT ![p] = IF store' = store /\ store[p] # Entry(target) THEN None ELSE target]
    /\ Ends(t)
    /\ UNCHANGED prBase

\* outside the lock: a detached worktree at a path of the pull request's own ...
CreateWorktreeFromPr(t) ==
    /\ ~Lives(PrPath)
    /\ Begin(t, [op |-> "fromPr"])
    /\ tree' = [tree EXCEPT ![PrPath] = "detached"]
    /\ UNCHANGED <<branches, store, prBase, choice>>

\* ... then moved to the branch made for it, or rolled back; the store is left alone
CheckoutPr(t) ==
    /\ task[t].op = "fromPr"
    /\ \/ /\ Lives(PrPath) /\ ~CheckedOut(PrHead)
          /\ branches' = branches \cup {PrHead}
          /\ tree' = [tree EXCEPT ![PrPath] = PrHead]
          /\ UNCHANGED choice
       \/ /\ tree' = [tree EXCEPT ![PrPath] = None]
          /\ choice' = [choice EXCEPT ![PrPath] = None]
          /\ UNCHANGED branches
    /\ Ends(t)
    /\ UNCHANGED <<store, prBase, troubles>>

-----------------------------------------------------------------------------
(* setWorktreeTarget and renameWorktreeBranch. *)

SetWorktreeTarget(t, p, target) ==
    /\ tree[p] \in Names \ {target}
    /\ Begin(t, [op |-> "setTarget", path |-> p, target |-> target])
    /\ UNCHANGED <<repo, store, prBase, choice>>

\* the branch exists: an explicit choice replaces the entry and its note
PutTarget(t) ==
    /\ task[t].op = "setTarget"
    /\ LET p == task[t].path target == task[t].target IN
       IF target \notin branches THEN UNCHANGED <<store, troubles, choice>>
       ELSE /\ Saved([store EXCEPT ![p] = Entry(target)])
            /\ choice' = IF store'[p] = Entry(target) /\ Lives(p)
                         THEN [choice EXCEPT ![p] = target] ELSE choice
    /\ Ends(t)
    /\ UNCHANGED <<repo, prBase>>

\* listed, and no open pull request found
RenameWorktreeBranch(t, p, new) ==
    /\ tree[p] \in Names
    /\ Begin(t, [op |-> "rename", path |-> p, old |-> tree[p], new |-> new, scope |-> {q \in Paths : Lives(q)}])
    /\ UNCHANGED <<repo, store, prBase, choice>>

RenameTarget(old, new, scope) ==
    [p \in DOMAIN store |->
        IF p \in scope /\ store[p].target = old THEN [store[p] EXCEPT !.target = new] ELSE store[p]]

\* git branch -m, then every target of that name in this repository follows
RenameBranch(t) ==
    /\ task[t].op = "rename"
    /\ LET old == task[t].old new == task[t].new IN
       IF old \notin branches \/ new \in branches \/ ~Lives(task[t].path)
       THEN UNCHANGED <<repo, store, troubles, choice>>
       ELSE /\ branches' = (branches \ {old}) \cup {new}
            /\ tree' = [p \in Paths |-> IF tree[p] = old THEN new ELSE tree[p]]
            /\ Saved(RenameTarget(old, new, task[t].scope))
            /\ choice' = [p \in Paths |->
                  IF choice[p] = old /\ store'[p].target = new THEN new ELSE choice[p]]
    /\ Ends(t)
    /\ UNCHANGED prBase

-----------------------------------------------------------------------------
(* removeWorktree, discardWorktree and wrapUpWorktree. *)

\* the plain removal deletes no branch; the others name the branch the user confirmed, and the
\* wrap-up the base it landed in
Remove(t, p, op) ==
    /\ Lives(p)
    /\ Begin(t, op)
    /\ UNCHANGED <<repo, store, prBase, choice>>

RemoveWorktree(t, p) == Remove(t, p, [op |-> "remove", pc |-> "listed", path |-> p])
DiscardWorktree(t, p, expect) ==
    tree[p] = expect /\ Remove(t, p, [op |-> "discard", pc |-> "listed", path |-> p, branch |-> expect])

WrappingUp(pc, p, branch, base) == [op |-> "wrapUp", pc |-> pc, path |-> p, branch |-> branch, base |-> base]

WrapUpWorktree(t, p, expect, base) ==
    tree[p] = expect /\ base # expect /\ Remove(t, p, WrappingUp("listed", p, expect, base))

\* git worktree remove --force, and clearTarget; git() is killed after GIT_READ_TIMEOUT_MS, with
\* the worktree gone or not, and the command fails
GitRemove(t) ==
    /\ task[t].op \in {"remove", "discard", "wrapUp"} /\ task[t].pc = "listed"
    /\ LET p == task[t].path gone == [tree EXCEPT ![p] = None] IN
       \/ ~Lives(p) /\ UNCHANGED <<tree, store, troubles, choice>> /\ Ends(t)
       \/ /\ Lives(p) /\ tree' = gone
          /\ choice' = [choice EXCEPT ![p] = None]
          /\ Saved([store EXCEPT ![p] = NoEntry])
          /\ IF task[t].op = "remove" THEN Ends(t) ELSE GoesOn(t, [task[t] EXCEPT !.pc = "removed"])
       \/ /\ Lives(p) /\ troubles < MaxTroubles /\ troubles' = troubles + 1
          /\ tree' = gone
          /\ choice' = [choice EXCEPT ![p] = None]
          /\ UNCHANGED store
          /\ Ends(t)
    /\ UNCHANGED <<branches, prBase>>

\* git branch -D of the branch that was confirmed: best-effort, refused while it is checked out
DeleteBranch(t) ==
    /\ task[t].op \in {"discard", "wrapUp"} /\ task[t].pc = "removed"
    /\ LET b == task[t].branch deleted == ~CheckedOut(b) IN
       /\ branches' = IF deleted THEN branches \ {b} ELSE branches
       /\ IF task[t].op = "discard" THEN Ends(t)
          ELSE GoesOn(t, [task[t] EXCEPT !.pc = IF deleted THEN "synced" ELSE "keptBranch"])
    /\ UNCHANGED <<tree, store, prBase, troubles, choice>>

HandingDown(op) == [op |-> "wrapUp", pc |-> "handDown", branch |-> op.branch, base |-> op.base, all |-> store]

\* syncBaseBranch, which may bring the base as a local branch; then the hand-down loads the store
SyncBase(t) ==
    /\ task[t].op = "wrapUp" /\ task[t].pc \in {"synced", "keptBranch"}
    /\ branches' \in {branches, branches \cup {task[t].base}}
    /\ IF task[t].pc = "synced" THEN GoesOn(t, HandingDown(task[t])) ELSE Ends(t)
    /\ UNCHANGED <<tree, store, prBase, troubles, choice>>

\* putTarget with expect: only an entry that is still what the decision was based on is replaced
Written(writes) ==
    [p \in DOMAIN store |->
        IF p \in DOMAIN writes /\ store[p].target = writes[p].was
        THEN [target |-> writes[p].target, note |-> writes[p].was] ELSE store[p]]

Here(entries) == {p \in Paths : entries[p] # None}

\* the base is live by definition, so the chain ends at it
HandDown(t) ==
    /\ task[t].op = "wrapUp" /\ task[t].pc = "handDown"
    /\ LET affected == {p \in Here(tree) : task[t].all[p].target = task[t].branch} IN
       Saved(Written([p \in affected |-> [target |-> task[t].base, was |-> task[t].branch]]))
    /\ Ends(t)
    /\ UNCHANGED <<repo, prBase, choice>>

-----------------------------------------------------------------------------
(* A snapshot: listRepos loads the store once, repoSnapshot lists and decides. *)

Snapshot(t) ==
    /\ Begin(t, [op |-> "snapshot", pc |-> "loaded", all |-> store])
    /\ UNCHANGED <<repo, store, prBase, choice>>

\* repoSnapshot lists the worktrees beside other reads of git
ListWorktrees(t) ==
    /\ task[t].op = "snapshot" /\ task[t].pc = "loaded"
    /\ GoesOn(t, [op |-> "snapshot", pc |-> "listed", all |-> task[t].all, entries |-> tree])
    /\ UNCHANGED <<repo, store, prBase, troubles, choice>>

Adopted(all, entries) ==
    [p \in {q \in Paths : entries[q] = PrHead /\ prBase \notin {None, PrHead, all[q].target}} |->
        [target |-> prBase, was |-> all[p].target]]

\* adoptLivePrTargets: the base of a live pull request is the target
AdoptLivePrTargets(t) ==
    /\ task[t].op = "snapshot" /\ task[t].pc = "listed"
    /\ LET all == task[t].all
           writes == Adopted(all, task[t].entries) IN
       /\ Saved(Written(writes))
       /\ GoesOn(t, [op |-> "snapshot", pc |-> "adopted", entries |-> task[t].entries,
                     all |-> [p \in DOMAIN all |->
                                IF p \in DOMAIN writes /\ store'[p] # store[p] THEN store'[p] ELSE all[p]]])
    /\ UNCHANGED <<repo, prBase, choice>>

\* repairVanishedTargets lists the local branches, and then those of the remote
ListLocalBranches(t) ==
    /\ task[t].op = "snapshot" /\ task[t].pc = "adopted"
    /\ GoesOn(t, [op |-> "snapshot", pc |-> "repair", all |-> task[t].all, entries |-> task[t].entries,
                  locals |-> branches])
    /\ UNCHANGED <<repo, store, prBase, troubles, choice>>

\* where the work of branch b goes, link by link; None when the chain is not recorded
ResolveThroughChain(start, live, lands) ==
    LET link[n \in 0 .. Cardinality(Names)] ==
            IF n = 0 THEN start ELSE IF link[n-1] \in DOMAIN lands THEN lands[link[n-1]] ELSE None
        hits == {n \in DOMAIN link : link[n] \in live}
    IN IF hits # {} THEN link[CHOOSE n \in hits : \A k \in hits : n <= k]
       ELSE IF Main \in live THEN Main ELSE None

\* repointVanishedTargets, for worktrees and branches that were listed before
Repointed(all, entries, locals) ==
    LET onBranch == {p \in Paths : entries[p] \in Names}
        live == locals \cup (IF \E p \in onBranch : entries[p] = PrHead THEN {prBase} \ {None} ELSE {})
        lands == [b \in {entries[p] : p \in {q \in onBranch : all[q].target # None}} |->
                    all[CHOOSE p \in onBranch : entries[p] = b].target]
        to(p) == ResolveThroughChain(all[p].target, live, lands)
    IN [p \in {q \in Here(entries) : /\ all[q].target \notin live \cup {None}
                                     /\ to(q) \notin {None, entries[q]}} |->
           [target |-> to(p), was |-> all[p].target]]

RepairVanished(t) ==
    /\ task[t].op = "snapshot" /\ task[t].pc = "repair"
    /\ Saved(Written(Repointed(task[t].all, task[t].entries, task[t].locals)))
    /\ Ends(t)
    /\ UNCHANGED <<repo, prBase, choice>>

-----------------------------------------------------------------------------
(* Agents and users with git, and the poll. *)

Outside ==
    /\ troubles < MaxTroubles /\ troubles' = troubles + 1
    /\ UNCHANGED <<store, task, requests>>

BranchComes == Outside /\ \E b \in Names : branches' = branches \cup {b} /\ UNCHANGED <<tree, prBase, choice>>

BranchGoes ==
    /\ Outside
    /\ \E b \in branches : ~CheckedOut(b) /\ branches' = branches \ {b}
    /\ UNCHANGED <<tree, prBase, choice>>

Switches ==
    /\ Outside
    /\ \E p \in Paths, b \in branches : Lives(p) /\ ~CheckedOut(b) /\ tree' = [tree EXCEPT ![p] = b]
    /\ UNCHANGED <<branches, prBase, choice>>

RemovedOutside ==
    /\ Outside
    /\ \E p \in Paths : Lives(p) /\ tree' = [tree EXCEPT ![p] = None] /\ choice' = [choice EXCEPT ![p] = None]
    /\ UNCHANGED <<branches, prBase>>

PollTells ==
    /\ Outside
    /\ \E base \in (branches \cup {None}) \ {prBase, PrHead} : prBase' = base
    /\ UNCHANGED <<repo, choice>>

-----------------------------------------------------------------------------
Create(t) == (\E b \in Names : CreateWorktree(t, b)) \/ PickName(t) \/ AddWorktree(t)

Command(t) ==
    \/ CreateWorktreeFromPr(t) \/ CheckoutPr(t)
    \/ \E p \in Paths, b \in Names :
          SetWorktreeTarget(t, p, b) \/ RenameWorktreeBranch(t, p, b) \/ DiscardWorktree(t, p, b)
    \/ PutTarget(t) \/ RenameBranch(t)
    \/ \E p \in Paths : RemoveWorktree(t, p) \/ (\E b, base \in Names : WrapUpWorktree(t, p, b, base))
    \/ GitRemove(t) \/ DeleteBranch(t) \/ SyncBase(t) \/ HandDown(t)
    \/ Snapshot(t) \/ ListWorktrees(t) \/ AdoptLivePrTargets(t) \/ ListLocalBranches(t) \/ RepairVanished(t)

External == BranchComes \/ BranchGoes \/ Switches \/ RemovedOutside \/ PollTells

Adding(ts) == \E t \in Tasks : ts[t].op = "create" /\ ts[t].pc = "add"

Changed == \/ \E t \in Tasks : Command(t)
           \/ External

Step ==
    \/ /\ \E t \in Tasks :
             /\ Create(t)
             /\ clash' = (clash \/ (task[t].op = "create" /\ task[t].pc = "add"
                                      /\ task[t].target \in branches /\ repo' = repo /\ ~disturbed))
       /\ disturbed' = (Adding(task') /\ disturbed)
    \/ Changed /\ disturbed' = (Adding(task') /\ (disturbed \/ repo' # repo)) /\ clash' = clash

\* what a snapshot under way has listed
Listed(t, pc) == task[t].op = "snapshot" /\ task[t].pc = pc

\* why a choice may have been overruled
Overrules(p) ==
    \/ choice'[p] \notin branches'
    \/ \E t \in Tasks : Listed(t, "repair") /\ choice'[p] \notin task[t].locals
    \/ /\ prBase' \notin {None, choice'[p]}
       /\ tree'[p] = PrHead \/ \E t \in Tasks : Listed(t, "listed") /\ task[t].entries[p] = PrHead
    \/ \E t \in Tasks : task'[t].op = "wrapUp" /\ task'[t].branch = choice'[p]

Next ==
    /\ Step
    /\ overruled' = [p \in Paths |->
          IF choice'[p] = None THEN FALSE
          ELSE \/ Overrules(p)
               \/ overruled[p] /\ choice'[p] = choice[p] /\ store'[p] # Entry(choice'[p])]

Spec == Init /\ [][Next]_vars

-----------------------------------------------------------------------------
\* What the user chose stays where the work lands, unless since then the branch was gone or
\* tidied away, or a live pull request goes elsewhere: no snapshot or hand-down that decided
\* from a store it read earlier replaces a later choice (putTarget, `expect`). A snapshot may
\* go by the branches and the worktrees it listed: a branch that came back since and was
\* chosen again is the value it expects.
ChoiceIsKept == \A p \in Paths : choice[p] # None /\ store[p].target # choice[p] => overruled[p]

\* A target that is not the one chosen says what it replaced, through renames and later moves
\* (TargetEntry.retargetedFrom: "announced rather than done behind the user's back").
MovesAreAnnounced == \A p \in Paths : choice[p] # None /\ store[p].target # choice[p] => store[p].note # None

\* The store is shared by all repositories and branch names are not unique: no command here
\* touches the entry of another repository's worktree (renameTargetBranch, _handDownTarget).
OtherReposUntouched == store[Other] = Entry("a")

\* Two creations never pick the same branch or directory: git refuses a picked name only if
\* something else took it (withWorktreeCreateLock).
CreationsDoNotCollide == ~clash

\* Where the work lands is the user's choice, moved only in the open, each repository and each creation on
\* its own (manager.ts, repo_service.ts).
WorktreeSafety == ChoiceIsKept /\ MovesAreAnnounced /\ OtherReposUntouched /\ CreationsDoNotCollide
=============================================================================
