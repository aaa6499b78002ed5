------------------------------ MODULE WorkspaceMC ------------------------------
(* The repositories a server works in: how changes to them are seen, their *)
(* worktrees and where those land, the base branch, and the projects. The  *)
(* parts share no state: `part` says which one runs. One that does not run *)
(* starts in a fixed state, in which no fair action is enabled.            *)
EXTENDS RepoSnapshots, Sequences, TLC

CONSTANTS
    Tasks, None, MaxRequests, MaxTroubles, MaxFailures,
    Ids, Started, Torn, MaxProjectRequests, MaxCrashes, MaxPushed, MaxSwitches,
    BranchNames, MaxCommits

(* two directories, one of which has a second spelling *)
Spellings == {"d", "e", "link"}
Canonical == [s \in Spellings |-> IF s = "link" THEN "d" ELSE s]
Settings == {"provider", "hue"}
Tables == UNION {[S -> [path : Spellings, settings : SUBSET Settings]] : S \in SUBSET Ids}

(* projects.json half written is no table, and a start names directories. *)
ASSUME ProjectsAssumption == Torn \notin Tables /\ Started \subseteq Spellings

(* The absence of a branch is not the name of one. *)
ASSUME BranchesAssumption == None \notin {"main", "a", "b", "c", "detached"}

(* Branches in alphabetical order, the worktree's own one among them; a rev *)
(* is a pair, which the absence of one is not.                             *)
TestNames == <<"a", "main", "me">>
ASSUME LandingAssumption ==
  /\ DOMAIN BranchNames \subseteq Nat \ {0} /\ \E i \in DOMAIN BranchNames : BranchNames[i] = "me"
  /\ \A i \in DOMAIN BranchNames : None # <<"heads", BranchNames[i]>>
  /\ MaxCommits \in Nat \ {0}

VARIABLES
    part,
    branches, tree, store, prBase, task, requests, troubles, choice, overruled, disturbed, clash,
    origin, tracking, ref, head, files, sync, host, switches,
    parents, tips, onOrigin, originTip, originHead, override, pullBase, stored, answer,
    up, projects, file, present, repoints, used, counts, last, unsaved

wtVars == <<branches, tree, store, prBase, task, requests, troubles, choice, overruled, disturbed, clash>>
bsVars == <<origin, tracking, ref, head, files, sync, host, switches>>
lbVars == <<parents, tips, onOrigin, originTip, originHead, override, pullBase, stored, answer>>
pjVars == <<up, projects, file, present, repoints, used, counts, last, unsaved>>

Wt == INSTANCE Worktrees WITH
  Names <- {"main", "a", "b", "c"}, Main <- "main", Candidates <- <<"c", "b", "a">>,
  Paths <- {"w1", "w2"}, Dirs <- <<"w1", "w2">>, PrHead <- "b", PrPath <- "w2", Other <- "o"
Bs == INSTANCE BaseSync WITH
  Base <- "main", Feature <- "feature", Paths <- {"w1", "w2"}, tree <- files,
  external <- switches, MaxExternal <- MaxSwitches

Lb == INSTANCE LandingBranch WITH
  Names <- BranchNames, Me <- "me", head <- tips, prBase <- pullBase

Pj == INSTANCE Projects WITH
  Keys <- Settings, MaxRequests <- MaxProjectRequests

PartsInit ==
  /\ part \in {"snapshots", "worktrees", "base", "landing", "projects"}
  /\ Init /\ (part # "snapshots" => ~listed /\ ~linked)
  /\ Wt!Init /\ (part # "worktrees" => tree["w1"] = None)
  /\ IF part = "base" THEN Bs!Init
     ELSE /\ origin = 1 /\ tracking = 1 /\ sync = "idle" /\ host = "none" /\ switches = 0
          /\ ref = [b \in {"main", "feature"} |-> [upto |-> 1, own |-> FALSE]]
          /\ head = [p \in {"w1", "w2"} |-> "main"] /\ files = [p \in {"w1", "w2"} |-> ref["main"]]
  /\ IF part = "landing" THEN Lb!Init
     ELSE /\ parents = [c \in 1 .. MaxCommits |-> {}] /\ tips = [me |-> 1] /\ onOrigin = {} /\ originTip = 1
          /\ originHead = None /\ override = None /\ pullBase = None /\ stored = None /\ answer = None
  /\ Pj!Init

PartsNext ==
  /\ part' = part
  /\ \/ part = "snapshots" /\ Next /\ UNCHANGED <<wtVars, bsVars, lbVars, pjVars>>
     \/ part = "worktrees" /\ Wt!Next /\ UNCHANGED <<vars, bsVars, lbVars, pjVars>>
     \/ part = "base" /\ Bs!Next /\ UNCHANGED <<vars, wtVars, lbVars, pjVars>>
     \/ part = "landing" /\ Lb!Next /\ UNCHANGED <<vars, wtVars, bsVars, pjVars>>
     \/ part = "projects" /\ Pj!Next /\ UNCHANGED <<vars, wtVars, bsVars, lbVars>>

PartsSpec == PartsInit /\ [][PartsNext]_<<part, vars, wtVars, bsVars, lbVars, pjVars>> /\ Fairness

WorktreeSafety == Wt!WorktreeSafety
WorkingTreesFollow == Bs!WorkingTreesFollow
LandingSafety == Lb!LandingSafety
IdsSurvive == Pj!IdsSurvive
SettingsSurvive == Pj!SettingsSurvive

\* No step goes back: to an older snapshot, or to a branch without its own commits.
NothingGoesBack == NewestWins /\ Bs!NothingIsDiscarded
=============================================================================
