------------------------------ MODULE ExposureMC ------------------------------
(* What the daemon shows of the machine to a device: ports and what may be *)
(* done with them, documents, and the devices themselves. The parts share  *)
(* no state: `part` says which one runs. One that does not run starts in a *)
(* fixed state, in which none of its fair actions is enabled.              *)
EXTENDS PortScanner, Sequences, FiniteSets

CONSTANTS
    Retries, Pids, MaxAncestorDepth, MaxListeners, Places, Worktrees,
    Devices, Ports, MaxLiveGrants,
    Paths, Excludes, DocNames, DotNames, ExcludedDirs, DefaultDocDirs, NoRoots,
    Sockets, Codes, MaxGrants, MaxRestarts

(* A socket that authenticated is told apart from one that did not. *)
ASSUME CodesAssumption == Codes \cap {"closed", "unauthed"} = {}

(* Publishing devices are finitely many, and no device or port is taken for *)
(* the absence of one or for a publish that waits.                         *)
ASSUME PublishersAssumption ==
  /\ IsFiniteSet(Devices) /\ MaxLiveGrants \in Nat \ {0}
  /\ Devices \cap {"none", "waiting", "binding"} = {} /\ "none" \notin Ports

(* A pid is positive; 0 is the one a process table does not have. *)
ASSUME ProcessesAssumption ==
  Pids \subseteq Nat \ {0} /\ MaxAncestorDepth \in Nat /\ MaxListeners \in Nat

(* A path has segments, and no document is called like a default directory. *)
ASSUME DocumentsAssumption ==
  /\ Paths \cup DefaultDocDirs \subseteq Seq(STRING) \ {<<>>}
  /\ \A dir \in DefaultDocDirs : dir[Len(dir)] \notin DocNames

VARIABLES
    part,
    holder, pidUser, active, recorded, role, kill,
    parent, place, listeners, live,
    publish, binding, server, closing, bound, published, lapsed, shared, leaked,
    files, ignored, inside, outside, tooLarge, exclude,
    tree, watching, docsShown, debounce, walk, rescan, docsCached, edits, docsMoves, docsFailures,
    code, shown, paired, kept, socket, asking, late, grants, restarts

pkVars == <<holder, pidUser, active, recorded, role, kill>>
paVars == <<parent, place, listeners, live>>
dpVars == <<publish, binding, server, closing, bound, published, lapsed, shared, leaked>>
dsVars == <<files, ignored, inside, outside, tooLarge, exclude>>
diVars == <<tree, watching, docsShown, debounce, walk, rescan, docsCached, edits, docsMoves, docsFailures>>
dvVars == <<code, shown, paired, kept, socket, asking, late, grants, restarts>>

(* The directories of processes, and what is or was a worktree. *)
TestPlaces == {<<>>, <<"a", "x">>, <<"a", "b">>}
TestWorktrees == {<<"a">>, <<"a", "b">>}

(* A worktree's files: at the root, below the default directory, below an  *)
(* excluded one, below a dot directory inside and outside of it, no document. *)
TestPaths == {<<"README.md">>, <<"docs", "a.md">>, <<"docs", "sub", "b.html">>, <<"docs", "build", "c.md">>,
          <<"docs", ".x", "d.md">>, <<"docs", "e.ts">>}
TestExcludes == {{}, {<<"docs">>}, {<<"docs", "sub">>}, {<<"docs", "a.md">>}}
TestDirs == {<<"docs">>}

Pk == INSTANCE PortKill
Pa == INSTANCE PortAttribution
Dp == INSTANCE DocPublishing WITH grants <- published
Ds == INSTANCE DocScan WITH None <- NoRoots
Di == INSTANCE DocIndex WITH
  shown <- docsShown, cached <- docsCached, changes <- edits, moves <- docsMoves, failures <- docsFailures
Dv == INSTANCE Devices

PartsInit ==
  /\ part \in {"scanner", "kill", "attribution", "publishing", "scan", "index", "devices"}
  /\ Init /\ (part # "scanner" => world = "absent" /\ ~watched)
  /\ Pk!Init /\ (part # "kill" => active /\ recorded /\ role = "plain")
  /\ IF part = "attribution" THEN Pa!Init
     ELSE /\ parent = [p \in Pids |-> 0] /\ place = [p \in Pids |-> <<>>]
          /\ listeners = <<1>> /\ live = {}
  /\ IF part = "scan" THEN Ds!Init
     ELSE files = {} /\ ignored = {} /\ inside = {} /\ outside = {} /\ tooLarge = {} /\ exclude = {}
  /\ Dp!Init /\ Di!Init /\ Dv!Init

PartsNext ==
  \/ part = "scanner" /\ Next
       /\ UNCHANGED <<pkVars, paVars, dpVars, dsVars, diVars, dvVars>>
  \/ part = "kill" /\ Pk!Next
       /\ UNCHANGED <<vars, paVars, dpVars, dsVars, diVars, dvVars>>
  \/ part = "publishing" /\ Dp!Next
       /\ UNCHANGED <<vars, pkVars, paVars, dsVars, diVars, dvVars>>
  \/ part = "index" /\ Di!Next
       /\ UNCHANGED <<vars, pkVars, paVars, dpVars, dsVars, dvVars>>
  \/ part = "devices" /\ Dv!Next
       /\ UNCHANGED <<vars, pkVars, paVars, dpVars, dsVars, diVars>>

PartsSpec ==
  /\ PartsInit
  /\ [][PartsNext /\ UNCHANGED part]_<<part, vars, pkVars, paVars, dpVars, dsVars, diVars, dvVars>>
  /\ Fairness /\ Di!Fairness

\* Whoever looks at the ports sees the same, with one alert for an outage, and a kill strikes what it
\* was aimed at.
PortsSafety == ViewsAgree /\ OneAlertPerOutage /\ Pk!KillSafety

\* A port goes to the worktree it was started from, and a walk finds the documents git would.
LookupsAgree ==
  /\ part = "attribution" => Pa!OwnersAreFound
  /\ part = "scan" => Ds!WalkAgreesWithGit

PublishingSafety == Dp!PublishingSafety
PairingSafety == Dv!PairingSafety

\* Whoever keeps watching, ports or documents, ends up with what there is.
WatchersSeeTheEnd == WatchersCatchUp /\ Di!IndexCatchesUp
=============================================================================
