------------------------------- MODULE Projects -------------------------------
(***************************************************************************)
(* The projects of a server and projects.json (manager.ts: addProject to     *)
(* notifyProjectsChanged; project-store.ts; serve.ts: mergeProjects and the   *)
(* save at startup; ws/commands/project.ts and repo_settings.ts). A directory *)
(* may be spelled in two ways; re-pointing a project awaits git between its   *)
(* checks and its write; the server crashes and starts again.                 *)
(***************************************************************************)
EXTENDS Naturals, FiniteSets, Functions

CONSTANTS
    Ids,            \* the ids randomUUID gives, in this run of the model
    Spellings,      \* of directories
    Canonical,      \* per spelling, the canonical one
    Started,        \* the --project arguments a start may be given
    Keys,           \* the settings a project may override
    Torn,           \* a file that does not parse
    MaxRequests, MaxFailures, MaxCrashes      \* bounds

VARIABLES
    up,
    projects,       \* id -> its path as spelled, and the settings it overrides
    file,           \* what projects.json holds, or Torn
    present,        \* the directories that are there
    repoints,       \* repointProject calls waiting for git
    used,           \* ids given so far
    counts,
    \* history
    last,           \* the projects as they were when the server stopped
    unsaved         \* a save failed after which none succeeded

vars == <<up, projects, file, present, repoints, used, counts, last, unsaved>>

NoProjects == [i \in {} |-> 0]
Count == [requests |-> 0, failures |-> 0, crashes |-> 0]

Init ==
    /\ up = TRUE
    /\ projects = NoProjects /\ file = NoProjects
    /\ present = {Canonical[s] : s \in Spellings}
    /\ repoints = {} /\ used = {}
    /\ counts = Count
    /\ last = NoProjects /\ unsaved = FALSE

Counted(what, bound) == counts[what] < bound /\ counts' = [counts EXCEPT ![what] = @ + 1]

At(dir) == {i \in DOMAIN projects : Canonical[projects[i].path] = dir}

\* mutant: the file is written when the settings change, and not when a project moves
NotifiedOfSettings(new) ==
    IF DOMAIN new = DOMAIN projects /\ \E i \in DOMAIN new : new[i].path # projects[i].path
    THEN UNCHANGED <<file, unsaved>> ELSE file' = new /\ unsaved' = FALSE

\* notifyProjectsChanged and saveProjects, whose failure is logged and swallowed
Notified(new) == \/ file' = new /\ unsaved' = FALSE
                 \/ counts.failures < MaxFailures /\ unsaved' = TRUE /\ UNCHANGED file

Changed(new) ==
    /\ projects' = new /\ Notified(new)
    /\ counts' = [counts EXCEPT !.requests = @ + 1, !.failures = IF unsaved' THEN @ + 1 ELSE @]

Request == up /\ counts.requests < MaxRequests

-----------------------------------------------------------------------------
(* The commands. *)

\* a directory that is open already is answered with its project
AddProject(spelling) ==
    /\ Request /\ Canonical[spelling] \in present /\ At(Canonical[spelling]) = {}
    /\ \E id \in Ids \ used :
         /\ used' = used \cup {id}
         /\ Changed([i \in DOMAIN projects \cup {id} |->
                       IF i = id THEN [path |-> spelling, settings |-> {}] ELSE projects[i]])
    /\ UNCHANGED <<up, present, repoints, last>>

\* null clears a key; the others stay
UpdateProjectSettings(id, set, cleared) ==
    /\ Request /\ id \in DOMAIN projects /\ set \cup cleared # {} /\ set \cap cleared = {}
    /\ Changed([projects EXCEPT ![id].settings = (@ \ cleared) \cup set])
    /\ UNCHANGED <<up, present, repoints, used, last>>

RemoveProject(id) ==
    /\ Request /\ id \in DOMAIN projects
    /\ Changed(Restrict(projects, DOMAIN projects \ {id}))
    /\ UNCHANGED <<up, present, repoints, used, last>>

\* repointProject up to `await isGitRepo`: the same directory is a no-op, another's is refused
RepointProject(id, dir) ==
    /\ up /\ Counted("requests", MaxRequests)
    /\ id \in DOMAIN projects /\ dir \in present /\ At(dir) = {}
    /\ repoints' = repoints \cup {[id |-> id, path |-> dir]}
    /\ UNCHANGED <<up, projects, file, present, used, last, unsaved>>

\* ... and after it: the entry it took before is written, in the table or removed from it by now
Repointed(r) ==
    /\ up /\ r \in repoints /\ repoints' = repoints \ {r}
    /\ LET new == IF r.id \in DOMAIN projects THEN [projects EXCEPT ![r.id].path = r.path] ELSE projects IN
       /\ projects' = new /\ Notified(new)
       /\ counts' = [counts EXCEPT !.failures = IF unsaved' THEN @ + 1 ELSE @]
    /\ UNCHANGED <<up, present, used, last>>

NotARepository(r) ==
    /\ up /\ r \in repoints /\ repoints' = repoints \ {r}
    /\ UNCHANGED <<up, projects, file, present, used, counts, last, unsaved>>

-----------------------------------------------------------------------------
(* Stop and start. *)

Stop ==
    /\ up' = FALSE /\ repoints' = {}
    /\ projects' = NoProjects /\ last' = projects
    /\ UNCHANGED <<present, used>>

Crash ==
    /\ up /\ Counted("crashes", MaxCrashes)
    /\ Stop
    /\ UNCHANGED <<file, unsaved>>

\* writeFileSync truncates the file before it writes
CrashInSave ==
    /\ up /\ Counted("crashes", MaxCrashes)
    /\ Stop
    /\ file' = Torn /\ unsaved' = TRUE

\* loadProjects: a file that does not parse is no projects; an entry whose directory is away is left out
Loaded ==
    IF file = Torn THEN NoProjects
    ELSE Restrict(file, {i \in DOMAIN file : Canonical[file[i].path] \in present})

\* mergeProjects: one id for a spelling (the first in the file; either here), and those of arguments
\* that no stored project has are given new ones
Merged(ids) ==
    /\ {Loaded[i].path : i \in ids} = {Loaded[i].path : i \in DOMAIN Loaded}
    /\ \A i, j \in ids : Loaded[i].path = Loaded[j].path => i = j

\* the manager is given id and path, and the table is saved as such
Restart(args) ==
    /\ ~up /\ up' = TRUE
    /\ \E ids \in SUBSET DOMAIN Loaded, fresh \in [args -> Ids] :
         LET new == {s \in args : s \notin {Loaded[i].path : i \in ids}}
             given == {fresh[s] : s \in new}
         IN /\ Merged(ids)
            /\ given \cap used = {} /\ Cardinality(given) = Cardinality(new)
            /\ used' = used \cup given
            /\ projects' = [i \in ids \cup given |->
                 IF i \in ids THEN [path |-> Loaded[i].path, settings |-> {}]
                 ELSE [path |-> CHOOSE s \in new : fresh[s] = i, settings |-> {}]]
    /\ file' = projects' /\ unsaved' = FALSE
    /\ UNCHANGED <<present, repoints, counts, last>>

\* a volume that is unmounted, or back
DirectoryMoves(dir) ==
    /\ Counted("failures", MaxFailures)
    /\ present' = IF dir \in present THEN present \ {dir} ELSE present \cup {dir}
    /\ UNCHANGED <<up, projects, file, repoints, used, last, unsaved>>

Next ==
    \/ \E s \in Spellings : AddProject(s)
    \/ \E id \in Ids : \/ \E set, cleared \in SUBSET Keys : UpdateProjectSettings(id, set, cleared)
                       \/ RemoveProject(id)
                       \/ \E dir \in present : RepointProject(id, dir)
    \/ \E r \in repoints : Repointed(r) \/ NotARepository(r)
    \/ Crash \/ CrashInSave \/ (\E args \in SUBSET Started : Restart(args))
    \/ \E dir \in {Canonical[s] : s \in Spellings} : DirectoryMoves(dir)

Spec == Init /\ [][Next]_vars

-----------------------------------------------------------------------------
Starts == ~up /\ up'

\* A start brings back every project under the id the clients know it by, where it was last moved to,
\* unless its last save was lost, its directory is away or another project has its path.
IdsSurvive ==
    [][Starts => \A i \in DOMAIN last :
          \/ unsaved \/ Canonical[last[i].path] \notin present
          \/ \E j \in DOMAIN last \ {i} : last[j].path = last[i].path
          \/ i \in DOMAIN projects' /\ projects'[i].path = last[i].path]_vars

\* "Carried verbatim so a save cannot drop keys" (manager.ts): a start brings back the settings.
SettingsSurvive ==
    [][Starts => \A i \in DOMAIN last :
          unsaved \/ i \notin DOMAIN projects' \/ projects'[i].settings = last[i].settings]_vars
=============================================================================
