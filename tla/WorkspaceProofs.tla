---------------------------- MODULE WorkspaceProofs ----------------------------
(* Proofs about WorkspaceMC for any bounds, project ids and arguments: the  *)
(* snapshots' order and that no change is lost on them, the working trees   *)
(* of the base branch, the ids of the projects, where worktrees land with   *)
(* two paths and four branches, for any tasks and requests, and which       *)
(* branch is suggested and kept, for any commit graph and branches.         *)
(* Each part has an invariant of its own; a step of another part leaves it  *)
(* alone, because it leaves all the part's variables alone.                 *)
EXTENDS WorkspaceMC, FiniteSetTheorems, WellFoundedInduction, TLAPS

allVars == <<part, vars, wtVars, bsVars, lbVars, pjVars>>

-----------------------------------------------------------------------------
(* Snapshots *)

(* A number is one pass's; the current one, once it has listed, has read no *)
(* less than what is shown; and nobody has read a future version.           *)
SnapshotInv ==
  /\ version \in Nat /\ shown \in 0 .. version /\ generation \in Nat
  /\ \A pass \in passes :
       /\ DOMAIN pass = {"gen", "phase", "seen"}
       /\ pass.gen \in 1 .. generation
       /\ pass.seen \in 0 .. version
       /\ pass.phase \in {"listing", "listed", "enriching"}
       /\ pass.gen = generation /\ pass.phase # "listing" => shown <= pass.seen
  /\ \A p, q \in passes : p.gen = q.gen => p = q

(* What an action does to the passes: one begins, one goes on, or one ends. *)
Begins == /\ generation' = generation + 1
          /\ passes' = passes \cup {[gen |-> generation + 1, phase |-> "listing", seen |-> 0]}
Others == UNCHANGED <<generation, passes>>

LEMMA BeginsKept ==
  ASSUME SnapshotInv, Begins \/ Others, shown' = shown, version' \in {version, version + 1}
  PROVE  SnapshotInv'
<1>1. CASE Others
  BY <1>1 DEF SnapshotInv, Others
<1>2. CASE Begins
  <2>. DEFINE new == [gen |-> generation + 1, phase |-> "listing", seen |-> 0]
  <2>1. new.gen = generation + 1 /\ new.phase = "listing" /\ new.seen = 0
        /\ DOMAIN new = {"gen", "phase", "seen"}
    OBVIOUS
  <2>2. passes' = passes \cup {new} /\ generation' = generation + 1
    BY <1>2 DEF Begins
  <2>. HIDE DEF new
  <2>3. \A p \in passes : p.gen # new.gen
    BY <2>1 DEF SnapshotInv
  <2>. QED BY <2>1, <2>2, <2>3 DEF SnapshotInv
<1>. QED BY <1>1, <1>2

LEMMA PassStepKept ==
  ASSUME SnapshotInv, NEW pass \in passes, List(pass) \/ ShowListed(pass) \/ ShowEnriched(pass)
  PROVE  SnapshotInv' /\ shown' >= shown
<1>1. pass.gen \in Nat /\ pass.seen \in Nat /\ pass.phase \in {"listing", "listed", "enriching"}
  BY DEF SnapshotInv
<1>2. CASE List(pass)
  <2>. DEFINE next == [pass EXCEPT !.phase = "listed", !.seen = version]
  <2>1. /\ DOMAIN next = {"gen", "phase", "seen"}
        /\ next.gen = pass.gen /\ next.phase = "listed" /\ next.seen = version
    BY DEF SnapshotInv
  <2>2. passes' = (passes \ {pass}) \cup {next} /\ UNCHANGED <<version, generation, shown>>
    BY <1>2 DEF List, PassTo, disk
  <2>. HIDE DEF next
  <2>3. \A p \in passes' : (p \in passes /\ p.gen # next.gen) \/ p = next
    BY <2>1, <2>2 DEF SnapshotInv
  <2>4. \A p, q \in passes' : p.gen = q.gen => p = q
    BY <2>3 DEF SnapshotInv
  <2>5. pass.gen \in 1 .. generation /\ version \in 0 .. version /\ shown <= version
    BY DEF SnapshotInv
  <2>. QED BY <2>1, <2>2, <2>3, <2>4, <2>5 DEF SnapshotInv
<1>3. CASE ShowListed(pass) /\ Current(pass)
  <2>. DEFINE next == [pass EXCEPT !.phase = "enriching"]
  <2>1. /\ DOMAIN next = {"gen", "phase", "seen"}
        /\ next.gen = pass.gen /\ next.phase = "enriching" /\ next.seen = pass.seen
    BY DEF SnapshotInv
  <2>2. passes' = (passes \ {pass}) \cup {next} /\ UNCHANGED <<version, generation>> /\ shown' = pass.seen
    BY <1>3 DEF ShowListed, PassTo, disk
  <2>3. pass.gen = generation /\ shown <= pass.seen
    BY <1>3 DEF ShowListed, Current, SnapshotInv
  <2>. HIDE DEF next
  <2>. QED BY <2>1, <2>2, <2>3 DEF SnapshotInv
<1>4. CASE ShowEnriched(pass) /\ Current(pass)
  <2>1. passes' = passes \ {pass} /\ UNCHANGED <<version, generation>> /\ shown' = pass.seen
    BY <1>4 DEF ShowEnriched, PassEnds, disk
  <2>2. pass.gen = generation /\ shown <= pass.seen
    BY <1>4 DEF ShowEnriched, Current, SnapshotInv
  <2>. QED BY <2>1, <2>2 DEF SnapshotInv
<1>5. CASE (ShowListed(pass) \/ ShowEnriched(pass)) /\ ~Current(pass)
  <2>1. passes' = passes \ {pass} /\ UNCHANGED <<version, generation, shown>>
    BY <1>5 DEF ShowListed, ShowEnriched, PassEnds, disk
  <2>. QED BY <2>1 DEF SnapshotInv
<1>. QED BY <1>2, <1>3, <1>4, <1>5

LEMMA SnapshotKept ==
  ASSUME SnapshotInv, [PartsNext]_allVars
  PROVE  SnapshotInv' /\ shown' >= shown
<1>0. version \in Nat /\ shown \in Nat
  BY DEF SnapshotInv
<1>1. CASE UNCHANGED vars
  BY <1>1 DEF vars, disk, SnapshotInv
<1>2. ASSUME NEW pass \in passes, List(pass) \/ ShowListed(pass) \/ ShowEnriched(pass)
      PROVE  SnapshotInv' /\ shown' >= shown
  BY <1>2, PassStepKept
<1>3. ASSUME NEW pass \in passes, PassFails(pass) PROVE SnapshotInv' /\ shown' >= shown
  <2>1. passes' = passes \ {pass} /\ UNCHANGED <<version, generation, shown>>
    BY <1>3 DEF PassFails, PassEnds, disk
  <2>. QED BY <2>1 DEF SnapshotInv
<1>4. ASSUME NEW w \in Watch, Event(w) \/ WatchFails(w) PROVE SnapshotInv' /\ shown' >= shown
  BY <1>0, <1>4, BeginsKept DEF Event, WatchFails, Others, disk
<1>5. CASE InnerVanished
  BY <1>0, <1>5, BeginsKept DEF InnerVanished, Others, disk
<1>6. CASE DebounceFires
  BY <1>0, <1>6, BeginsKept DEF DebounceFires, Broadcast, Begins, disk
<1>7. CASE TurnEnds
  BY <1>0, <1>7, BeginsKept DEF TurnEnds, Broadcast, Begins, Others
<1>8. CASE SecondPasses
  BY <1>0, <1>8, BeginsKept DEF SecondPasses, Broadcast, Begins, Others, disk
<1>9. CASE RefMoves \/ WorktreeMoves \/ TurnStarts \/ AgentEdits
  BY <1>0, <1>9, BeginsKept DEF RefMoves, WorktreeMoves, TurnStarts, AgentEdits, Change, Disk, Others
<1>10. CASE ProjectsChange
  BY <1>0, <1>10, BeginsKept DEF ProjectsChange, Change, Broadcast, Begins
<1>. QED BY <1>1, <1>2, <1>3, <1>4, <1>5, <1>6, <1>7, <1>8, <1>9, <1>10
         DEF PartsNext, allVars, Next, PassStep

-----------------------------------------------------------------------------
(* A change is on its way to the clients *)

(* What there is is shown, with its pull requests, or will be: an agent is  *)
(* at work, whose turn asks at its end; an event, the debounce or the       *)
(* throttle will start a pass; or the current pass has still to read, or    *)
(* has read it as it is. Or the pass failed that would have shown it, or    *)
(* the watch, or the watcher holds one of a directory that is gone.         *)
NoChangeIsForgotten ==
  \/ shown = version /\ enriched = version
  \/ lost = version \/ broken \/ orphaned
  \/ turn \/ debounce \/ throttle = "armed"
  \/ events \cap watches # {}
  \/ \E pass \in passes : Current(pass) /\ (pass.phase = "listing" \/ pass.seen = version)

(* Beside the property: what is listed is watched, or an event is there     *)
(* that has the inner watch follow its directory.                           *)
NoticeInv ==
  /\ SnapshotInv
  /\ enriched \in 0 .. shown
  /\ listed \in BOOLEAN /\ armed = listed /\ (turn => listed)
  /\ listed /\ ~broken => {"git", "heads"} \subseteq watches
  /\ listed /\ ~broken /\ linked => "inner" \in watches \/ "git" \in events
  /\ NoChangeIsForgotten

(* A pass that begins will show what there is, whatever is watched then. *)
LEMMA BeginningIsNotice ==
  ASSUME NoticeInv, SnapshotInv', NEW now \in BOOLEAN, Broadcast(now), listed' = now,
         UNCHANGED <<linked, shown, enriched>>, turn' => now
  PROVE  NoticeInv'
<1>1. generation' = generation + 1
      /\ [gen |-> generation + 1, phase |-> "listing", seen |-> 0] \in passes'
  BY DEF Broadcast
<1>2. NoChangeIsForgotten'
  BY <1>1 DEF NoChangeIsForgotten, Current
<1>3. /\ armed' = now
      /\ now # armed => watches' = (IF now THEN Arm ELSE {}) /\ ~broken'
      /\ now = armed => UNCHANGED <<watches, orphaned, events, broken>>
  BY DEF Broadcast, Sync
<1>. QED BY <1>2, <1>3 DEF NoticeInv, Arm, Watch

(* The current pass may go on or end as long as what it read is shown. *)
LEMMA PassesAreNotice ==
  ASSUME NoticeInv, NEW pass \in passes, List(pass) \/ ShowListed(pass) \/ ShowEnriched(pass)
  PROVE  NoChangeIsForgotten'
<1>. USE DEF Current
<1>0. UNCHANGED <<disk, watcher, throttle, generation, fault>>
  BY DEF List, ShowListed, ShowEnriched
<1>1. SUFFICES ASSUME ~(lost = version \/ broken \/ orphaned \/ turn \/ debounce \/ throttle = "armed"
                          \/ events \cap watches # {})
               PROVE  NoChangeIsForgotten'
  BY <1>0 DEF NoChangeIsForgotten, disk, watcher, fault
<1>2. /\ shown \in 0 .. version /\ enriched \in 0 .. shown /\ version \in Nat /\ generation \in Nat
      /\ \A p, q \in passes : p.gen = q.gen => p = q
      /\ \A p \in passes : p.seen \in 0 .. version /\ DOMAIN p = {"gen", "phase", "seen"}
      /\ \A p \in passes : p.gen = generation /\ p.phase # "listing" => shown <= p.seen
  BY DEF NoticeInv, SnapshotInv
<1>3. \/ shown = version /\ enriched = version
      \/ \E p \in passes : p.gen = generation /\ (p.phase = "listing" \/ p.seen = version)
  BY <1>1 DEF NoticeInv, NoChangeIsForgotten
<1>4. version' = version /\ generation' = generation
  BY <1>0 DEF disk
<1>5. CASE ~Current(pass) /\ (shown = version /\ enriched = version)
  BY <1>4, <1>5 DEF List, ShowListed, ShowEnriched, NoChangeIsForgotten
<1>6. CASE ~Current(pass) /\ ~(shown = version /\ enriched = version)
  <2>1. PICK p \in passes : p.gen = generation /\ (p.phase = "listing" \/ p.seen = version)
    BY <1>3, <1>6
  <2>2. p \in passes'
    BY <1>6, <2>1 DEF List, ShowListed, ShowEnriched, PassTo, PassEnds
  <2>. QED BY <1>4, <2>1, <2>2 DEF NoChangeIsForgotten
<1>7. CASE Current(pass) /\ List(pass)
  <2>. DEFINE next == [pass EXCEPT !.phase = "listed", !.seen = version]
  <2>1. next.gen = generation /\ next.seen = version
    BY <1>2, <1>7
  <2>2. next \in passes'
    BY <1>7 DEF List, PassTo
  <2>. HIDE DEF next
  <2>. QED BY <1>4, <2>1, <2>2 DEF NoChangeIsForgotten
<1>8. CASE Current(pass) /\ ShowListed(pass)
  <2>. DEFINE next == [pass EXCEPT !.phase = "enriching"]
  <2>1. next.gen = generation /\ next.seen = pass.seen /\ next \in passes'
    BY <1>2, <1>8 DEF ShowListed, PassTo
  <2>2. pass.seen = version
    BY <1>2, <1>3, <1>8 DEF ShowListed
  <2>. HIDE DEF next
  <2>. QED BY <1>4, <2>1, <2>2 DEF NoChangeIsForgotten
<1>9. CASE Current(pass) /\ ShowEnriched(pass)
  <2>1. pass.seen = version
    BY <1>2, <1>3, <1>9 DEF ShowEnriched
  <2>. QED BY <1>4, <1>9, <2>1 DEF ShowEnriched, NoChangeIsForgotten
<1>. QED BY <1>5, <1>6, <1>7, <1>8, <1>9

(* While nothing happens to the disk, what is pending stays or becomes a    *)
(* timer, or is reported lost.                                              *)
LEMMA NoticesAreNotice ==
  ASSUME NoticeInv, SnapshotInv', Others, UNCHANGED <<disk, armed, throttle, shown, enriched>>,
         \/ \E w \in Watch : Event(w) \/ WatchFails(w)
         \/ InnerVanished
  PROVE  NoticeInv'
<1>. USE DEF NoticeInv, NoChangeIsForgotten, Current, Others, disk
<1>1. ASSUME NEW w \in Watch, Event(w) PROVE NoticeInv'
  BY <1>1 DEF Event, SyncInner, fault
<1>2. ASSUME NEW w \in Watch, WatchFails(w) PROVE NoticeInv'
  <2>1. w # "heads" \/ broken => broken'
    BY <1>2, Zenon DEF WatchFails
  <2>2. (debounce => debounce') /\ (w \in events => lost' = version')
    BY <1>2 DEF WatchFails
  <2>5. orphaned /\ w # "inner" => orphaned'
    BY <1>2, Zenon DEF WatchFails
  <2>3. CASE w = "heads" /\ ~broken
    BY <1>2, <2>2, <2>3, <2>5 DEF WatchFails
  <2>4. CASE w # "heads" \/ broken
    BY <2>1, <2>4
  <2>. QED BY <2>3, <2>4
<1>3. CASE InnerVanished
  BY <1>3 DEF InnerVanished, fault
<1>. QED BY <1>1, <1>2, <1>3

(* A change is seen by a watch, or made by an agent whose turn will end. *)
LEMMA ChangesAreNotice ==
  ASSUME NoticeInv, SnapshotInv', RefMoves \/ WorktreeMoves \/ TurnStarts \/ AgentEdits
  PROVE  NoticeInv'
<1>. USE DEF NoticeInv, NoChangeIsForgotten, Current, Disk, fault
<1>1. CASE RefMoves
  BY <1>1 DEF RefMoves, Seen, Attached
<1>2. CASE WorktreeMoves
  <2>1. orphaned => orphaned'
    BY <1>2, Zenon DEF WorktreeMoves
  <2>. QED BY <1>2, <2>1 DEF WorktreeMoves, Seen, Attached
<1>3. CASE TurnStarts
  BY <1>3 DEF TurnStarts
<1>4. CASE AgentEdits
  BY <1>4 DEF AgentEdits
<1>. QED BY <1>1, <1>2, <1>3, <1>4

LEMMA NoticeKept ==
  ASSUME NoticeInv, [PartsNext]_allVars
  PROVE  NoticeInv'
<1>0. SnapshotInv' /\ shown' >= shown /\ SnapshotInv
  BY SnapshotKept DEF NoticeInv
<1>1. CASE UNCHANGED vars
  BY <1>0, <1>1 DEF NoticeInv, NoChangeIsForgotten, Current, vars, disk, watcher, fault
<1>2. ASSUME NEW pass \in passes, List(pass) \/ ShowListed(pass) \/ ShowEnriched(pass)
      PROVE  NoticeInv'
  <2>1. UNCHANGED <<disk, watcher, fault>> /\ enriched' \in {enriched, pass.seen} /\ (enriched' # enriched => enriched' = shown')
    BY <1>2 DEF List, ShowListed, ShowEnriched
  <2>2. enriched' \in 0 .. shown'
    BY <1>0, <2>1 DEF NoticeInv, SnapshotInv
  <2>. QED BY <1>0, <1>2, <2>1, <2>2, PassesAreNotice DEF NoticeInv, disk, watcher, fault
<1>3. ASSUME NEW pass \in passes, PassFails(pass) PROVE NoticeInv'
  <2>1. Current(pass) => lost' = version'
    BY <1>3 DEF PassFails, disk
  <2>2. ~Current(pass) => \A p \in passes : Current(p) => p \in passes'
    BY <1>3 DEF PassFails, PassEnds
  <2>. QED BY <1>0, <1>3, <2>1, <2>2 DEF PassFails, NoticeInv, NoChangeIsForgotten, Current, disk, watcher
<1>4. CASE (\E w \in Watch : Event(w) \/ WatchFails(w)) \/ InnerVanished
  BY <1>0, <1>4, NoticesAreNotice DEF Event, WatchFails, InnerVanished, Others
<1>5. CASE DebounceFires
  BY <1>0, <1>5, BeginningIsNotice DEF DebounceFires, disk, NoticeInv
<1>6. CASE TurnEnds
  <2>1. CASE throttle = "open"
    BY <1>0, <1>6, <2>1, BeginningIsNotice DEF TurnEnds, NoticeInv
  <2>2. CASE throttle # "open"
    BY <1>0, <1>6, <2>2 DEF TurnEnds, Ask, NoticeInv, NoChangeIsForgotten
  <2>. QED BY <2>1, <2>2
<1>7. CASE SecondPasses
  <2>1. CASE throttle = "armed"
    BY <1>0, <1>7, <2>1, BeginningIsNotice DEF SecondPasses, disk, NoticeInv
  <2>2. CASE throttle # "armed"
    BY <1>0, <1>7, <2>2 DEF SecondPasses, NoticeInv, NoChangeIsForgotten, Current, disk
  <2>. QED BY <2>1, <2>2
<1>8. CASE RefMoves \/ WorktreeMoves \/ TurnStarts \/ AgentEdits
  BY <1>0, <1>8, ChangesAreNotice
<1>9. CASE ProjectsChange
  BY <1>0, <1>9, BeginningIsNotice DEF ProjectsChange, NoticeInv
<1>. QED BY <1>1, <1>2, <1>3, <1>4, <1>5, <1>6, <1>7, <1>8, <1>9
         DEF PartsNext, allVars, Next, PassStep

(* Every change is shown, or something is under way that will show it:      *)
(* between a directory's appearance and its watch, during a listing, within *)
(* the second after another snapshot (worktree_watcher.ts, ws/throttle.ts,  *)
(* server.ts).                                                              *)
THEOREM NoChangeIsEverForgotten == PartsSpec => []NoChangeIsForgotten
<1>1. PartsInit => NoticeInv
  BY DEF PartsInit, Init, NoticeInv, NoChangeIsForgotten, SnapshotInv, Arm, Watch
<1>2. NoticeInv => NoChangeIsForgotten
  BY DEF NoticeInv
<1>3. NoticeInv /\ [PartsNext]_allVars => NoticeInv'
  BY NoticeKept
<1>. QED BY <1>1, <1>2, <1>3, PTL DEF PartsSpec, allVars

-----------------------------------------------------------------------------
(* The base branch *)

(* Beside the property: the worktree the merge goes to is alone on its      *)
(* branch, whichever that is by then.                                       *)
BaseInv ==
  /\ DOMAIN ref = Bs!Branches /\ head \in [{"w1", "w2"} -> Bs!Branches] /\ DOMAIN files = {"w1", "w2"}
  /\ sync \in {"idle", "fetched", "behind", "merge", "fetchRef"}
  /\ sync = "merge" => host \in {"w1", "w2"} /\ \A p \in {"w1", "w2"} : head[p] = head[host] => p = host
  /\ Bs!WorkingTreesFollow

LEMMA OneHost ==
  ASSUME NEW b, Bs!Cardinality(Bs!Hosts(b)) = 1
  PROVE  \E p \in {"w1", "w2"} : Bs!Hosts(b) = {p}
<1>1. IsFiniteSet(Bs!Hosts(b)) /\ Bs!Hosts(b) \subseteq {"w1", "w2"}
  <2>1. IsFiniteSet({"w1", "w2"})
    <3>1. IsFiniteSet({} \cup {"w1"})
      BY FS_EmptySet, FS_AddElement
    <3>2. IsFiniteSet(({} \cup {"w1"}) \cup {"w2"})
      BY <3>1, FS_AddElement
    <3>3. ({} \cup {"w1"}) \cup {"w2"} = {"w1", "w2"}
      OBVIOUS
    <3>. QED BY <3>2, <3>3
  <2>. QED BY <2>1, FS_Subset DEF Bs!Hosts
<1>2. Cardinality(Bs!Hosts(b)) = 1
  BY DEF Bs!Cardinality, Cardinality
<1>3. \E p : Bs!Hosts(b) = {p}
  BY <1>1, <1>2, FS_Singleton
<1>. QED BY <1>1, <1>3

LEMMA BaseKept ==
  ASSUME BaseInv, [PartsNext]_allVars
  PROVE  BaseInv' /\ \A b \in Bs!Branches : ref[b].own => ref'[b].own
<1>. USE DEF BaseInv, Bs!WorkingTreesFollow
<1>1. CASE UNCHANGED bsVars
  BY <1>1 DEF bsVars
<1>2. CASE Bs!Fetch \/ Bs!Compare \/ Bs!OthersPush
  BY <1>2 DEF Bs!Fetch, Bs!Compare, Bs!OthersPush, Bs!External
<1>3. CASE Bs!List
  <2>1. UNCHANGED <<ref, head, files>> /\ sync' \in {"merge", "fetchRef", "idle"}
    BY <1>3 DEF Bs!List
  <2>2. sync' = "merge" => host' # "none" /\ host' = Bs!PickHost(Bs!Hosts("main"))
    BY <1>3 DEF Bs!List, Bs!NoHost
  <2>3. sync' = "merge" => \E p \in {"w1", "w2"} : Bs!Hosts("main") = {p} /\ host' = p
    BY <2>2, OneHost DEF Bs!PickHost, Bs!NoHost
  <2>. QED BY <2>1, <2>3 DEF Bs!Hosts
<1>4. CASE Bs!Merge
  BY <1>4 DEF Bs!Merge, Bs!Ends
<1>5. CASE Bs!FetchRef
  <2>1. UNCHANGED <<head, files>> /\ sync' = "idle"
    BY <1>5 DEF Bs!FetchRef, Bs!Ends
  <2>2. CASE Bs!Refused("main")
    BY <1>5, <2>1, <2>2 DEF Bs!FetchRef
  <2>3. CASE ~Bs!Refused("main")
    <3>1. ref' = [ref EXCEPT !["main"] = [upto |-> origin, own |-> FALSE]] /\ ~ref["main"].own
      BY <1>5, <2>3 DEF Bs!FetchRef, Bs!Refused
    <3>2. \A p \in {"w1", "w2"} : head[p] # "main"
      BY <2>3 DEF Bs!Refused, Bs!Hosts
    <3>. QED BY <2>1, <3>1, <3>2
  <2>. QED BY <2>2, <2>3
<1>6. ASSUME NEW p \in {"w1", "w2"}, Bs!Commits(p)
      PROVE  BaseInv' /\ \A b \in Bs!Branches : ref[b].own => ref'[b].own
  <2>1. /\ ref' = [ref EXCEPT ![head[p]].own = TRUE] /\ files' = [files EXCEPT ![p] = ref'[head[p]]]
        /\ UNCHANGED <<head, sync, host>> /\ ~ref[head[p]].own
    BY <1>6 DEF Bs!Commits, Bs!External
  <2>2. \A q \in {"w1", "w2"} : head[q] = head[p] => q = p
    BY <1>6, OneHost DEF Bs!Commits, Bs!Hosts
  <2>. QED BY <2>1, <2>2
<1>7. ASSUME NEW p \in {"w1", "w2"}, NEW b \in Bs!Branches, Bs!Switches(p, b)
      PROVE  BaseInv' /\ \A c \in Bs!Branches : ref[c].own => ref'[c].own
  BY <1>7 DEF Bs!Switches, Bs!External, Bs!Hosts
<1>. QED BY <1>1, <1>2, <1>3, <1>4, <1>5, <1>6, <1>7 DEF PartsNext, allVars, Bs!Next

(* The files of a worktree are always those of its branch's newest commit:  *)
(* catching up with the base never moves a branch under somebody's files    *)
(* (base_sync.ts).                                                          *)
THEOREM TreesAlwaysFollow == PartsSpec => []WorkingTreesFollow
<1>1. PartsInit => BaseInv
  BY DEF PartsInit, Bs!Init, BaseInv, Bs!WorkingTreesFollow, Bs!Branches
<1>2. BaseInv => WorkingTreesFollow
  BY DEF BaseInv, WorkingTreesFollow
<1>3. BaseInv /\ [PartsNext]_allVars => BaseInv'
  BY BaseKept
<1>. QED BY <1>1, <1>2, <1>3, PTL DEF PartsSpec, allVars

(* No overtaken pass replaces a newer snapshot (reposSnapshotGeneration),   *)
(* and catching up with the base drops no commit (base_sync.ts).            *)
THEOREM NothingEverGoesBack == PartsSpec => NothingGoesBack
<1>1. PartsInit => SnapshotInv /\ BaseInv
  <2>1. PartsInit => SnapshotInv
    BY DEF PartsInit, Init, SnapshotInv
  <2>2. PartsInit => BaseInv
    BY DEF PartsInit, Bs!Init, BaseInv, Bs!WorkingTreesFollow, Bs!Branches
  <2>. QED BY <2>1, <2>2
<1>2. SnapshotInv /\ BaseInv /\ [PartsNext]_allVars => SnapshotInv' /\ BaseInv'
  BY SnapshotKept, BaseKept
<1>3. SnapshotInv /\ [PartsNext]_allVars => [shown' >= shown]_vars
  BY SnapshotKept
<1>4. BaseInv /\ [PartsNext]_allVars => [\A b \in Bs!Branches : ref[b].own => ref'[b].own]_(Bs!vars)
  BY BaseKept
<1>. QED BY <1>1, <1>2, <1>3, <1>4, PTL DEF PartsSpec, allVars, NothingGoesBack, NewestWins, Bs!NothingIsDiscarded
-----------------------------------------------------------------------------
(* The projects *)

(* Beside the property: projects.json holds the table whenever no save was  *)
(* lost, the running server's or the one a stopped server had.              *)
ProjectsInv ==
  /\ up \in BOOLEAN
  /\ projects \in Tables /\ last \in Tables
  /\ present \subseteq Spellings
  /\ \A r \in repoints : r.path \in Spellings
  /\ file \in Tables \cup {Torn}
  /\ ~unsaved => file = IF up THEN projects ELSE last

LEMMA InTables ==
  ASSUME NEW f, f = [i \in DOMAIN f |-> f[i]], DOMAIN f \subseteq Ids,
         \A i \in DOMAIN f : f[i] \in [path : Spellings, settings : SUBSET Settings]
  PROVE  f \in Tables
<1>1. f \in [DOMAIN f -> [path : Spellings, settings : SUBSET Settings]]
  OBVIOUS
<1>. QED BY <1>1 DEF Tables

LEMMA OfTables ==
  ASSUME NEW f \in Tables
  PROVE  /\ f = [i \in DOMAIN f |-> f[i]] /\ DOMAIN f \subseteq Ids
         /\ \A i \in DOMAIN f : f[i] \in [path : Spellings, settings : SUBSET Settings]
BY DEF Tables

LEMMA SavedKept ==
  ASSUME ProjectsInv, projects' \in Tables, Pj!Notified(projects'), up, UNCHANGED <<up, present, last>>,
         \A r \in repoints' : r.path \in Spellings
  PROVE  ProjectsInv'
BY DEF ProjectsInv, Pj!Notified

(* A start: every path that was loaded has a project under the id of one    *)
(* that had it.                                                             *)
LEMMA RestartKept ==
  ASSUME ProjectsInv, NEW args \in SUBSET Started, Pj!Restart(args)
  PROVE  /\ ProjectsInv'
         /\ \A i \in DOMAIN last :
              \/ unsaved \/ Canonical[last[i].path] \notin present
              \/ \E j \in DOMAIN last \ {i} : last[j].path = last[i].path
              \/ i \in DOMAIN projects' /\ projects'[i].path = last[i].path
<1>1. PICK ids \in SUBSET DOMAIN Pj!Loaded, fresh \in [args -> Ids] :
         LET new == {s \in args : s \notin {Pj!Loaded[i].path : i \in ids}}
             given == {fresh[s] : s \in new}
         IN /\ Pj!Merged(ids)
            /\ projects' = [i \in ids \cup given |->
                 IF i \in ids THEN [path |-> Pj!Loaded[i].path, settings |-> {}]
                 ELSE [path |-> CHOOSE s \in new : fresh[s] = i, settings |-> {}]]
  BY DEF Pj!Restart
<1>. DEFINE new == {s \in args : s \notin {Pj!Loaded[i].path : i \in ids}}
            given == {fresh[s] : s \in new}
<1>2. /\ Pj!Merged(ids)
      /\ projects' = [i \in ids \cup given |->
                 IF i \in ids THEN [path |-> Pj!Loaded[i].path, settings |-> {}]
                 ELSE [path |-> CHOOSE s \in new : fresh[s] = i, settings |-> {}]]
  BY <1>1
<1>3. given \subseteq Ids /\ \A i \in given : (CHOOSE s \in new : fresh[s] = i) \in Spellings
  BY ProjectsAssumption
<1>. HIDE DEF new, given
<1>4. Pj!Loaded \in Tables /\ \A i \in DOMAIN Pj!Loaded : file # Torn /\ i \in DOMAIN file /\ Pj!Loaded[i] = file[i]
  <2>1. CASE file = Torn
    BY <2>1, InTables DEF Pj!Loaded, Pj!NoProjects
  <2>2. CASE file # Torn
    <3>. DEFINE kept == {i \in DOMAIN file : Canonical[file[i].path] \in present}
    <3>1. Pj!Loaded = [i \in kept |-> file[i]]
      BY <2>2 DEF Pj!Loaded, Pj!Restrict
    <3>2. file \in Tables /\ kept \subseteq DOMAIN file
      BY <2>2 DEF ProjectsInv
    <3>. HIDE DEF kept
    <3>3. \A i \in DOMAIN Pj!Loaded : i \in DOMAIN file /\ Pj!Loaded[i] = file[i]
      BY <3>1, <3>2
    <3>4. Pj!Loaded \in Tables
      BY <3>1, <3>2, <3>3, OfTables, InTables
    <3>. QED BY <2>2, <3>3, <3>4
  <2>. QED BY <2>1, <2>2
<1>5. projects' \in Tables
  <2>1. ids \subseteq Ids /\ \A i \in ids : Pj!Loaded[i].path \in Spellings
    BY <1>4, OfTables
  <2>2. DOMAIN projects' = ids \cup given /\ projects' = [i \in DOMAIN projects' |-> projects'[i]]
    BY <1>2
  <2>3. \A i \in DOMAIN projects' : projects'[i] \in [path : Spellings, settings : SUBSET Settings]
    BY <1>2, <1>3, <2>1
  <2>. QED BY <1>3, <2>1, <2>2, <2>3, InTables
<1>6. ProjectsInv'
  BY <1>5 DEF Pj!Restart, ProjectsInv
<1>7. ASSUME NEW i \in DOMAIN last, ~unsaved, Canonical[last[i].path] \in present,
             \A j \in DOMAIN last \ {i} : last[j].path # last[i].path
      PROVE  i \in DOMAIN projects' /\ projects'[i].path = last[i].path
  <2>1. file = last /\ file # Torn
    BY <1>7, ProjectsAssumption DEF ProjectsInv, Pj!Restart
  <2>2. i \in DOMAIN Pj!Loaded
    BY <1>7, <2>1 DEF Pj!Loaded, Pj!Restrict
  <2>3. PICK j \in ids : Pj!Loaded[j].path = Pj!Loaded[i].path
    BY <1>2, <2>2 DEF Pj!Merged
  <2>4. j \in DOMAIN last /\ last[j].path = last[i].path
    BY <1>4, <2>1, <2>2, <2>3
  <2>5. j = i
    BY <1>7, <2>4
  <2>. QED BY <1>2, <1>4, <2>1, <2>2, <2>5
<1>. QED BY <1>6, <1>7

LEMMA ProjectsKept ==
  ASSUME ProjectsInv, [PartsNext]_allVars
  PROVE  ProjectsInv'
<1>0. projects = [i \in DOMAIN projects |-> projects[i]] /\ DOMAIN projects \subseteq Ids
      /\ \A i \in DOMAIN projects : projects[i] \in [path : Spellings, settings : SUBSET Settings]
  BY OfTables DEF ProjectsInv
<1>1. CASE UNCHANGED pjVars
  BY <1>1 DEF pjVars, ProjectsInv
<1>2. ASSUME NEW s \in Spellings, Pj!AddProject(s) PROVE ProjectsInv'
  <2>1. PICK id \in Ids :
          Pj!Changed([i \in DOMAIN projects \cup {id} |->
                        IF i = id THEN [path |-> s, settings |-> {}] ELSE projects[i]])
    BY <1>2 DEF Pj!AddProject
  <2>2. projects' = [i \in DOMAIN projects \cup {id} |->
                       IF i = id THEN [path |-> s, settings |-> {}] ELSE projects[i]]
    BY <2>1 DEF Pj!Changed
  <2>3. projects' \in Tables
    BY <1>0, <2>2, InTables
  <2>4. Pj!Notified(projects')
    BY <2>1, <2>2 DEF Pj!Changed
  <2>5. up /\ UNCHANGED <<up, present, last, repoints>>
    BY <1>2 DEF Pj!AddProject, Pj!Request
  <2>. QED BY <2>3, <2>4, <2>5, SavedKept DEF ProjectsInv
<1>3. ASSUME NEW id \in Ids, NEW set \in SUBSET Settings, NEW cleared \in SUBSET Settings,
             Pj!UpdateProjectSettings(id, set, cleared)
      PROVE  ProjectsInv'
  <2>1. /\ projects' = [projects EXCEPT ![id].settings = (@ \ cleared) \cup set]
        /\ Pj!Notified(projects') /\ id \in DOMAIN projects
        /\ up /\ UNCHANGED <<up, present, last, repoints>>
    BY <1>3 DEF Pj!UpdateProjectSettings, Pj!Changed, Pj!Request
  <2>2. projects' \in Tables
    BY <1>0, <2>1, InTables
  <2>. QED BY <2>1, <2>2, SavedKept DEF ProjectsInv
<1>4. ASSUME NEW id \in Ids, Pj!RemoveProject(id) PROVE ProjectsInv'
  <2>1. /\ projects' = [i \in DOMAIN projects \ {id} |-> projects[i]]
        /\ Pj!Notified(projects')
        /\ up /\ UNCHANGED <<up, present, last, repoints>>
    BY <1>4 DEF Pj!RemoveProject, Pj!Changed, Pj!Request, Pj!Restrict
  <2>2. projects' \in Tables
    BY <1>0, <2>1, InTables
  <2>. QED BY <2>1, <2>2, SavedKept DEF ProjectsInv
<1>5. ASSUME NEW id \in Ids, NEW dir \in present, Pj!RepointProject(id, dir) PROVE ProjectsInv'
  BY <1>5 DEF Pj!RepointProject, Pj!Counted, ProjectsInv
<1>6. ASSUME NEW r \in repoints, Pj!Repointed(r) PROVE ProjectsInv'
  <2>1. /\ projects' = IF r.id \in DOMAIN projects THEN [projects EXCEPT ![r.id].path = r.path] ELSE projects
        /\ Pj!Notified(projects')
        /\ up /\ UNCHANGED <<up, present, last>> /\ repoints' \subseteq repoints
    BY <1>6 DEF Pj!Repointed
  <2>2. r.path \in Spellings
    BY DEF ProjectsInv
  <2>3. projects' \in Tables
    BY <1>0, <2>1, <2>2, InTables
  <2>. QED BY <2>1, <2>3, SavedKept DEF ProjectsInv
<1>7. ASSUME NEW r \in repoints, Pj!NotARepository(r) PROVE ProjectsInv'
  BY <1>7 DEF Pj!NotARepository, ProjectsInv
<1>8. CASE Pj!Crash
  <2>1. Pj!NoProjects \in Tables
    BY InTables DEF Pj!NoProjects
  <2>. QED BY <1>8, <2>1 DEF Pj!Crash, Pj!Stop, ProjectsInv
<1>9. CASE Pj!CrashInSave
  <2>1. Pj!NoProjects \in Tables
    BY InTables DEF Pj!NoProjects
  <2>. QED BY <1>9, <2>1 DEF Pj!CrashInSave, Pj!Stop, ProjectsInv
<1>10. ASSUME NEW args \in SUBSET Started, Pj!Restart(args) PROVE ProjectsInv'
  BY <1>10, RestartKept
<1>11. ASSUME NEW dir, Pj!DirectoryMoves(dir), dir \in {"d", "e"} PROVE ProjectsInv'
  BY <1>11 DEF Pj!DirectoryMoves, ProjectsInv, Spellings
<1>. QED
  <2>1. \A s \in Spellings : Canonical[s] \in {"d", "e"}
    BY DEF Spellings, Canonical
  <2>. QED BY <1>1, <1>2, <1>3, <1>4, <1>5, <1>6, <1>7, <1>8, <1>9, <1>10, <1>11, <2>1 DEF PartsNext, allVars, Pj!Next

(* A start brings every project back under its id and at its path, unless   *)
(* its save was lost, its directory is away or it shares its path           *)
(* (project-store.ts, serve.ts).                                            *)
THEOREM IdsAlwaysSurvive == PartsSpec => IdsSurvive
<1>. DEFINE Kept == \A i \in DOMAIN last :
              \/ unsaved \/ Canonical[last[i].path] \notin present
              \/ \E j \in DOMAIN last \ {i} : last[j].path = last[i].path
              \/ i \in DOMAIN projects' /\ projects'[i].path = last[i].path
<1>1. PartsInit => ProjectsInv
  <2>1. Pj!NoProjects \in Tables
    BY InTables DEF Pj!NoProjects
  <2>. QED BY <2>1 DEF PartsInit, Pj!Init, ProjectsInv, Spellings, Canonical
<1>2. ProjectsInv /\ [PartsNext]_allVars => ProjectsInv'
  BY ProjectsKept
<1>3. ProjectsInv /\ [PartsNext]_allVars => [Pj!Starts => Kept]_(Pj!vars)
  <2>1. ASSUME ProjectsInv, [PartsNext]_allVars, Pj!Starts PROVE Kept
    <3>1. ~up /\ up'
      BY <2>1 DEF Pj!Starts
    <3>2. \E args \in SUBSET Started : Pj!Restart(args)
      BY <2>1, <3>1 DEF PartsNext, allVars, pjVars, Pj!Next, Pj!AddProject, Pj!UpdateProjectSettings, Pj!RemoveProject,
           Pj!RepointProject, Pj!Repointed, Pj!NotARepository, Pj!Crash, Pj!CrashInSave, Pj!Stop, Pj!DirectoryMoves,
           Pj!Request
    <3>. QED BY <2>1, <3>2, RestartKept
  <2>. QED BY <2>1
<1>. QED BY <1>1, <1>2, <1>3, PTL DEF PartsSpec, allVars, IdsSurvive, Pj!IdsSurvive
-----------------------------------------------------------------------------
(* Worktrees and where they land *)

Branches == {"main", "a", "b", "c"}
Dirs == {"w1", "w2"}

(* What a task in flight knows. *)
TaskOk(r) ==
  /\ r.op \in {"none", "create", "fromPr", "setTarget", "rename", "remove", "discard", "wrapUp", "snapshot"}
  /\ r.op = "create" => r.target \in Branches /\ (r.pc = "add" => r.branch \in Branches /\ r.path \in Dirs)
  /\ r.op = "setTarget" => r.target \in Branches /\ r.path \in Dirs
  /\ r.op = "rename" => r.old \in Branches /\ r.new \in Branches /\ r.path \in Dirs /\ r.scope \subseteq Dirs
  /\ r.op \in {"discard", "wrapUp"} => {"op", "pc"} \subseteq DOMAIN r /\ "branch" \in DOMAIN r /\ r.branch \in Branches
  /\ r.op = "wrapUp" => "base" \in DOMAIN r /\ r.base \in Branches /\ r.base # r.branch
  /\ r.op \in {"remove", "discard", "wrapUp"} /\ r.pc = "listed" => "path" \in DOMAIN r /\ r.path \in Dirs

(* The repository and the entries of its worktrees; a chosen target is of a worktree that is there. *)
RepoOk ==
  /\ branches \subseteq Branches
  /\ tree \in [Dirs -> Branches \cup {"detached", None}]
  /\ DOMAIN choice = Dirs
  /\ \A p \in Dirs : choice[p] # None => tree[p] # None

StoreOk ==
  /\ DOMAIN store = Dirs \cup {"o"}
  /\ \A p \in Dirs \cup {"o"} :
       DOMAIN store[p] = {"target", "note"} /\ (store[p].target = None => store[p].note = None)

TasksOk == DOMAIN task = Tasks /\ \A t \in Tasks : TaskOk(task[t])

(* One creation at a time is between the name and git, and the name is free  *)
(* unless somebody else changed the repository.                              *)
Picked(t) == task[t].op = "create" /\ task[t].pc = "add"
PickOk ==
  /\ \A t, u \in Tasks : Picked(t) /\ Picked(u) => t = u
  /\ \A t \in Tasks : Picked(t) /\ ~disturbed => task[t].branch \notin branches /\ tree[task[t].path] = None

(* What overrules a choice has been noted. *)
Overruling(p) ==
  \/ choice[p] \notin branches
  \/ tree[p] = "b" /\ prBase \notin {None, choice[p]}
  \/ \E t \in Tasks : task[t].op = "wrapUp" /\ task[t].branch = choice[p]
Noted == \A p \in Dirs : choice[p] # None /\ Overruling(p) => overruled[p]

WorktreeInv == RepoOk /\ StoreOk /\ TasksOk /\ PickOk /\ Noted /\ WorktreeSafety

(* A command moves one task on, and never to a creation. *)
Moves(t, r) == TaskOk(r) /\ r.op # "create" /\ task' = [task EXCEPT ![t] = r]

(* A task that begins or goes on knows what it must. *)
LEMMA BeginMoves ==
  ASSUME NEW t, NEW r, Wt!Begin(t, r) \/ Wt!GoesOn(t, r), TaskOk(r), r.op # "create"
  PROVE  \E q : Moves(t, q)
BY DEF Moves, Wt!Begin, Wt!GoesOn

(* So does one that ends. *)
LEMMA EndMoves ==
  ASSUME NEW t, Wt!Ends(t)
  PROVE  \E q : Moves(t, q)
<1>1. TaskOk(Wt!Idle) /\ Wt!Idle.op # "create"
  BY DEF TaskOk, Wt!Idle
<1>. QED BY <1>1, BeginMoves DEF Wt!Ends

(* Every command moves its task on. *)
LEMMA CommandMoves ==
  ASSUME RepoOk, TasksOk, NEW t \in Tasks, Wt!Command(t)
  PROVE  \E q : Moves(t, q)
<1>0. TaskOk(task[t])
  BY DEF TasksOk
<1>1. CASE Wt!CreateWorktreeFromPr(t)
  <2>. DEFINE r == [op |-> "fromPr"]
  <2>1. TaskOk(r) /\ r.op # "create"
    BY DEF TaskOk
  <2>. QED BY <1>1, <2>1, BeginMoves DEF Wt!CreateWorktreeFromPr
<1>2. CASE Wt!CheckoutPr(t)
  BY <1>2, EndMoves DEF Wt!CheckoutPr
<1>3. ASSUME NEW p \in Dirs, NEW b \in Branches, Wt!SetWorktreeTarget(t, p, b) PROVE \E q : Moves(t, q)
  <2>. DEFINE r == [op |-> "setTarget", path |-> p, target |-> b]
  <2>1. TaskOk(r) /\ r.op # "create"
    BY DEF TaskOk
  <2>. QED BY <1>3, <2>1, BeginMoves DEF Wt!SetWorktreeTarget
<1>4. ASSUME NEW p \in Dirs, NEW b \in Branches, Wt!RenameWorktreeBranch(t, p, b) PROVE \E q : Moves(t, q)
  <2>. DEFINE r == [op |-> "rename", path |-> p, old |-> tree[p], new |-> b, scope |-> {q \in Dirs : Wt!Lives(q)}]
  <2>1. tree[p] \in Branches /\ Wt!Begin(t, r)
    BY <1>4 DEF Wt!RenameWorktreeBranch, Branches, Dirs
  <2>2. TaskOk(r) /\ r.op # "create"
    BY <2>1 DEF TaskOk
  <2>. QED BY <2>1, <2>2, BeginMoves
<1>5. ASSUME NEW p \in Dirs, NEW b \in Branches, Wt!DiscardWorktree(t, p, b) PROVE \E q : Moves(t, q)
  <2>. DEFINE r == [op |-> "discard", pc |-> "listed", path |-> p, branch |-> b]
  <2>1. TaskOk(r) /\ r.op # "create"
    BY DEF TaskOk
  <2>. QED BY <1>5, <2>1, BeginMoves DEF Wt!DiscardWorktree, Wt!Remove
<1>6. CASE Wt!PutTarget(t)
  BY <1>6, EndMoves DEF Wt!PutTarget
<1>7. CASE Wt!RenameBranch(t)
  BY <1>7, EndMoves DEF Wt!RenameBranch
<1>8. ASSUME NEW p \in Dirs, Wt!RemoveWorktree(t, p) PROVE \E q : Moves(t, q)
  <2>. DEFINE r == [op |-> "remove", pc |-> "listed", path |-> p]
  <2>1. TaskOk(r) /\ r.op # "create"
    BY DEF TaskOk
  <2>. QED BY <1>8, <2>1, BeginMoves DEF Wt!RemoveWorktree, Wt!Remove
<1>9. ASSUME NEW p \in Dirs, NEW b \in Branches, NEW base \in Branches, Wt!WrapUpWorktree(t, p, b, base)
      PROVE \E q : Moves(t, q)
  <2>. DEFINE r == [op |-> "wrapUp", pc |-> "listed", path |-> p, branch |-> b, base |-> base]
  <2>1. base # b /\ Wt!Begin(t, r)
    BY <1>9 DEF Wt!WrapUpWorktree, Wt!Remove, Wt!WrappingUp
  <2>2. TaskOk(r) /\ r.op # "create"
    BY <2>1 DEF TaskOk
  <2>. QED BY <2>1, <2>2, BeginMoves
<1>10. CASE Wt!GitRemove(t)
  <2>1. CASE Wt!Ends(t)
    BY <2>1, EndMoves
  <2>2. CASE task[t].op \in {"discard", "wrapUp"} /\ Wt!GoesOn(t, [task[t] EXCEPT !.pc = "removed"])
    <3>. DEFINE r == [task[t] EXCEPT !.pc = "removed"]
    <3>1. TaskOk(r) /\ r.op # "create"
      BY <1>0, <2>2 DEF TaskOk
    <3>. QED BY <2>2, <3>1, BeginMoves
  <2>. QED BY <1>10, <2>1, <2>2 DEF Wt!GitRemove
<1>11. CASE Wt!DeleteBranch(t)
  <2>1. CASE Wt!Ends(t)
    BY <2>1, EndMoves
  <2>2. ASSUME NEW pc \in {"synced", "keptBranch"}, task[t].op = "wrapUp", Wt!GoesOn(t, [task[t] EXCEPT !.pc = pc])
        PROVE \E q : Moves(t, q)
    <3>. DEFINE r == [task[t] EXCEPT !.pc = pc]
    <3>1. TaskOk(r) /\ r.op # "create"
      BY <1>0, <2>2 DEF TaskOk
    <3>. QED BY <2>2, <3>1, BeginMoves
  <2>. QED BY <1>11, <2>1, <2>2 DEF Wt!DeleteBranch
<1>12. CASE Wt!SyncBase(t)
  <2>1. CASE Wt!Ends(t)
    BY <2>1, EndMoves
  <2>2. CASE task[t].op = "wrapUp" /\ Wt!GoesOn(t, Wt!HandingDown(task[t]))
    <3>. DEFINE r == Wt!HandingDown(task[t])
    <3>1. TaskOk(r) /\ r.op # "create"
      BY <1>0, <2>2 DEF TaskOk, Wt!HandingDown
    <3>. QED BY <2>2, <3>1, BeginMoves
  <2>. QED BY <1>12, <2>1, <2>2 DEF Wt!SyncBase
<1>13. CASE Wt!HandDown(t)
  BY <1>13, EndMoves DEF Wt!HandDown
<1>14. CASE Wt!Snapshot(t)
  <2>. DEFINE r == [op |-> "snapshot", pc |-> "loaded", all |-> store]
  <2>1. TaskOk(r) /\ r.op # "create"
    BY DEF TaskOk
  <2>. QED BY <1>14, <2>1, BeginMoves DEF Wt!Snapshot
<1>15. CASE Wt!ListWorktrees(t)
  <2>. DEFINE r == [op |-> "snapshot", pc |-> "listed", all |-> task[t].all, entries |-> tree]
  <2>1. TaskOk(r) /\ r.op # "create"
    BY DEF TaskOk
  <2>. QED BY <1>15, <2>1, BeginMoves DEF Wt!ListWorktrees
<1>17. CASE Wt!AdoptLivePrTargets(t)
  <2>1. \E all : Wt!GoesOn(t, [op |-> "snapshot", pc |-> "adopted", entries |-> task[t].entries, all |-> all])
    BY <1>17 DEF Wt!AdoptLivePrTargets
  <2>2. PICK all : Wt!GoesOn(t, [op |-> "snapshot", pc |-> "adopted", entries |-> task[t].entries, all |-> all])
    BY <2>1
  <2>. DEFINE r == [op |-> "snapshot", pc |-> "adopted", entries |-> task[t].entries, all |-> all]
  <2>3. TaskOk(r) /\ r.op # "create"
    BY DEF TaskOk
  <2>. QED BY <2>2, <2>3, BeginMoves
<1>18. CASE Wt!ListLocalBranches(t)
  <2>. DEFINE r == [op |-> "snapshot", pc |-> "repair", all |-> task[t].all, entries |-> task[t].entries,
                    locals |-> branches]
  <2>1. TaskOk(r) /\ r.op # "create"
    BY DEF TaskOk
  <2>. QED BY <1>18, <2>1, BeginMoves DEF Wt!ListLocalBranches
<1>16. CASE Wt!RepairVanished(t)
  BY <1>16, EndMoves DEF Wt!RepairVanished
<1>. QED BY <1>1, <1>2, <1>3, <1>4, <1>5, <1>6, <1>7, <1>8, <1>9, <1>10, <1>11, <1>12, <1>13, <1>14, <1>15, <1>16,
         <1>17, <1>18
         DEF Wt!Command, Branches, Dirs

(* What one task, or somebody outside, does. *)
StepOf(t) == Wt!External \/ (t \in Tasks /\ (Wt!Command(t) \/ Wt!Create(t)))

(* Every step leaves the repository as it must be. *)
LEMMA RepoKept ==
  ASSUME RepoOk, TasksOk, NEW t, StepOf(t)
  PROVE  RepoOk'
<1>13. None \notin Branches \cup {"detached"} /\ "b" \in Branches /\ {"w1", "w2"} = Dirs
  BY BranchesAssumption DEF BranchesAssumption, Branches, Dirs
<1>1. CASE UNCHANGED <<branches, tree, choice>>
  BY <1>1 DEF RepoOk
<1>8. CASE Wt!External
  <2>1. CASE Wt!BranchComes \/ Wt!BranchGoes
    <3>1. UNCHANGED <<tree, choice>> /\ branches' \subseteq Branches
      BY <2>1 DEF RepoOk, Wt!BranchComes, Wt!BranchGoes, Branches
    <3>. QED BY <3>1 DEF RepoOk
  <2>2. CASE Wt!Switches
    <3>1. PICK p \in Dirs, b \in branches : Wt!Lives(p) /\ tree' = [tree EXCEPT ![p] = b]
      BY <2>2 DEF Wt!Switches, Dirs
    <3>2. UNCHANGED <<branches, choice>> /\ b \in Branches
      BY <2>2 DEF Wt!Switches, RepoOk
    <3>. QED BY <1>13, <3>1, <3>2 DEF RepoOk
  <2>3. CASE Wt!RemovedOutside
    <3>1. PICK p \in Dirs : tree' = [tree EXCEPT ![p] = None] /\ choice' = [choice EXCEPT ![p] = None]
      BY <2>3 DEF Wt!RemovedOutside, Dirs
    <3>. QED BY <2>3, <3>1 DEF RepoOk, Wt!RemovedOutside
  <2>4. CASE Wt!PollTells
    BY <1>1, <2>4 DEF Wt!PollTells, Wt!repo
  <2>. QED BY <1>8, <2>1, <2>2, <2>3, <2>4 DEF Wt!External
<1>. SUFFICES ASSUME t \in Tasks, Wt!Command(t) \/ Wt!Create(t) PROVE RepoOk'
  BY <1>8 DEF StepOf
<1>0. TaskOk(task[t]) /\ None \notin Branches \cup {"detached"} /\ "b" \in Branches /\ {"w1", "w2"} = Dirs
  BY <1>13 DEF TasksOk
<1>2. CASE Wt!CreateWorktreeFromPr(t)
  BY <1>0, <1>2 DEF RepoOk, Wt!CreateWorktreeFromPr, Wt!Lives
<1>3. CASE Wt!CheckoutPr(t)
  BY <1>0, <1>3 DEF RepoOk, Wt!CheckoutPr, Wt!Lives
<1>4. CASE Wt!PutTarget(t)
  <2>1. UNCHANGED <<branches, tree>> /\ task[t].path \in Dirs /\ task[t].op = "setTarget"
    BY <1>0, <1>4 DEF Wt!PutTarget, Wt!repo, TaskOk
  <2>2. UNCHANGED choice \/ (Wt!Lives(task[t].path) /\ choice' = [choice EXCEPT ![task[t].path] = task[t].target])
    BY <1>4 DEF Wt!PutTarget
  <2>. QED BY <2>1, <2>2 DEF RepoOk, Wt!Lives
<1>5. CASE Wt!RenameBranch(t)
  <2>1. task[t].old \in Branches /\ task[t].new \in Branches
    BY <1>0, <1>5 DEF Wt!RenameBranch, TaskOk
  <2>. DEFINE old == task[t].old
              new == task[t].new
  <2>2. \/ UNCHANGED <<branches, tree, choice>>
        \/ /\ branches' = (branches \ {old}) \cup {new}
           /\ tree' = [p \in Dirs |-> IF tree[p] = old THEN new ELSE tree[p]]
           /\ choice' = [p \in Dirs |-> IF choice[p] = old /\ store'[p].target = new THEN new ELSE choice[p]]
    BY <1>5 DEF Wt!RenameBranch, Wt!repo, Dirs
  <2>. HIDE DEF old, new
  <2>3. old \in Branches /\ new \in Branches /\ new # None /\ old # None
    BY <1>0, <2>1 DEF old, new
  <2>4. CASE branches' = (branches \ {old}) \cup {new}
             /\ tree' = [p \in Dirs |-> IF tree[p] = old THEN new ELSE tree[p]]
             /\ choice' = [p \in Dirs |-> IF choice[p] = old /\ store'[p].target = new THEN new ELSE choice[p]]
    <3>1. branches' \subseteq Branches /\ DOMAIN choice' = Dirs
      BY <2>3, <2>4 DEF RepoOk
    <3>2. tree' \in [Dirs -> Branches \cup {"detached", None}]
      BY <2>3, <2>4 DEF RepoOk
    <3>3. \A p \in Dirs : choice'[p] # None => tree'[p] # None
      BY <2>3, <2>4 DEF RepoOk
    <3>. QED BY <3>1, <3>2, <3>3 DEF RepoOk
  <2>. QED BY <1>1, <2>2, <2>4
<1>6. CASE Wt!GitRemove(t)
  <2>1. UNCHANGED branches /\ task[t].path \in Dirs
    BY <1>0, <1>6 DEF Wt!GitRemove, TaskOk
  <2>2. \/ UNCHANGED <<tree, choice>>
        \/ tree' = [tree EXCEPT ![task[t].path] = None] /\ choice' = [choice EXCEPT ![task[t].path] = None]
    BY <1>6 DEF Wt!GitRemove
  <2>. QED BY <2>1, <2>2 DEF RepoOk
<1>7. CASE Wt!DeleteBranch(t) \/ Wt!SyncBase(t)
  <2>1. UNCHANGED <<tree, choice>>
    BY <1>7 DEF Wt!DeleteBranch, Wt!SyncBase
  <2>2. branches' \subseteq Branches
    BY <1>0, <1>7 DEF Wt!DeleteBranch, Wt!SyncBase, RepoOk, TaskOk
  <2>. QED BY <2>1, <2>2 DEF RepoOk
<1>9. CASE Wt!AddWorktree(t)
  <2>. DEFINE p == task[t].path
              b == task[t].branch
  <2>1. p \in Dirs /\ b \in Branches /\ task[t].target \in Branches
    BY <1>0, <1>9 DEF Wt!AddWorktree, TaskOk
  <2>2. \/ UNCHANGED <<branches, tree, choice>>
        \/ /\ branches' = branches \cup {b} /\ tree' = [tree EXCEPT ![p] = b]
           /\ \E c : choice' = [choice EXCEPT ![p] = c]
    BY <1>9 DEF Wt!AddWorktree, Wt!repo
  <2>. HIDE DEF p, b
  <2>. QED BY <1>0, <2>1, <2>2 DEF RepoOk
<1>10. CASE Wt!CreateWorktreeFromPr(t) \/ Wt!CheckoutPr(t) \/ Wt!PutTarget(t) \/ Wt!RenameBranch(t) \/ Wt!GitRemove(t)
            \/ Wt!DeleteBranch(t) \/ Wt!SyncBase(t) \/ Wt!AddWorktree(t)
  BY <1>2, <1>3, <1>4, <1>5, <1>6, <1>7, <1>9, <1>10
<1>11. CASE \/ Wt!HandDown(t) \/ Wt!Snapshot(t) \/ Wt!ListWorktrees(t) \/ Wt!AdoptLivePrTargets(t)
            \/ Wt!ListLocalBranches(t) \/ Wt!RepairVanished(t) \/ Wt!PickName(t)
  BY <1>1, <1>11 DEF Wt!HandDown, Wt!Snapshot, Wt!ListWorktrees, Wt!AdoptLivePrTargets, Wt!ListLocalBranches,
                     Wt!RepairVanished, Wt!PickName, Wt!repo
<1>12. ASSUME NEW p, NEW b, NEW base,
              \/ Wt!SetWorktreeTarget(t, p, b) \/ Wt!RenameWorktreeBranch(t, p, b) \/ Wt!DiscardWorktree(t, p, b)
              \/ Wt!RemoveWorktree(t, p) \/ Wt!WrapUpWorktree(t, p, b, base) \/ Wt!CreateWorktree(t, b)
       PROVE RepoOk'
  BY <1>1, <1>12 DEF Wt!SetWorktreeTarget, Wt!RenameWorktreeBranch, Wt!DiscardWorktree, Wt!RemoveWorktree,
                     Wt!WrapUpWorktree, Wt!CreateWorktree, Wt!Remove, Wt!repo
<1>. QED BY <1>10, <1>11, <1>12 DEF Wt!Command, Wt!Create

(* A step leaves the choice at p where the work lands, or moves it in the    *)
(* open and for a reason; and other repositories' entries are left alone.    *)
Kept(p) ==
  choice'[p] # None /\ store'[p].target # choice'[p] =>
    /\ store'[p].note # None
    /\ Wt!Overrules(p) \/ (overruled[p] /\ choice'[p] = choice[p])
StoreEnds == StoreOk' /\ store'["o"] = store["o"] /\ \A p \in Dirs : Kept(p)

Chosen ==
  \A p \in Dirs : choice[p] # None /\ store[p].target # choice[p] => overruled[p] /\ store[p].note # None

(* The names, the entries and the absence of a branch are told apart. *)
LEMMA Apart == /\ "o" \notin Dirs /\ None \notin Branches
               /\ \A r, p : r = Wt!Entry(p) => r.target = p /\ r.note = None /\ DOMAIN r = {"target", "note"}
               /\ Wt!NoEntry.target = None /\ Wt!NoEntry.note = None /\ DOMAIN Wt!NoEntry = {"target", "note"}
BY BranchesAssumption DEF BranchesAssumption, Dirs, Branches, Wt!Entry, Wt!NoEntry

(* The store is left alone; choices may go with their worktrees. *)
LEMMA StoreStays ==
  ASSUME StoreOk, Chosen, store' = store, \A p \in Dirs : choice'[p] \in {None, choice[p]}
  PROVE  StoreEnds
BY DEF StoreOk, Chosen, StoreEnds, Kept

(* One entry is replaced, or a save failed and nothing is.                   *)
LEMMA OnePut ==
  ASSUME StoreOk, Chosen, NEW p \in Dirs, NEW e, DOMAIN e = {"target", "note"}, e.target = None => e.note = None,
         store' = [store EXCEPT ![p] = e] \/ store' = store,
         \A q \in Dirs \ {p} : choice'[q] = choice[q],
         choice'[p] \in {None, choice[p]} \/ store'[p].target = choice'[p],
         store' = store \/ choice'[p] = None \/ store'[p].target = choice'[p]
  PROVE  StoreEnds
<1>0. "o" \notin Dirs
  BY Apart
<1>1. CASE store' = store
  BY <1>1 DEF StoreOk, Chosen, StoreEnds, Kept
<1>2. CASE store' = [store EXCEPT ![p] = e]
  <2>1. store'[p] = e /\ DOMAIN store' = DOMAIN store /\ \A q \in DOMAIN store : q # p => store'[q] = store[q]
    BY <1>2 DEF StoreOk
  <2>2. StoreOk' /\ store'["o"] = store["o"]
    BY <1>0, <2>1 DEF StoreOk
  <2>3. ASSUME NEW q \in Dirs PROVE Kept(q)
    <3>1. CASE q = p
      BY <1>0, <2>1, <3>1 DEF StoreOk, Chosen, Kept
    <3>2. CASE q # p
      BY <2>1, <3>2 DEF StoreOk, Chosen, Kept
    <3>. QED BY <3>1, <3>2
  <2>. QED BY <2>2, <2>3 DEF StoreEnds
<1>. QED BY <1>1, <1>2

(* What putTarget with `expect` does with a set of writes, or none if the    *)
(* save fails.                                                               *)
Writes(w) == DOMAIN w \subseteq Dirs /\ (store' = Wt!Written(w) \/ store' = store)
Put(w, p) == p \in DOMAIN w /\ store[p].target = w[p].was /\ store'[p].target = w[p].target /\ store'[p].note = w[p].was
Replaces(w) ==
  /\ DOMAIN store' = DOMAIN store /\ store'["o"] = store["o"]
  /\ \A p \in Dirs : store'[p] = store[p] \/ (Put(w, p) /\ DOMAIN store'[p] = {"target", "note"})

(* Only entries that are still what was decided on are replaced. *)
LEMMA WrittenReplaces ==
  ASSUME StoreOk, NEW w, Writes(w)
  PROVE  Replaces(w)
<1>0. "o" \notin Dirs
  BY Apart
<1>1. CASE store' = store
  BY <1>1 DEF Replaces
<1>2. CASE store' = Wt!Written(w)
  <2>1. DOMAIN store' = DOMAIN store
    BY <1>2 DEF Wt!Written
  <2>2. ASSUME NEW p \in DOMAIN store
        PROVE  store'[p] = IF p \in DOMAIN w /\ store[p].target = w[p].was
                           THEN [target |-> w[p].target, note |-> w[p].was] ELSE store[p]
    BY <1>2 DEF Wt!Written
  <2>3. store'["o"] = store["o"]
    BY <1>0, <2>2 DEF StoreOk, Writes
  <2>4. ASSUME NEW p \in Dirs PROVE store'[p] = store[p] \/ (Put(w, p) /\ DOMAIN store'[p] = {"target", "note"})
    <3>1. p \in DOMAIN store
      BY DEF StoreOk
    <3>. DEFINE e == [target |-> w[p].target, note |-> w[p].was]
    <3>2. e.target = w[p].target /\ e.note = w[p].was /\ DOMAIN e = {"target", "note"}
      OBVIOUS
    <3>3. store'[p] = e \/ store'[p] = store[p]
      BY <2>2, <3>1
    <3>4. store'[p] # store[p] => p \in DOMAIN w /\ store[p].target = w[p].was /\ store'[p] = e
      BY <2>2, <3>1
    <3>. HIDE DEF e
    <3>. QED BY <3>2, <3>4 DEF Put
  <2>. QED BY <2>1, <2>3, <2>4 DEF Replaces
<1>. QED BY <1>1, <1>2 DEF Writes

(* The writes are moves in the open and for a reason.                        *)
LEMMA WritesKept ==
  ASSUME StoreOk, Chosen, NEW w, Writes(w), choice' = choice,
         \A p \in Dirs : Put(w, p) => /\ w[p].target # None
                                      /\ choice[p] # None /\ choice[p] = w[p].was /\ choice[p] # w[p].target =>
                                           Wt!Overrules(p) \/ overruled[p]
  PROVE  StoreEnds
<1>1. Replaces(w)
  BY WrittenReplaces
<1>2. StoreOk'
  BY <1>1 DEF StoreOk, Replaces, Put
<1>3. ASSUME NEW p \in Dirs PROVE Kept(p)
  <2>1. CASE store'[p] = store[p]
    BY <2>1 DEF Chosen, Kept
  <2>2. CASE Put(w, p)
    <3>. SUFFICES ASSUME choice[p] # None, w[p].target # choice[p]
                  PROVE  w[p].was # None /\ (Wt!Overrules(p) \/ overruled[p])
      BY <2>2 DEF Put, Kept
    <3>1. CASE choice[p] = w[p].was
      BY <2>2, <3>1
    <3>2. CASE choice[p] # w[p].was
      BY <2>2, <3>2 DEF Put, Chosen, StoreOk
    <3>. QED BY <3>1, <3>2
  <2>. QED BY <1>1, <2>1, <2>2 DEF Replaces
<1>. QED BY <1>1, <1>2, <1>3 DEF StoreEnds, Replaces

(* What the store's lemmas need. *)
WtHeld == RepoOk /\ StoreOk /\ TasksOk /\ Chosen /\ Noted

(* A new worktree has the target it was asked for, or none if the save failed. *)
LEMMA AddKept ==
  ASSUME WtHeld, NEW t \in Tasks, Wt!AddWorktree(t)
  PROVE  StoreEnds
<1>. DEFINE p == task[t].path
            c == task[t].target
            e == Wt!Entry(c)
<1>1. p \in Dirs /\ c \in Branches /\ c # None
  BY Apart DEF WtHeld, TasksOk, TaskOk, Wt!AddWorktree
<1>2. e.target = c /\ DOMAIN e = {"target", "note"}
  BY Apart
<1>3. \/ UNCHANGED <<store, choice>>
      \/ /\ store' = [store EXCEPT ![p] = e] \/ store' = store
         /\ choice' = [choice EXCEPT ![p] = IF store' = store /\ store[p] # e THEN None ELSE c]
  BY DEF Wt!AddWorktree, Wt!Saved
<1>. HIDE DEF p, c, e
<1>4. CASE UNCHANGED <<store, choice>>
  BY <1>4, StoreStays DEF WtHeld
<1>5. CASE /\ store' = [store EXCEPT ![p] = e] \/ store' = store
           /\ choice' = [choice EXCEPT ![p] = IF store' = store /\ store[p] # e THEN None ELSE c]
  <2>1. /\ \A q \in Dirs \ {p} : choice'[q] = choice[q]
        /\ choice'[p] = IF store' = store /\ store[p] # e THEN None ELSE c
    BY <1>1, <1>5 DEF WtHeld, RepoOk
  <2>2. store' # store => store'[p] = e
    BY <1>1, <1>5 DEF WtHeld, StoreOk
  <2>3. choice'[p] = None \/ store'[p].target = choice'[p]
    BY <1>2, <2>1, <2>2
  <2>. QED BY <1>1, <1>2, <1>5, <2>1, <2>3, OnePut DEF WtHeld
<1>. QED BY <1>3, <1>4, <1>5

(* The user chooses. *)
LEMMA PutKept ==
  ASSUME WtHeld, NEW t \in Tasks, Wt!PutTarget(t)
  PROVE  StoreEnds
<1>. DEFINE p == task[t].path
            c == task[t].target
            e == Wt!Entry(c)
<1>1. p \in Dirs /\ c \in Branches /\ c # None
  BY Apart DEF WtHeld, TasksOk, TaskOk, Wt!PutTarget
<1>2. e.target = c /\ DOMAIN e = {"target", "note"}
  BY Apart
<1>3. \/ UNCHANGED <<store, choice>>
      \/ /\ store' = [store EXCEPT ![p] = e] \/ store' = store
         /\ choice' = IF store'[p] = e /\ tree[p] # None THEN [choice EXCEPT ![p] = c] ELSE choice
  BY DEF Wt!PutTarget, Wt!Saved, Wt!Lives
<1>. HIDE DEF p, c, e
<1>4. CASE UNCHANGED <<store, choice>>
  BY <1>4, StoreStays DEF WtHeld
<1>5. CASE /\ store' = [store EXCEPT ![p] = e] \/ store' = store
           /\ choice' = IF store'[p] = e /\ tree[p] # None THEN [choice EXCEPT ![p] = c] ELSE choice
  <2>1. /\ \A q \in Dirs \ {p} : choice'[q] = choice[q]
        /\ choice'[p] = IF store'[p] = e /\ tree[p] # None THEN c ELSE choice[p]
    BY <1>1, <1>5 DEF WtHeld, RepoOk
  <2>2. store' # store => store'[p] = e
    BY <1>1, <1>5 DEF WtHeld, StoreOk
  <2>3. choice'[p] \in {None, choice[p]} \/ store'[p].target = choice'[p]
    BY <1>2, <2>1
  <2>4. store' = store \/ choice'[p] = None \/ store'[p].target = choice'[p]
    BY <1>1, <1>2, <2>1, <2>2 DEF WtHeld, RepoOk
  <2>. QED BY <1>1, <1>2, <1>5, <2>1, <2>3, <2>4, OnePut DEF WtHeld
<1>. QED BY <1>3, <1>4, <1>5

(* A choice goes with its worktree, whether git() returned or was killed. *)
LEMMA RemoveKept ==
  ASSUME WtHeld, NEW t \in Tasks, Wt!GitRemove(t)
  PROVE  StoreEnds
<1>. DEFINE p == task[t].path
            e == Wt!NoEntry
<1>1. p \in Dirs
  BY DEF WtHeld, TasksOk, TaskOk, Wt!GitRemove
<1>2. e.target = None /\ e.note = None /\ DOMAIN e = {"target", "note"}
  BY Apart
<1>3. \/ UNCHANGED <<store, choice>>
      \/ /\ store' = [store EXCEPT ![p] = e] \/ store' = store
         /\ choice' = [choice EXCEPT ![p] = None]
  BY DEF Wt!GitRemove, Wt!Saved
<1>. HIDE DEF p, e
<1>4. CASE UNCHANGED <<store, choice>>
  BY <1>4, StoreStays DEF WtHeld
<1>5. CASE /\ store' = [store EXCEPT ![p] = e] \/ store' = store
           /\ choice' = [choice EXCEPT ![p] = None]
  <2>1. choice'[p] = None /\ \A q \in Dirs \ {p} : choice'[q] = choice[q]
    BY <1>1, <1>5 DEF WtHeld, RepoOk
  <2>. QED BY <1>1, <1>2, <1>5, <2>1, OnePut DEF WtHeld
<1>. QED BY <1>3, <1>4, <1>5

(* git branch -m: whoever chose the old name has the new one, or a branch    *)
(* that is gone.                                                             *)
LEMMA RenameKept ==
  ASSUME WtHeld, NEW t \in Tasks, Wt!RenameBranch(t)
  PROVE  StoreEnds
<1>. DEFINE old == task[t].old
            new == task[t].new
            scope == task[t].scope
            renamed == Wt!RenameTarget(old, new, scope)
<1>1. old \in Branches /\ new \in Branches /\ scope \subseteq Dirs
  BY DEF WtHeld, TasksOk, TaskOk, Wt!RenameBranch
<1>2. \/ UNCHANGED <<store, choice>>
      \/ /\ old \in branches /\ new \notin branches /\ branches' = (branches \ {old}) \cup {new}
         /\ store' = renamed \/ store' = store
         /\ choice' = [p \in Dirs |-> IF choice[p] = old /\ store'[p].target = new THEN new ELSE choice[p]]
  BY DEF Wt!RenameBranch, Wt!Saved, Dirs
<1>3. /\ DOMAIN renamed = DOMAIN store
      /\ \A p \in DOMAIN store : renamed[p] = IF p \in scope /\ store[p].target = old
                                              THEN [store[p] EXCEPT !.target = new] ELSE store[p]
  BY DEF Wt!RenameTarget
<1>. HIDE DEF old, new, scope, renamed
<1>4. CASE UNCHANGED <<store, choice>>
  BY <1>4, StoreStays DEF WtHeld
<1>5. CASE /\ old \in branches /\ new \notin branches /\ branches' = (branches \ {old}) \cup {new}
           /\ store' = renamed \/ store' = store
           /\ choice' = [p \in Dirs |-> IF choice[p] = old /\ store'[p].target = new THEN new ELSE choice[p]]
  <2>0. old # None /\ new # None /\ old # new /\ "o" \notin Dirs
    BY <1>1, <1>5, Apart
  <2>1. \A p \in DOMAIN store : store'[p] = store[p] \/ (p \in scope /\ store[p].target = old /\ store'[p] = [store[p] EXCEPT !.target = new])
    BY <1>3, <1>5
  <2>2. \A p \in DOMAIN store : \/ store'[p] = store[p]
                                \/ /\ p \in scope /\ store[p].target = old /\ store'[p].target = new
                                   /\ store'[p].note = store[p].note /\ DOMAIN store'[p] = DOMAIN store[p]
    BY <2>1 DEF WtHeld, StoreOk
  <2>3. StoreOk' /\ store'["o"] = store["o"]
    BY <1>1, <1>3, <1>5, <2>0, <2>2 DEF WtHeld, StoreOk
  <2>4. ASSUME NEW p \in Dirs PROVE Kept(p)
    <3>0. p \in DOMAIN store /\ choice'[p] = IF choice[p] = old /\ store'[p].target = new THEN new ELSE choice[p]
      BY <1>5 DEF WtHeld, StoreOk
    <3>1. CASE choice[p] = old /\ store'[p].target = new
      BY <3>0, <3>1 DEF Kept
    <3>2. CASE choice[p] = old /\ store'[p].target # new
      <4>1. store'[p] = store[p] /\ choice'[p] = choice[p]
        BY <2>2, <3>0, <3>2
      <4>. QED BY <4>1 DEF Kept, WtHeld, Chosen
    <3>3. CASE choice[p] # old
      <4>1. choice'[p] = choice[p]
        BY <3>0, <3>3
      <4>. QED BY <2>2, <3>0, <3>3, <4>1 DEF Kept, WtHeld, Chosen
    <3>. QED BY <3>1, <3>2, <3>3
  <2>. QED BY <2>3, <2>4 DEF StoreEnds
<1>. QED BY <1>2, <1>4, <1>5

(* Who landed in a branch that was tidied away lands in its base: noted since the command began. *)
LEMMA HandDownKept ==
  ASSUME WtHeld, NEW t \in Tasks, Wt!HandDown(t)
  PROVE  StoreEnds
<1>. DEFINE b == task[t].branch
            base == task[t].base
            affected == {p \in Wt!Here(tree) : task[t].all[p].target = b}
            w == [p \in affected |-> [target |-> base, was |-> b]]
<1>1. b \in Branches /\ base \in Branches /\ task[t].op = "wrapUp"
  BY DEF WtHeld, TasksOk, TaskOk, Wt!HandDown
<1>2. (store' = Wt!Written(w) \/ store' = store) /\ choice' = choice
  BY DEF Wt!HandDown, Wt!Saved
<1>3. DOMAIN w \subseteq Dirs
  BY DEF Wt!Here, Dirs
<1>4. \A p \in DOMAIN w : w[p].target = base /\ w[p].was = b
  OBVIOUS
<1>5. \A p \in Dirs : choice[p] = b => overruled[p]
  BY <1>1, Apart DEF WtHeld, Noted, Overruling
<1>. HIDE DEF w, b, base
<1>6. Writes(w)
  BY <1>2, <1>3 DEF Writes
<1>7. \A p \in Dirs : Put(w, p) => w[p].target # None /\ w[p].was = b
  BY <1>1, <1>4, Apart DEF Put
<1>. QED BY <1>2, <1>5, <1>6, <1>7, WritesKept DEF WtHeld

(* A snapshot adopts the base of a live pull request. *)
LEMMA AdoptKept ==
  ASSUME WtHeld, NEW t \in Tasks, Wt!AdoptLivePrTargets(t)
  PROVE  StoreEnds
<1>. DEFINE w == Wt!Adopted(task[t].all, task[t].entries)
<1>1. (store' = Wt!Written(w) \/ store' = store) /\ UNCHANGED <<choice, branches, tree, prBase>>
  BY DEF Wt!AdoptLivePrTargets, Wt!Saved, Wt!repo
<1>2. /\ DOMAIN w \subseteq Dirs
      /\ \A p \in DOMAIN w : w[p].target = prBase /\ task[t].entries[p] = "b" /\ prBase # None
  BY DEF Wt!Adopted, Dirs
<1>. HIDE DEF w
<1>3. Writes(w)
  BY <1>1, <1>2 DEF Writes
<1>4. ASSUME NEW p \in Dirs, Put(w, p), choice[p] # w[p].target PROVE Wt!Overrules(p)
  <2>1. Wt!Listed(t, "listed") /\ task[t].entries[p] = "b"
    BY <1>2, <1>4 DEF Put, Wt!Listed, Wt!AdoptLivePrTargets
  <2>. QED BY <1>1, <1>2, <1>4, <2>1 DEF Put, Wt!Overrules
<1>5. \A p \in Dirs : Put(w, p) => w[p].target # None
  BY <1>2 DEF Put
<1>. QED BY <1>1, <1>3, <1>4, <1>5, WritesKept DEF WtHeld

(* A snapshot repairs targets that vanished, however old its listing is. *)
LEMMA RepairKept ==
  ASSUME WtHeld, NEW t \in Tasks, Wt!RepairVanished(t)
  PROVE  StoreEnds
<1>. DEFINE w == Wt!Repointed(task[t].all, task[t].entries, task[t].locals)
<1>1. (store' = Wt!Written(w) \/ store' = store) /\ UNCHANGED <<choice, branches, tree, prBase>>
  BY DEF Wt!RepairVanished, Wt!Saved, Wt!repo
<1>2. DOMAIN w \subseteq Dirs /\ \A p \in DOMAIN w : w[p].target # None /\ w[p].was \notin task[t].locals
  BY DEF Wt!Repointed, Wt!Here, Dirs
<1>. HIDE DEF w
<1>3. Writes(w)
  BY <1>1, <1>2 DEF Writes
<1>4. ASSUME NEW p \in Dirs, Put(w, p), choice[p] = w[p].was PROVE Wt!Overrules(p)
  <2>1. Wt!Listed(t, "repair") /\ choice'[p] \notin task[t].locals
    BY <1>1, <1>2, <1>4 DEF Put, Wt!Listed, Wt!RepairVanished
  <2>. QED BY <2>1 DEF Wt!Overrules
<1>5. \A p \in Dirs : Put(w, p) => w[p].target # None
  BY <1>2 DEF Put
<1>. QED BY <1>1, <1>3, <1>4, <1>5, WritesKept DEF WtHeld

(* Every step leaves the store as it must. *)
LEMMA StoreKept ==
  ASSUME WtHeld, NEW t, StepOf(t)
  PROVE  StoreEnds
<1>1. CASE store' = store /\ \A p \in Dirs : choice'[p] \in {None, choice[p]}
  BY <1>1, StoreStays DEF WtHeld
<1>4. CASE Wt!External
  <2>1. store' = store /\ (choice' = choice \/ \E p \in Dirs : choice' = [choice EXCEPT ![p] = None])
    BY <1>4 DEF Wt!External, Wt!BranchComes, Wt!BranchGoes, Wt!Switches, Wt!RemovedOutside, Wt!PollTells, Wt!Outside, Dirs
  <2>. QED BY <1>1, <2>1 DEF WtHeld, RepoOk
<1>. SUFFICES ASSUME t \in Tasks, Wt!Command(t) \/ Wt!Create(t) PROVE StoreEnds
  BY <1>4 DEF StepOf
<1>2. CASE \/ Wt!PutTarget(t) \/ Wt!RenameBranch(t) \/ Wt!GitRemove(t) \/ Wt!HandDown(t)
           \/ Wt!AdoptLivePrTargets(t) \/ Wt!RepairVanished(t) \/ Wt!AddWorktree(t)
  BY <1>2, AddKept, PutKept, RenameKept, RemoveKept, HandDownKept, AdoptKept, RepairKept
<1>3. CASE \/ Wt!CreateWorktreeFromPr(t) \/ Wt!CheckoutPr(t) \/ Wt!DeleteBranch(t) \/ Wt!SyncBase(t) \/ Wt!Snapshot(t)
           \/ Wt!ListWorktrees(t) \/ Wt!ListLocalBranches(t) \/ Wt!PickName(t)
  <2>1. store' = store /\ (choice' = choice \/ choice' = [choice EXCEPT !["w2"] = None])
    BY <1>3 DEF Wt!CreateWorktreeFromPr, Wt!CheckoutPr, Wt!DeleteBranch, Wt!SyncBase, Wt!Snapshot,
       Wt!ListWorktrees, Wt!ListLocalBranches, Wt!PickName
  <2>. QED BY <1>1, <2>1 DEF WtHeld, RepoOk
<1>5. ASSUME NEW p, NEW b, NEW base,
             \/ Wt!SetWorktreeTarget(t, p, b) \/ Wt!RenameWorktreeBranch(t, p, b) \/ Wt!DiscardWorktree(t, p, b)
             \/ Wt!RemoveWorktree(t, p) \/ Wt!WrapUpWorktree(t, p, b, base) \/ Wt!CreateWorktree(t, b)
      PROVE StoreEnds
  <2>1. store' = store /\ choice' = choice
    BY <1>5 DEF Wt!SetWorktreeTarget, Wt!RenameWorktreeBranch, Wt!DiscardWorktree, Wt!RemoveWorktree,
                Wt!WrapUpWorktree, Wt!CreateWorktree, Wt!Remove
  <2>. QED BY <1>1, <2>1
<1>. QED BY <1>2, <1>3, <1>5 DEF Wt!Command, Wt!Create

(* A creation that goes on.                                                  *)
LEMMA CreateMoves ==
  ASSUME TasksOk, NEW t \in Tasks, Wt!Create(t)
  PROVE  \E r : TaskOk(r) /\ task' = [task EXCEPT ![t] = r]
<1>0. TaskOk(task[t])
  BY DEF TasksOk
<1>1. ASSUME NEW b \in Branches, Wt!CreateWorktree(t, b) PROVE \E r : TaskOk(r) /\ task' = [task EXCEPT ![t] = r]
  <2>. DEFINE r == [op |-> "create", pc |-> "queued", target |-> b]
  <2>1. TaskOk(r)
    BY DEF TaskOk
  <2>. QED BY <1>1, <2>1 DEF Wt!CreateWorktree, Wt!Begin
<1>2. CASE Wt!PickName(t)
  <2>1. PICK i \in DOMAIN <<"c", "b", "a">>, k \in DOMAIN <<"w1", "w2">> :
           task' = [task EXCEPT ![t] = [op |-> "create", pc |-> "add", target |-> task[t].target,
                                        branch |-> <<"c", "b", "a">>[i], path |-> <<"w1", "w2">>[k]]]
    BY <1>2 DEF Wt!PickName, Wt!GoesOn
  <2>. DEFINE r == [op |-> "create", pc |-> "add", target |-> task[t].target,
                    branch |-> <<"c", "b", "a">>[i], path |-> <<"w1", "w2">>[k]]
  <2>2. <<"c", "b", "a">>[i] \in Branches /\ <<"w1", "w2">>[k] \in Dirs
    BY DEF Branches, Dirs
  <2>3. task[t].target \in Branches
    BY <1>0, <1>2 DEF Wt!PickName, TaskOk
  <2>4. TaskOk(r)
    BY <2>2, <2>3 DEF TaskOk
  <2>. QED BY <2>1, <2>4
<1>3. CASE Wt!AddWorktree(t)
  BY <1>3, EndMoves DEF Wt!AddWorktree, Moves
<1>. QED BY <1>1, <1>2, <1>3 DEF Wt!Create, Branches

(* Every step leaves the tasks as they must be. *)
LEMMA TasksKept ==
  ASSUME RepoOk, TasksOk, NEW t, StepOf(t)
  PROVE  TasksOk'
<1>1. (\E r : t \in Tasks /\ TaskOk(r) /\ task' = [task EXCEPT ![t] = r]) \/ task' = task
  BY CommandMoves, CreateMoves DEF StepOf, Moves, Wt!External, Wt!BranchComes, Wt!BranchGoes, Wt!Switches, Wt!RemovedOutside,
     Wt!PollTells, Wt!Outside
<1>2. CASE task' = task
  BY <1>2 DEF TasksOk
<1>3. ASSUME NEW r, t \in Tasks, TaskOk(r), task' = [task EXCEPT ![t] = r] PROVE TasksOk'
  <2>1. DOMAIN task' = Tasks /\ \A u \in Tasks : task'[u] = IF u = t THEN r ELSE task[u]
    BY <1>3 DEF TasksOk
  <2>2. ASSUME NEW u \in Tasks PROVE TaskOk(task'[u])
    BY <1>3, <2>1 DEF TasksOk
  <2>. QED BY <2>1, <2>2 DEF TasksOk
<1>. QED BY <1>1, <1>2, <1>3

(* Nobody else creates meanwhile; what else changes the repository is noted. *)
LEMMA PickKept ==
  ASSUME RepoOk, TasksOk, PickOk, Wt!Step
  PROVE  PickOk' /\ (clash' <=> clash)
<1>1. CASE Wt!Changed /\ disturbed' = (Wt!Adding(task') /\ (disturbed \/ Wt!repo' # Wt!repo)) /\ clash' = clash
  <2>1. \A u \in Tasks : Picked(u)' => Picked(u) /\ task'[u] = task[u]
    <3>1. CASE task' = task
      BY <3>1 DEF Picked
    <3>2. ASSUME NEW t \in Tasks, NEW q, Moves(t, q) PROVE \A u \in Tasks : Picked(u)' => Picked(u) /\ task'[u] = task[u]
      <4>1. \A u \in Tasks : task'[u] = IF u = t THEN q ELSE task[u]
        BY <3>2 DEF TasksOk, Moves
      <4>. QED BY <3>2, <4>1 DEF Picked, Moves
    <3>. QED BY <1>1, <3>1, <3>2, CommandMoves DEF Wt!Changed, Wt!External, Wt!BranchComes, Wt!BranchGoes, Wt!Switches,
             Wt!RemovedOutside, Wt!PollTells, Wt!Outside
  <2>2. ASSUME NEW t \in Tasks, Picked(t)', ~disturbed' PROVE (task[t].branch \notin branches /\ tree[task[t].path] = None)'
    <3>1. Wt!Adding(task')
      BY <2>2 DEF Wt!Adding, Picked
    <3>2. ~disturbed /\ UNCHANGED <<branches, tree>>
      BY <1>1, <2>2, <3>1 DEF Wt!repo
    <3>. QED BY <2>1, <2>2, <3>2 DEF PickOk
  <2>. QED BY <1>1, <2>1, <2>2 DEF PickOk
<1>2. ASSUME NEW t \in Tasks, Wt!Create(t),
             clash' = (clash \/ (task[t].op = "create" /\ task[t].pc = "add"
                                  /\ task[t].target \in branches /\ Wt!repo' = Wt!repo /\ ~disturbed)),
             disturbed' = (Wt!Adding(task') /\ disturbed)
      PROVE PickOk' /\ (clash' <=> clash)
  <2>0. PICK r : TaskOk(r) /\ task' = [task EXCEPT ![t] = r]
    BY <1>2, CreateMoves
  <2>1. \A u \in Tasks : task'[u] = IF u = t THEN r ELSE task[u]
    BY <2>0 DEF TasksOk
  <2>2. CASE Wt!AddWorktree(t)
    <3>1. Picked(t)
      BY <2>2 DEF Wt!AddWorktree, Picked
    <3>2. task' = [task EXCEPT ![t] = Wt!Idle] /\ Wt!Idle.op # "create"
      BY <2>2 DEF Wt!AddWorktree, Wt!Ends, Wt!GoesOn, Wt!Idle
    <3>3. \A u \in Tasks : ~Picked(u)'
      BY <3>1, <3>2 DEF PickOk, Picked, TasksOk
    <3>4. ASSUME task[t].target \in branches, Wt!repo' = Wt!repo, ~disturbed PROVE FALSE
      <4>1. task[t].branch \notin branches /\ tree[task[t].path] = None
        BY <3>1, <3>4 DEF PickOk
      <4>2. branches' = branches \cup {task[t].branch}
        BY <2>2, <3>4, <4>1 DEF Wt!AddWorktree, Wt!Lives
      <4>. QED BY <3>4, <4>1, <4>2 DEF Wt!repo
    <3>. QED BY <1>2, <3>3, <3>4 DEF PickOk
  <2>3. CASE Wt!PickName(t)
    <3>1. /\ task[t].pc = "queued" /\ UNCHANGED <<branches, tree>>
          /\ \A u \in Tasks \ {t} : task[u].op = "create" => task[u].pc # "add"
      BY <2>3 DEF Wt!PickName, Wt!MayPick, Wt!repo
    <3>2. \A u \in Tasks : Picked(u)' => u = t
      BY <2>1, <3>1 DEF Picked
    <3>3. task'[t].branch \notin branches /\ tree[task'[t].path] = None
      <4>1. PICK i \in DOMAIN <<"c", "b", "a">>, k \in DOMAIN <<"w1", "w2">> :
               /\ <<"c", "b", "a">>[i] \notin branches
               /\ <<"w1", "w2">>[k] \notin {p \in Dirs : tree[p] # None}
               /\ task' = [task EXCEPT ![t] = [op |-> "create", pc |-> "add", target |-> task[t].target,
                                               branch |-> <<"c", "b", "a">>[i], path |-> <<"w1", "w2">>[k]]]
        BY <2>3 DEF Wt!PickName, Wt!GoesOn, Wt!FirstFree, Wt!Lives, Dirs
      <4>2. task'[t] = [op |-> "create", pc |-> "add", target |-> task[t].target,
                        branch |-> <<"c", "b", "a">>[i], path |-> <<"w1", "w2">>[k]]
        BY <4>1 DEF TasksOk
      <4>3. <<"w1", "w2">>[k] \in Dirs
        BY DEF Dirs
      <4>4. task'[t].branch = <<"c", "b", "a">>[i] /\ task'[t].path = <<"w1", "w2">>[k]
        BY <4>2
      <4>. QED BY <4>1, <4>3, <4>4
    <3>. QED BY <1>2, <3>1, <3>2, <3>3 DEF PickOk
  <2>4. ASSUME NEW b, Wt!CreateWorktree(t, b) PROVE PickOk' /\ (clash' <=> clash)
    <3>1. task' = [task EXCEPT ![t] = [op |-> "create", pc |-> "queued", target |-> b]] /\ task[t].op # "create"
          /\ UNCHANGED <<branches, tree>>
      BY <2>4 DEF Wt!CreateWorktree, Wt!Begin, Wt!Idle, Wt!repo
    <3>2. \A u \in Tasks : Picked(u)' => Picked(u) /\ task'[u] = task[u]
      BY <3>1 DEF Picked, TasksOk
    <3>3. ASSUME NEW u \in Tasks, Picked(u)', ~disturbed' PROVE ~disturbed
      BY <1>2, <3>3 DEF Wt!Adding, Picked
    <3>4. clash' <=> clash
      BY <1>2, <3>1
    <3>5. \A u, v \in Tasks : Picked(u)' /\ Picked(v)' => u = v
      BY <3>2 DEF PickOk
    <3>6. ASSUME NEW u \in Tasks, Picked(u)', ~disturbed'
          PROVE  (task[u].branch \notin branches /\ tree[task[u].path] = None)'
      BY <3>1, <3>2, <3>3, <3>6 DEF PickOk
    <3>. QED BY <3>4, <3>5, <3>6 DEF PickOk
  <2>. QED BY <1>2, <2>2, <2>3, <2>4 DEF Wt!Create
<1>3. CASE \E t \in Tasks :
             /\ Wt!Create(t)
             /\ clash' = (clash \/ (task[t].op = "create" /\ task[t].pc = "add"
                                      /\ task[t].target \in branches /\ Wt!repo' = Wt!repo /\ ~disturbed))
             /\ disturbed' = (Wt!Adding(task') /\ disturbed)
  BY <1>2, <1>3
<1>. QED BY <1>1, <1>3 DEF Wt!Step

(* The invariant survives every step of every part. *)
LEMMA WorktreeKept ==
  ASSUME WorktreeInv, [PartsNext]_allVars
  PROVE  WorktreeInv'
<1>1. CASE UNCHANGED wtVars
  BY <1>1 DEF wtVars, WorktreeInv, RepoOk, StoreOk, TasksOk, TaskOk, PickOk, Picked, Noted, Overruling, WorktreeSafety,
              Wt!WorktreeSafety, Wt!ChoiceIsKept, Wt!MovesAreAnnounced, Wt!OtherReposUntouched, Wt!CreationsDoNotCollide
<1>2. CASE Wt!Next
  <2>1. WtHeld /\ store["o"] = Wt!Entry("a") /\ ~clash /\ PickOk
    BY DEF WorktreeInv, WtHeld, Chosen, WorktreeSafety, Wt!WorktreeSafety, Wt!ChoiceIsKept, Wt!MovesAreAnnounced,
           Wt!OtherReposUntouched, Wt!CreationsDoNotCollide, Dirs
  <2>2. Wt!Step
    BY <1>2 DEF Wt!Next
  <2>3. (\E t \in Tasks : Wt!Command(t) \/ Wt!Create(t)) \/ Wt!External
    BY <2>2 DEF Wt!Step, Wt!Changed
  <2>4. PICK t : StepOf(t)
    BY <2>3 DEF StepOf
  <2>5. RepoOk' /\ TasksOk'
    BY <2>1, <2>4, RepoKept, TasksKept DEF WtHeld
  <2>6. StoreEnds
    BY <2>1, <2>4, StoreKept
  <2>7. PickOk' /\ ~clash'
    BY <2>1, <2>2, PickKept DEF WtHeld
  <2>8. \A p \in Dirs : overruled'[p] = IF choice'[p] = None THEN FALSE
          ELSE \/ Wt!Overrules(p)
               \/ overruled[p] /\ choice'[p] = choice[p] /\ store'[p] # Wt!Entry(choice'[p])
    BY <1>2 DEF Wt!Next, Dirs
  <2>9. \A p \in Dirs : Overruling(p)' => Wt!Overrules(p)
    BY DEF Wt!Overrules, Overruling
  <2>10. Noted'
    BY <2>8, <2>9 DEF Noted
  <2>11. ASSUME NEW p \in Dirs, choice'[p] # None, store'[p].target # choice'[p]
         PROVE  overruled'[p] /\ store'[p].note # None
    <3>1. Kept(p)
      BY <2>6 DEF StoreEnds
    <3>2. store'[p] # Wt!Entry(choice'[p])
      BY <2>11, Apart
    <3>. QED BY <2>8, <2>9, <2>11, <3>1, <3>2 DEF Kept
  <2>12. store'["o"] = Wt!Entry("a") /\ StoreOk'
    BY <2>1, <2>6 DEF StoreEnds
  <2>13. WorktreeSafety'
    BY <2>7, <2>11, <2>12 DEF WorktreeSafety, Wt!WorktreeSafety, Wt!ChoiceIsKept, Wt!MovesAreAnnounced,
       Wt!OtherReposUntouched, Wt!CreationsDoNotCollide, Wt!Entry, Dirs
  <2>. QED BY <2>5, <2>7, <2>10, <2>12, <2>13 DEF WorktreeInv
<1>. QED BY <1>1, <1>2 DEF PartsNext, allVars
(* Where a worktree's work lands is the user's choice, moved only in the    *)
(* open, each repository and each creation on its own, whatever commands,   *)
(* snapshots and agents overlap (manager.ts, worktree-target-store.ts).     *)
THEOREM WorktreesAreAlwaysSafe == PartsSpec => []WorktreeSafety
<1>1. PartsInit => WorktreeInv
  <2>. SUFFICES ASSUME Wt!Init PROVE WorktreeInv
    BY DEF PartsInit
  <2>0. /\ "o" \notin Dirs /\ None \notin Branches /\ "main" \in Branches /\ "a" \in Branches /\ "b" \in Branches
        /\ Dirs = {"w1", "w2"} /\ <<"w1", "w2">>[1] = "w1"
    BY Apart DEF Branches, Dirs
  <2>a. /\ branches = {"main", "a", "b"} /\ prBase = None /\ ~disturbed /\ ~clash
        /\ task = [t \in Tasks |-> Wt!Idle]
        /\ choice = [p \in Dirs |-> store[p].target]
    BY DEF Wt!Init, Dirs
  <2>b. /\ tree \in [Dirs -> Branches \cup {"detached", None}]
        /\ \A p \in Dirs : tree[p] \in {None, "a", "b"}
    <3>1. \/ tree = [p \in Dirs |-> None]
          \/ tree = [p \in Dirs |-> IF p = "w1" THEN "a" ELSE "b"]
      BY <2>0 DEF Wt!Init, Dirs
    <3>. QED BY <2>0, <3>1
  <2>c. /\ DOMAIN store = Dirs \cup {"o"}
        /\ store["o"] = Wt!Entry("a")
        /\ \A p \in Dirs : store[p] = IF tree[p] = "b" THEN Wt!Entry("a")
                                       ELSE IF tree[p] = "a" THEN Wt!Entry("main") ELSE Wt!NoEntry
    BY <2>0 DEF Wt!Init, Dirs
  <2>d. \A p \in Dirs : /\ store[p].note = None /\ DOMAIN store[p] = {"target", "note"}
                        /\ store[p].target \in {None, "a", "main"}
                        /\ store[p].target # None => tree[p] # None
    <3>1. \A b : /\ Wt!Entry(b).target = b /\ Wt!Entry(b).note = None /\ DOMAIN Wt!Entry(b) = {"target", "note"}
      BY Apart
    <3>. QED BY <2>0, <2>b, <2>c, <3>1, Apart
  <2>e. \A p \in Dirs : choice[p] = store[p].target
    BY <2>a
  <2>f. \A t \in Tasks : task[t].op = "none"
    BY <2>a DEF Wt!Idle
  <2>1. RepoOk
    BY <2>0, <2>a, <2>b, <2>d, <2>e DEF RepoOk
  <2>2. StoreOk
    <3>1. DOMAIN store["o"] = {"target", "note"} /\ store["o"].note = None
      BY <2>c, Apart
    <3>. QED BY <2>0, <2>c, <2>d, <3>1 DEF StoreOk
  <2>3. TasksOk /\ PickOk
    BY <2>a, <2>f DEF TasksOk, TaskOk, PickOk, Picked
  <2>4. Noted
    BY <2>a, <2>d, <2>e, <2>f DEF Noted, Overruling
  <2>5. WorktreeSafety
    BY <2>0, <2>a, <2>c, <2>d, <2>e DEF WorktreeSafety, Wt!WorktreeSafety, Wt!ChoiceIsKept, Wt!MovesAreAnnounced,
       Wt!OtherReposUntouched, Wt!CreationsDoNotCollide
  <2>. QED BY <2>1, <2>2, <2>3, <2>4, <2>5 DEF WorktreeInv
<1>2. WorktreeInv => WorktreeSafety
  BY DEF WorktreeInv
<1>3. WorktreeInv /\ [PartsNext]_allVars => WorktreeInv'
  BY WorktreeKept
<1>. QED BY <1>1, <1>2, <1>3, PTL DEF PartsSpec, allVars
-----------------------------------------------------------------------------
(* Where work lands *)

Commits == 1 .. MaxCommits

(* The repository: parents are older than their children, and every local   *)
(* branch, the worktree's own among them, and the default are at a commit.  *)
RepoInv ==
  /\ parents \in [Commits -> SUBSET Commits] /\ \A c \in Commits : parents[c] \subseteq 1 .. c - 1
  /\ tips \in [Lb!Locals -> Commits] /\ Lb!Locals \subseteq Lb!Branches /\ "me" \in Lb!Locals
  /\ originTip \in Commits

(* What the user was told is stored is what is stored, and could be picked. *)
ChosenInv ==
  answer # None /\ answer.kept =>
    stored = answer.to /\ answer.to # Lb!Local("me") /\ \E b \in Lb!Locals : answer.to = Lb!Local(b)

LandingInv == RepoInv /\ ChosenInv

(* A nonempty set of numbers has a least one. *)
LEMMA Least ==
  ASSUME NEW T, T \subseteq Nat, T # {}
  PROVE  \E x \in T : \A y \in T : x <= y
<1>. DEFINE R == OpToRel(<, Nat)
<1>1. IsWellFoundedOn(R, Nat)
  BY NatLessThanWellFounded
<1>2. \A x, y \in Nat : x < y => <<x, y>> \in R
  BY DEF OpToRel
<1>. HIDE DEF R
<1>3. \E x \in T : \A y \in T : ~(<<y, x>> \in R)
  BY <1>1, WFMin
<1>4. PICK x \in T : \A y \in T : ~(<<y, x>> \in R)
  BY <1>3
<1>5. ASSUME NEW y \in T PROVE x <= y
  <2>1. x \in Nat /\ y \in Nat /\ ~(y < x)
    BY <1>2, <1>4
  <2>. QED BY <2>1
<1>. QED BY <1>5

(* A commit reaches itself, all that what it reaches reaches, and nothing   *)
(* that is newer.                                                          *)
LEMMA HistoryIsAncestry ==
  ASSUME RepoInv, NEW c \in Commits
  PROVE  /\ c \in Lb!History(c) /\ Lb!History(c) \subseteq 1 .. c
         /\ \A d \in Lb!History(c) : Lb!History(d) \subseteq Lb!History(c)
<1>1. Lb!Commits = Commits
  BY DEF Lb!Commits, Commits
<1>2. c \in Lb!History(c)
  BY <1>1 DEF Lb!History
<1>3. Lb!History(c) \subseteq 1 .. c
  <2>1. MaxCommits \in Nat /\ c \in 1 .. MaxCommits
    BY LandingAssumption DEF LandingAssumption, Commits
  <2>2. 1 .. c \in SUBSET Commits /\ c \in 1 .. c
    BY <2>1 DEF Commits
  <2>3. Lb!Closed(1 .. c)
    <3>1. ASSUME NEW n \in 1 .. c PROVE parents[n] \subseteq 1 .. c
      <4>1. n \in Commits /\ parents[n] \subseteq 1 .. n - 1
        BY <2>2 DEF RepoInv
      <4>. QED BY <2>1, <4>1
    <3>. QED BY <3>1 DEF Lb!Closed
  <2>. QED BY <1>1, <2>2, <2>3 DEF Lb!History
<1>4. ASSUME NEW d \in Lb!History(c), NEW e \in Lb!History(d) PROVE e \in Lb!History(c)
  <2>1. ASSUME NEW past \in SUBSET Commits, c \in past, Lb!Closed(past) PROVE e \in past
    <3>1. d \in past
      BY <1>1, <1>4, <2>1 DEF Lb!History
    <3>. QED BY <1>1, <1>4, <2>1, <3>1 DEF Lb!History
  <2>. QED BY <1>1, <1>4, <2>1 DEF Lb!History
<1>. QED BY <1>2, <1>3, <1>4

(* What lies beyond a branch on the way to HEAD is a finite set of commits. *)
LEMMA HistoriesAreFinite ==
  ASSUME RepoInv, NEW c \in Commits
  PROVE  IsFiniteSet(Lb!History(c)) /\ Lb!History(c) \subseteq Commits
<1>1. c \in Nat /\ 1 \in Int /\ c \in Int
  BY LandingAssumption DEF LandingAssumption, Commits
<1>2. IsFiniteSet(1 .. c)
  BY <1>1, FS_Interval
<1>3. Lb!History(c) \subseteq 1 .. c
  BY HistoryIsAncestry
<1>4. Lb!History(c) \subseteq Commits
  BY DEF Lb!History, Lb!Commits, Commits
<1>. QED BY <1>2, <1>3, <1>4, FS_Subset

(* Every candidate is at a commit, and has a number in their order. *)
LEMMA CandidatesArePlaced ==
  ASSUME RepoInv, NEW r \in Lb!Selectable
  PROVE  Lb!Commit(r) \in Commits /\ Lb!Rank(r) \in Nat /\ (Lb!Rank(r) = 0 <=> r = Lb!DefaultBranch)
<1>1. CASE \E b \in Lb!Locals : r = Lb!Local(b)
  <2>1. PICK b \in Lb!Locals : r = Lb!Local(b)
    BY <1>1
  <2>2. r[1] = "heads" /\ r[2] = b
    BY <2>1 DEF Lb!Local
  <2>3. Lb!Commit(r) \in Commits
    BY <2>2 DEF Lb!Commit, RepoInv
  <2>4. \E i \in DOMAIN BranchNames : BranchNames[i] = b
    BY DEF RepoInv, Lb!Branches
  <2>5. (CHOOSE i \in DOMAIN BranchNames : BranchNames[i] = r[2]) \in Nat \ {0}
    BY <2>2, <2>4, LandingAssumption DEF LandingAssumption
  <2>. QED BY <2>3, <2>5 DEF Lb!Rank
<1>2. CASE r = Lb!DefaultBranch /\ Lb!Resolves(r)
  <2>1. Lb!Rank(r) = 0
    BY <1>2 DEF Lb!Rank
  <2>2. Lb!Commit(r) \in Commits
    BY <1>2 DEF Lb!Commit, Lb!Resolves, RepoInv
  <2>. QED BY <1>2, <2>1, <2>2
<1>. QED BY <1>1, <1>2 DEF Lb!Selectable

Reach(r) == Lb!History(Lb!Commit(r))

LEMMA DistanceIsANumber ==
  ASSUME RepoInv, NEW r \in Lb!Selectable
  PROVE  Lb!Distance(r) \in Nat
<1>1. tips["me"] \in Commits
  BY DEF RepoInv
<1>2. IsFiniteSet(Lb!History(tips["me"]) \ Reach(r))
  BY <1>1, HistoriesAreFinite, FS_Subset
<1>. QED BY <1>2, FS_CardinalityType DEF Lb!Distance, Reach, Lb!Cardinality, Cardinality

(* Of two candidates on the way to HEAD, the one that reaches the other is  *)
(* the nearer.                                                              *)
LEMMA LaterIsNearer ==
  ASSUME RepoInv, NEW r \in Lb!Selectable, NEW s \in Lb!Selectable,
         Lb!Commit(r) \in Lb!History(tips["me"]), Lb!Commit(s) \in Reach(r), Lb!Commit(r) # Lb!Commit(s)
  PROVE  Lb!Distance(r) < Lb!Distance(s)
<1>. DEFINE Mine == Lb!History(tips["me"])
<1>1. tips["me"] \in Commits /\ Lb!Commit(r) \in Commits /\ Lb!Commit(s) \in Commits
  BY CandidatesArePlaced DEF RepoInv
<1>2. Reach(s) \subseteq Reach(r) /\ Lb!Commit(r) \in Reach(r)
  BY <1>1, HistoryIsAncestry DEF Reach
<1>3. Lb!Commit(r) \notin Reach(s)
  <2>1. Reach(s) \subseteq 1 .. Lb!Commit(s) /\ Reach(r) \subseteq 1 .. Lb!Commit(r)
    BY <1>1, HistoryIsAncestry DEF Reach
  <2>2. Lb!Commit(r) \in Nat /\ Lb!Commit(s) \in Nat
    BY <1>1 DEF Commits
  <2>. QED BY <2>1, <2>2
<1>4. (Mine \ Reach(r)) \subseteq (Mine \ Reach(s)) /\ Mine \ Reach(r) # Mine \ Reach(s)
  BY <1>2, <1>3
<1>5. IsFiniteSet(Mine \ Reach(s))
  BY <1>1, HistoriesAreFinite, FS_Subset
<1>6. Cardinality(Mine \ Reach(r)) < Cardinality(Mine \ Reach(s))
  <2>. DEFINE X == Mine \ Reach(r)
              Y == Mine \ Reach(s)
  <2>1. X \in SUBSET Y /\ IsFiniteSet(Y) /\ X # Y
    BY <1>4, <1>5
  <2>. HIDE DEF X, Y
  <2>2. /\ IsFiniteSet(X) /\ Cardinality(X) <= Cardinality(Y)
        /\ Cardinality(X) = Cardinality(Y) => X = Y
    BY <2>1, FS_Subset
  <2>3. Cardinality(X) \in Nat /\ Cardinality(Y) \in Nat
    BY <2>1, <2>2, FS_CardinalityType
  <2>4. Cardinality(X) < Cardinality(Y)
    BY <2>1, <2>2, <2>3
  <2>. QED BY <2>4 DEF X, Y
<1>. QED BY <1>6 DEF Lb!Distance, Reach, Lb!Cardinality, Cardinality

(* There is a best ancestor, when there is one. *)
LEMMA SuggestionIsBest ==
  ASSUME RepoInv, Lb!Ancestors(Lb!Selectable) # {}
  PROVE  LET best == Lb!ClosestAncestor(Lb!Selectable) IN
         /\ best \in Lb!Ancestors(Lb!Selectable)
         /\ \A s \in Lb!Ancestors(Lb!Selectable) :
              \/ Lb!Distance(best) < Lb!Distance(s)
              \/ Lb!Distance(best) = Lb!Distance(s) /\ Lb!Rank(best) <= Lb!Rank(s)
<1>. DEFINE A == Lb!Ancestors(Lb!Selectable)
            D == {Lb!Distance(s) : s \in A}
<1>1. \A s \in A : s \in Lb!Selectable /\ Lb!Distance(s) \in Nat /\ Lb!Rank(s) \in Nat
  BY DistanceIsANumber, CandidatesArePlaced DEF Lb!Ancestors
<1>2. PICK d \in D : \A e \in D : d <= e
  <2>1. D \subseteq Nat /\ D # {}
    BY <1>1
  <2>. HIDE DEF D
  <2>. QED BY <2>1, Least
<1>. DEFINE near == {s \in A : Lb!Distance(s) = d}
            R == {Lb!Rank(s) : s \in near}
<1>3. PICK k \in R : \A e \in R : k <= e
  <2>1. R \subseteq Nat /\ R # {}
    BY <1>1, <1>2
  <2>. HIDE DEF R
  <2>. QED BY <2>1, Least
<1>4. PICK r \in A : Lb!Distance(r) = d /\ Lb!Rank(r) = k
  BY <1>3
<1>5. ASSUME NEW s \in A
      PROVE  \/ Lb!Distance(r) < Lb!Distance(s)
             \/ Lb!Distance(r) = Lb!Distance(s) /\ Lb!Rank(r) <= Lb!Rank(s)
  BY <1>1, <1>2, <1>3, <1>4
<1>. HIDE DEF A
<1>6. \E b \in A : \A s \in A : \/ Lb!Distance(b) < Lb!Distance(s)
                                \/ Lb!Distance(b) = Lb!Distance(s) /\ Lb!Rank(b) <= Lb!Rank(s)
  BY <1>5
<1>7. Lb!ClosestAncestor(Lb!Selectable) =
        CHOOSE b \in A : \A s \in A : \/ Lb!Distance(b) < Lb!Distance(s)
                                      \/ Lb!Distance(b) = Lb!Distance(s) /\ Lb!Rank(b) <= Lb!Rank(s)
  BY DEF Lb!ClosestAncestor, A
<1>. QED BY <1>6, <1>7 DEF A

LEMMA NearestIsSuggested ==
  ASSUME RepoInv
  PROVE  Lb!SuggestionIsNearest
<1>. DEFINE best == Lb!ClosestAncestor(Lb!Selectable)
            A == Lb!Ancestors(Lb!Selectable)
<1>. SUFFICES ASSUME best # None, NEW r \in Lb!Selectable \ {best, Lb!Local("me")}
     PROVE  /\ Lb!Commit(r) = Lb!Commit(best) => r # Lb!DefaultBranch
            /\ ~(Lb!Commit(r) # Lb!Commit(best) /\ Lb!Commit(r) \in Lb!History(tips["me"])
                 /\ Lb!Commit(best) \in Lb!History(Lb!Commit(r)))
  BY DEF Lb!SuggestionIsNearest
<1>1. A # {}
  BY DEF Lb!ClosestAncestor
<1>2. /\ best \in A
      /\ \A s \in A : \/ Lb!Distance(best) < Lb!Distance(s)
                      \/ Lb!Distance(best) = Lb!Distance(s) /\ Lb!Rank(best) <= Lb!Rank(s)
  BY <1>1, SuggestionIsBest
<1>3. best \in Lb!Selectable /\ Lb!Commit(best) \in Lb!History(tips["me"])
  BY <1>2 DEF Lb!Ancestors
<1>4. Lb!Commit(r) \in Lb!History(tips["me"]) => r \in A
  BY DEF Lb!Ancestors
<1>. HIDE DEF best, A
<1>5. ASSUME Lb!Commit(r) = Lb!Commit(best), r = Lb!DefaultBranch PROVE FALSE
  <2>1. r \in A /\ Lb!Distance(r) = Lb!Distance(best)
    BY <1>3, <1>4, <1>5 DEF Lb!Distance
  <2>2. Lb!Rank(r) = 0 /\ Lb!Rank(best) \in Nat /\ Lb!Rank(best) # 0
    BY <1>3, <1>5, CandidatesArePlaced
  <2>3. Lb!Distance(best) \in Nat
    BY <1>3, DistanceIsANumber
  <2>. QED BY <1>2, <2>1, <2>2, <2>3
<1>6. ASSUME Lb!Commit(r) # Lb!Commit(best), Lb!Commit(r) \in Lb!History(tips["me"]),
             Lb!Commit(best) \in Lb!History(Lb!Commit(r))
      PROVE  FALSE
  <2>1. Lb!Distance(r) < Lb!Distance(best)
    BY <1>3, <1>6, LaterIsNearer DEF Reach
  <2>2. Lb!Distance(best) \in Nat /\ Lb!Distance(r) \in Nat
    BY <1>3, DistanceIsANumber
  <2>. QED BY <1>2, <1>4, <1>6, <2>1, <2>2
<1>. QED BY <1>5, <1>6

LEMMA ChosenIsWhereItLands ==
  ASSUME RepoInv, ChosenInv
  PROVE  Lb!ChosenIsShown
<1>. SUFFICES ASSUME answer # None, answer.kept, pullBase \in {None, "me"}
     PROVE  Lb!Target = answer.to /\ Lb!TargetResolved
  BY DEF Lb!ChosenIsShown
<1>1. PICK b \in Lb!Locals : answer.to = Lb!Local(b)
  BY DEF ChosenInv
<1>2. stored = Lb!Local(b) /\ stored # Lb!Local("me")
  BY <1>1 DEF ChosenInv
<1>3. stored # None
  <2>1. b \in Lb!Branches
    BY DEF RepoInv
  <2>. QED BY <1>2, <2>1, LandingAssumption DEF LandingAssumption, Lb!Local, Lb!Branches
<1>. DEFINE base == IF pullBase = None THEN None ELSE Lb!Local(pullBase)
            tiers == <<base, stored, Lb!DefaultBranch>>
            sound == {i \in 1 .. 3 : tiers[i] \notin {None, Lb!Local("me")}}
<1>4. base \in {None, Lb!Local("me")}
  OBVIOUS
<1>5. tiers[1] = base /\ tiers[2] = stored
  OBVIOUS
<1>6. 1 \notin sound /\ 2 \in sound /\ sound \subseteq 1 .. 3
  BY <1>2, <1>3, <1>4, <1>5
<1>7. Lb!Target = IF sound = {} THEN None ELSE tiers[CHOOSE i \in sound : \A j \in sound : i <= j]
  BY DEF Lb!Target, Lb!ResolveTarget
<1>. HIDE DEF sound, tiers
<1>8. (CHOOSE i \in sound : \A j \in sound : i <= j) = 2
  <2>1. \A i \in sound : (\A j \in sound : i <= j) <=> i = 2
    BY <1>6
  <2>2. \E i \in sound : \A j \in sound : i <= j
    BY <1>6, <2>1
  <2>. QED BY <2>1, <2>2
<1>9. Lb!Target = stored
  BY <1>5, <1>6, <1>7, <1>8
<1>10. Lb!Resolves(stored)
  BY <1>2 DEF Lb!Resolves, Lb!Local
<1>. QED BY <1>1, <1>2, <1>9, <1>10 DEF Lb!TargetResolved

LEMMA LandingKept == LandingInv /\ [PartsNext]_allVars => LandingInv'
<1>. SUFFICES ASSUME LandingInv, [PartsNext]_allVars PROVE LandingInv'
  OBVIOUS
<1>1. CASE UNCHANGED <<lbVars, part>>
  BY <1>1 DEF LandingInv, lbVars, RepoInv, ChosenInv, Lb!Locals
<1>2. ASSUME part = "landing", part' = part, NEW rev, Lb!SetWorktreeTarget(rev) PROVE LandingInv'
  <2>1. RepoInv /\ UNCHANGED <<parents, tips, originTip>>
    BY <1>2 DEF LandingInv, Lb!SetWorktreeTarget, Lb!repo
  <2>2. RepoInv'
    BY <2>1 DEF RepoInv, Lb!Locals
  <2>3. /\ rev \in Lb!Selectable /\ rev # Lb!Local("me")
        /\ answer' = [to |-> rev, kept |-> rev[1] = "heads"]
        /\ stored' = IF rev[1] = "heads" THEN rev ELSE stored
    BY <1>2 DEF Lb!SetWorktreeTarget, Lb!CanBePicked
  <2>4. rev[1] = "heads" => \E b \in Lb!Locals : rev = Lb!Local(b)
    BY <2>3 DEF Lb!Selectable, Lb!DefaultBranch, Lb!DetectDefault, Lb!Resolves, Lb!Local, Lb!Remote
  <2>5. ChosenInv'
    BY <2>1, <2>3, <2>4 DEF ChosenInv, Lb!Locals, Lb!Local
  <2>. QED BY <2>2, <2>5 DEF LandingInv
<1>. QED BY <1>1, <1>2 DEF PartsNext, allVars, Lb!Next

(* The branch the picker suggests is the nearest one the work came from,    *)
(* merges or not, and a chosen one is where the next snapshot says it       *)
(* lands, for any commits, branches and branches of origin                  *)
(* (target_candidates.ts, git.ts, repo_service.ts).                         *)
THEOREM LandingIsAlwaysSafe == PartsSpec => []LandingSafety
<1>1. PartsInit => LandingInv
  <2>. SUFFICES ASSUME PartsInit PROVE RepoInv /\ ChosenInv
    BY DEF LandingInv
  <2>1. CASE Lb!Init
    BY <2>1, LandingAssumption
       DEF Lb!Init, RepoInv, ChosenInv, Lb!Commits, Commits, Lb!Locals, LandingAssumption
  <2>2. CASE part # "landing"
    <3>1. /\ parents = [c \in Commits |-> {}] /\ tips = [me |-> 1]
          /\ originTip = 1 /\ answer = None
      BY <2>2 DEF PartsInit, Commits
    <3>2. tips = [b \in {"me"} |-> 1]
      BY <3>1
    <3>3. "me" \in Lb!Branches /\ 1 \in Commits
      BY LandingAssumption DEF LandingAssumption, Lb!Branches, Commits
    <3>. QED BY <3>1, <3>2, <3>3 DEF RepoInv, ChosenInv, Lb!Locals
  <2>. QED BY <2>1, <2>2 DEF PartsInit
<1>2. LandingInv => LandingSafety
  BY NearestIsSuggested, ChosenIsWhereItLands DEF LandingInv, LandingSafety, Lb!LandingSafety
<1>3. LandingInv /\ [PartsNext]_allVars => LandingInv'
  BY LandingKept
<1>. QED BY <1>1, <1>2, <1>3, PTL DEF PartsSpec, allVars
=============================================================================
