----------------------------- MODULE PlatformProofs -----------------------------
(* Proofs about PlatformMC for any processes, requests, clients and bounds. *)
(* Each part has an invariant of its own; a step of another part leaves it  *)
(* alone, because it leaves all the part's variables alone.                 *)
(*                                                                          *)
(* The second half is about Delivery, which is a specification of its own   *)
(* and has no variable in common with the parts.                            *)
EXTENDS PlatformMC, Delivery, FiniteSetTheorems, SequenceTheorems, NaturalsInduction, TLAPS

allVars == <<part, cpVars, csVars, cwVars, ctVars, clVars, mcVars, lnVars, cmVars, ccVars, ptVars>>

-----------------------------------------------------------------------------
(* The streams of a connection to the control socket *)

(* Beside the property: a stream that cannot be stopped yet is pending while *)
(* the socket is open, a cancel of it is noted until the answer, and on a    *)
(* closed socket nothing can be stopped or is noted.                         *)
StreamsInv ==
  /\ Cs!NoWatchLeaks
  /\ watches \subseteq opened /\ stops \subseteq opened /\ dispatched \subseteq opened
  /\ told \subseteq opened
  /\ stops \cap dispatched = {}
  /\ conn = "open" => pendingStops = dispatched
  /\ conn = "open" => told \cap dispatched \subseteq cancelled
  /\ conn \in {"open", "closed"}
  /\ conn = "closed" => stops = {} /\ cancelled = {}

LEMMA StreamsKept ==
  ASSUME StreamsInv, [PartsNext]_allVars
  PROVE  StreamsInv'
<1>. USE DEF StreamsInv
<1>1. CASE UNCHANGED csVars
  BY <1>1 DEF csVars, Cs!NoWatchLeaks
<1>2. CASE Cs!FollowAlone
  BY <1>2 DEF Cs!FollowAlone, Cs!Follow, Cs!NoWatchLeaks
<1>3. CASE Cs!FollowAndCancel
  BY <1>3 DEF Cs!FollowAndCancel, Cs!Cancel, Cs!CancelPending, Cs!NoWatchLeaks
<1>4. CASE Cs!CancelAlone
  BY <1>4 DEF Cs!CancelAlone, Cs!Cancel, Cs!CancelPending, Cs!NoWatchLeaks
<1>5. CASE Cs!Close
  BY <1>5 DEF Cs!Close, Cs!NoWatchLeaks
<1>6. ASSUME NEW id \in Ids, Cs!Settle(id) PROVE StreamsInv'
  BY <1>6 DEF Cs!Settle, Cs!Settled, Cs!NoWatchLeaks
<1>7. ASSUME NEW id \in Ids, Cs!SettleFails(id) PROVE StreamsInv'
  BY <1>7 DEF Cs!SettleFails, Cs!NoWatchLeaks
<1>. QED BY <1>1, <1>2, <1>3, <1>4, <1>5, <1>6, <1>7 DEF PartsNext, allVars, Cs!Next

(* No watch on the log outlives its stream, whatever the order of requests, *)
(* cancels, answers and the close of the socket (control-server.ts).        *)
THEOREM NoWatchEverLeaks == PartsSpec => []NoWatchLeaks
<1>1. PartsInit => StreamsInv
  BY DEF PartsInit, Cs!Init, StreamsInv, Cs!NoWatchLeaks
<1>2. StreamsInv => NoWatchLeaks
  BY DEF StreamsInv, NoWatchLeaks
<1>3. StreamsInv /\ [PartsNext]_allVars => StreamsInv'
  BY StreamsKept
<1>. QED BY <1>1, <1>2, <1>3, PTL DEF PartsSpec, allVars
-----------------------------------------------------------------------------
(* The sampler *)

Watching == {c \in Clients : socket[c] = "watching"}

(* Beside the property: the collector counted who watches, and no client has *)
(* drawn a sample that was not taken.                                       *)
SamplerInv ==
  /\ socket \in [Clients -> {"closed", "authed", "watching"}]
  /\ ring \in Nat
  /\ chart \in [Clients -> SUBSET Nat]
  /\ \A c \in Clients : chart[c] \subseteq 1 .. ring
  /\ Mt!PanelSafety

LEMMA RecomputeFollows ==
  ASSUME Mt!Recompute PROVE Mt!CadenceFollowsWatchers'
<1>. DEFINE W == {c \in Clients : socket'[c] = "watching"}
<1>1. IsFiniteSet(W)
  BY ClientsAssumption, FS_Subset
<1>2. Cardinality(W) \in Nat /\ (Cardinality(W) = 0 <=> W = {})
  BY <1>1, FS_CardinalityType, FS_EmptySet
<1>3. Cardinality(W) > 0 <=> \E c \in Clients : socket'[c] = "watching"
  BY <1>2
<1>4. Mt!Cardinality(W) = Cardinality(W)
  BY DEF Mt!Cardinality, Cardinality
<1>5. interval' = IF Cardinality(W) > 0 THEN "watched" ELSE "none"
  BY <1>2, <1>4 DEF Mt!Recompute, Mt!Cadence
<1>. QED BY <1>3, <1>5 DEF Mt!CadenceFollowsWatchers

LEMMA SamplerKept ==
  ASSUME SamplerInv, [PartsNext]_allVars
  PROVE  SamplerInv'
<1>. USE DEF SamplerInv, Mt!PanelSafety
<1>1. CASE UNCHANGED mcVars
  BY <1>1 DEF mcVars, Mt!CadenceFollowsWatchers, Mt!ChartHasNoGap
<1>2. ASSUME NEW c \in Clients, Mt!Auth(c) PROVE SamplerInv'
  BY <1>2 DEF Mt!Auth, Mt!CadenceFollowsWatchers, Mt!ChartHasNoGap, Mt!collector
<1>3. ASSUME NEW c \in Clients, Mt!Watch(c) PROVE SamplerInv'
  <2>1. Mt!CadenceFollowsWatchers'
    BY <1>3, RecomputeFollows DEF Mt!Watch
  <2>2. \A d \in Clients : chart'[d] = IF d = c /\ socket[c] # "watching" THEN 1 .. ring ELSE chart[d]
    BY <1>3 DEF Mt!Watch, Mt!HistoryDue
  <2>3. /\ socket' \in [Clients -> {"closed", "authed", "watching"}]
        /\ chart' \in [Clients -> SUBSET Nat]
        /\ ring' = ring
    BY <1>3 DEF Mt!Watch, Mt!HistoryDue
  <2>4. Mt!ChartHasNoGap'
    BY <1>3, <2>2, <2>3 DEF Mt!Watch, Mt!ChartHasNoGap
  <2>. QED BY <2>1, <2>2, <2>3, <2>4
<1>4. ASSUME NEW c \in Clients, Mt!Unwatch(c) PROVE SamplerInv'
  BY <1>4, RecomputeFollows DEF Mt!Unwatch, Mt!ChartHasNoGap
<1>5. ASSUME NEW c \in Clients, Mt!Close(c) PROVE SamplerInv'
  BY <1>5, RecomputeFollows DEF Mt!Close, Mt!Closed, Mt!ChartHasNoGap
<1>6. CASE Mt!TickStarts
  BY <1>6 DEF Mt!TickStarts, Mt!collector, Mt!CadenceFollowsWatchers, Mt!ChartHasNoGap
<1>7. CASE Mt!TickEnds
  <2>1. /\ UNCHANGED <<socket, interval>> /\ ring' = ring + 1
        /\ chart' \in [Clients -> SUBSET Nat]
    BY <1>7 DEF Mt!TickEnds, Mt!collector
  <2>2. \A c \in Clients : /\ chart'[c] \subseteq chart[c] \cup {ring + 1}
                           /\ socket[c] = "watching" => chart'[c] = chart[c] \cup {ring + 1}
    BY <1>7 DEF Mt!TickEnds, Mt!Seen
  <2>3. (1 .. ring) \cup {ring + 1} = 1 .. (ring + 1) /\ ring + 1 \in Nat
    OBVIOUS
  <2>4. Mt!CadenceFollowsWatchers'
    BY <2>1 DEF Mt!CadenceFollowsWatchers
  <2>5. \A c \in Clients : chart'[c] \subseteq 1 .. ring'
    BY <2>1, <2>2, <2>3
  <2>6. Mt!ChartHasNoGap'
    BY <2>1, <2>2, <2>3 DEF Mt!ChartHasNoGap
  <2>. QED BY <2>1, <2>3, <2>4, <2>5, <2>6
<1>8. CASE Mt!TickFails
  BY <1>8 DEF Mt!TickFails, Mt!collector, Mt!CadenceFollowsWatchers, Mt!ChartHasNoGap
<1>. QED BY <1>1, <1>2, <1>3, <1>4, <1>5, <1>6, <1>7, <1>8 DEF PartsNext, allVars, Mt!Next

(* The panel is fed while it is open, and only then, however ticks in      *)
(* flight, watchers and closing sockets interleave (metrics/collector.ts). *)
THEOREM PanelIsAlwaysSafe == PartsSpec => []PanelSafety
<1>1. PartsInit => SamplerInv
  BY DEF PartsInit, Mt!Init, SamplerInv, Mt!PanelSafety, Mt!CadenceFollowsWatchers, Mt!ChartHasNoGap
<1>2. SamplerInv => PanelSafety
  BY DEF SamplerInv, PanelSafety
<1>3. SamplerInv /\ [PartsNext]_allVars => SamplerInv'
  BY SamplerKept
<1>. QED BY <1>1, <1>2, <1>3, PTL DEF PartsSpec, allVars

-----------------------------------------------------------------------------
(* Starting and stopping a daemon *)

(* Beside the property: what has bound the socket is past booting, and what *)
(* was confirmed has bound it.                                              *)
ControlInv ==
  /\ Cp!ReportedIsNamed
  /\ procs \in [Procs -> {"free", "booting", "probed", "listening", "plain", "closing", "gone", "stranger"}]
  /\ path \in Procs \cup {None} /\ pidfile \in Procs \cup {None}
  /\ \A p \in bound : p \in Procs /\ procs[p] \notin {"free", "booting", "probed"}
  /\ confirmed => started \in bound

LEMMA ControlKept ==
  ASSUME ControlInv, [PartsNext]_allVars
  PROVE  ControlInv'
<1>. USE DEF ControlInv, Cp!ReportedIsNamed, Cp!Answers
<1>1. CASE UNCHANGED cpVars
  BY <1>1 DEF cpVars
<1>2. ASSUME NEW op, Cp!Command(op) PROVE ControlInv'
  BY <1>2 DEF Cp!Command, Cp!history
<1>3. CASE Cp!Spawn
  BY <1>3 DEF Cp!Spawn, Cp!history, Cp!RunningPid, Cp!Alive, Cp!Becomes, Cp!Server
<1>4. CASE Cp!Up
  BY <1>4 DEF Cp!Up
<1>5. CASE Cp!GivesUp
  BY <1>5 DEF Cp!GivesUp, Cp!history
<1>6. CASE Cp!Stop
  BY <1>6 DEF Cp!Stop, Cp!history, Cp!RunningPid, Cp!Alive, Cp!Server
<1>7. ASSUME NEW p \in Procs, Cp!Foreground(p) PROVE ControlInv'
  BY <1>7 DEF Cp!Foreground, Cp!Becomes, Cp!history
<1>8. ASSUME NEW p \in Procs, Cp!Probe(p) PROVE ControlInv'
  BY <1>8 DEF Cp!Probe, Cp!Becomes, Cp!history
<1>9. ASSUME NEW p \in Procs, Cp!Bind(p) PROVE ControlInv'
  BY <1>9 DEF Cp!Bind, Cp!Becomes
<1>10. ASSUME NEW p \in Procs, Cp!ShutDown(p) PROVE ControlInv'
  BY <1>10 DEF Cp!ShutDown, Cp!ClearPidFile, Cp!Becomes, Cp!history
<1>11. ASSUME NEW p \in Procs, Cp!Interrupt(p) PROVE ControlInv'
  BY <1>11 DEF Cp!Interrupt, Cp!history
<1>12. ASSUME NEW p \in Procs, Cp!Exit(p) PROVE ControlInv'
  BY <1>12 DEF Cp!Exit, Cp!Becomes, Cp!history
<1>13. ASSUME NEW p \in Procs, Cp!Dies(p) PROVE ControlInv'
  BY <1>13 DEF Cp!Dies, Cp!Becomes, Cp!history, Cp!Server
<1>14. ASSUME NEW p \in Procs, Cp!Recycled(p) PROVE ControlInv'
  BY <1>14 DEF Cp!Recycled, Cp!Becomes, Cp!history
<1>. QED BY <1>1, <1>2, <1>3, <1>4, <1>5, <1>6, <1>7, <1>8, <1>9, <1>10, <1>11, <1>12, <1>13, <1>14
         DEF PartsNext, allVars, Cp!Next

(* `stop` finds the daemon that `start` reported, whoever shuts down, dies  *)
(* or starts beside it (service.ts, serve.ts).                             *)
THEOREM ReportedStaysNamed == PartsSpec => []ReportedIsNamed
<1>1. PartsInit => ControlInv
  BY DEF PartsInit, Cp!Init, ControlInv, Cp!ReportedIsNamed, Cp!Answers
<1>2. ControlInv => ReportedIsNamed
  BY DEF ControlInv, ReportedIsNamed
<1>3. ControlInv /\ [PartsNext]_allVars => ControlInv'
  BY ControlKept
<1>. QED BY <1>1, <1>2, <1>3, PTL DEF PartsSpec, allVars

-----------------------------------------------------------------------------
(* makit wait *)

Frames == Cw!Statuses \cup {"error", "ack"}

(* The i-th frame on its way is past the replay. *)
IsNew(i) == replayed \/ \E j \in 1 .. i - 1 : net[j] = "ack"

(* Beside the property: while the command waits, an "idle" on its way that  *)
(* is not part of the replay was recorded since the snapshot; the log has   *)
(* no ack, so the one in the stream ends the replay.                        *)
WaitInv ==
  /\ Cw!ZeroMeansATurnEnded
  /\ pc \in {"start", "waiting", "done"}
  /\ pc # "done" => code = "none"
  /\ log \in Seq(Frames \ {"ack"}) /\ net \in Seq(Frames)
  /\ status \in Cw!Statuses
  /\ turnEnded \in BOOLEAN /\ replayed \in BOOLEAN /\ following \in BOOLEAN
  /\ pc = "start" => ~following
  /\ ~following => ~replayed /\ net = <<>>
  /\ pc = "waiting" => \A i \in 1 .. Len(net) : net[i] = "idle" /\ IsNew(i) => turnEnded

LEMMA RecordingKeeps ==
  ASSUME WaitInv, NEW e \in Frames \ {"ack"}, Cw!Records(e),
         turnEnded' \in BOOLEAN, turnEnded => turnEnded', pc = "waiting" /\ e = "idle" => turnEnded',
         status' \in Cw!Statuses
  PROVE  WaitInv'
<1>. USE DEF WaitInv, Cw!Records, Cw!ZeroMeansATurnEnded
<1>1. UNCHANGED <<pc, code, following, replayed>> /\ log' \in Seq(Frames \ {"ack"})
  OBVIOUS
<1>2. CASE ~following
  <2>1. net' = net
    BY <1>2
  <2>. QED BY <1>1, <1>2, <2>1 DEF IsNew
<1>3. CASE following
  <2>1. net' = Append(net, e) /\ net' \in Seq(Frames) /\ Len(net') = Len(net) + 1
    BY <1>3 DEF Frames
  <2>2. \A i \in 1 .. Len(net) : net'[i] = net[i]
    BY <2>1
  <2>3. net'[Len(net) + 1] = e
    BY <2>1
  <2>4. ASSUME pc = "waiting", NEW i \in 1 .. Len(net'), net'[i] = "idle", IsNew(i)' PROVE turnEnded'
    <3>1. CASE i = Len(net) + 1
      BY <2>3, <2>4, <3>1
    <3>2. CASE i \in 1 .. Len(net)
      <4>1. net[i] = "idle" /\ IsNew(i)
        BY <2>2, <2>4, <3>2, <1>1 DEF IsNew
      <4>. QED BY <2>4, <3>2, <4>1
    <3>. QED BY <2>1, <2>4, <3>1, <3>2
  <2>. QED BY <1>1, <1>3, <2>1, <2>4
<1>. QED BY <1>2, <1>3

LEMMA WaitKept ==
  ASSUME WaitInv, [PartsNext]_allVars
  PROVE  WaitInv'
<1>. USE DEF WaitInv, Cw!ZeroMeansATurnEnded
<1>1. CASE UNCHANGED cwVars
  BY <1>1 DEF cwVars, IsNew
<1>2. ASSUME NEW s \in Cw!Statuses, Cw!StatusChanges(s) PROVE WaitInv'
  BY <1>2, RecordingKeeps DEF Cw!StatusChanges, Frames, Cw!Statuses
<1>3. CASE Cw!TurnFails
  BY <1>3, RecordingKeeps DEF Cw!TurnFails, Frames, Cw!Statuses
<1>4. CASE Cw!Snapshot
  BY <1>4 DEF Cw!Snapshot, Cw!Settle, Cw!session, Cw!CodeForStatus, IsNew
<1>5. CASE Cw!HandleSub
  <2>1. /\ net' = Append(log, "ack") /\ ~replayed' /\ following'
        /\ UNCHANGED <<status, log, turnEnded, pc, code>>
    BY <1>5 DEF Cw!HandleSub, Cw!session
  <2>2. net' \in Seq(Frames) /\ Len(net') = Len(log) + 1
    BY <2>1 DEF Frames
  <2>3. \A j \in 1 .. Len(log) : net'[j] # "ack"
    BY <2>1
  <2>4. \A i \in 1 .. Len(net') : ~IsNew(i)'
    BY <2>1, <2>2, <2>3 DEF IsNew
  <2>. QED BY <1>5, <2>1, <2>2, <2>4 DEF Cw!HandleSub
<1>6. CASE Cw!OnFrame
  <2>. DEFINE e == Head(net)
  <2>1. /\ pc = "waiting" /\ net # <<>> /\ net' = Tail(net)
        /\ UNCHANGED <<status, log, turnEnded, following>>
    BY <1>6 DEF Cw!OnFrame, Cw!session
  <2>2. Len(net) >= 1 /\ e = net[1] /\ net' \in Seq(Frames) /\ Len(net') = Len(net) - 1
    BY <2>1
  <2>3. \A i \in 1 .. Len(net') : net'[i] = net[i + 1]
    BY <2>1, <2>2
  <2>4. replayed' = (replayed \/ e = "ack") /\ following
    BY <1>6, <2>1 DEF Cw!OnFrame
  <2>5. \A i \in 1 .. Len(net') : IsNew(i)' => IsNew(i + 1)
    <3>. SUFFICES ASSUME NEW i \in 1 .. Len(net'), IsNew(i)' PROVE IsNew(i + 1)
      OBVIOUS
    <3>1. CASE replayed'
      BY <2>2, <2>4, <3>1 DEF IsNew
    <3>2. CASE ~ replayed'
      <4>1. PICK j \in 1 .. i - 1 : net'[j] = "ack"
        BY <3>2 DEF IsNew
      <4>2. j + 1 \in 1 .. (i + 1) - 1 /\ net[j + 1] = "ack"
        BY <2>2, <2>3, <4>1
      <4>. QED BY <4>2 DEF IsNew
    <3>. QED BY <3>1, <3>2
  <2>6. ASSUME NEW i \in 1 .. Len(net'), net'[i] = "idle", IsNew(i)' PROVE turnEnded'
    <3>1. i + 1 \in 1 .. Len(net) /\ net[i + 1] = "idle" /\ IsNew(i + 1)
      BY <2>2, <2>3, <2>5, <2>6
    <3>. QED BY <2>1, <3>1
  <2>7. pc' \in {"waiting", "done"} /\ (pc' = "waiting" => code' = "none")
    BY <1>6, <2>1 DEF Cw!OnFrame, Cw!Settle
  <2>8. code' = "ok" => turnEnded'
    <3>. SUFFICES ASSUME code' = "ok" PROVE turnEnded'
      OBVIOUS
    <3>1. replayed /\ Cw!CodeForStatus(e) = "ok"
      BY <1>6, <2>1 DEF Cw!OnFrame, Cw!Settle, Cw!Counts
    <3>2. e = "idle"
      BY <3>1 DEF Cw!CodeForStatus
    <3>. QED BY <2>1, <2>2, <3>1, <3>2 DEF IsNew
  <2>9. replayed' \in BOOLEAN /\ (~following' => ~replayed' /\ net' = <<>>)
    BY <2>1, <2>4
  <2>. QED BY <2>1, <2>2, <2>6, <2>7, <2>8, <2>9
<1>7. CASE Cw!TimesOut \/ Cw!ConnectionLost
  BY <1>7 DEF Cw!TimesOut, Cw!ConnectionLost, Cw!Settle, Cw!session, IsNew
<1>. QED BY <1>1, <1>2, <1>3, <1>4, <1>5, <1>6, <1>7 DEF PartsNext, allVars, Cw!Next

LEMMA WaitInit == PartsInit => WaitInv
<1>. SUFFICES ASSUME PartsInit PROVE WaitInv
  OBVIOUS
<1>1. /\ status \in Cw!Statuses /\ log \in {<<>>, <<"running", "idle">>}
      /\ following = FALSE /\ net = <<>> /\ pc = "start" /\ replayed = FALSE
      /\ code = "none" /\ turnEnded = FALSE
  BY DEF PartsInit, Cw!Init
<1>2. "running" \in Frames \ {"ack"} /\ "idle" \in Frames \ {"ack"}
  BY DEF Frames, Cw!Statuses
<1>3. log \in Seq(Frames \ {"ack"}) /\ net \in Seq(Frames)
  <2>1. net = <<>> /\ (log = <<>> \/ log = <<"running", "idle">>)
    BY <1>1
  <2>. DEFINE F == Frames \ {"ack"}
  <2>2. "running" \in F /\ "idle" \in F
    BY <1>2
  <2>. HIDE DEF F
  <2>3. <<>> \in Seq(F) /\ <<"running", "idle">> \in Seq(F)
    BY <2>2
  <2>4. net \in Seq(Frames)
    BY <2>1
  <2>. QED BY <2>1, <2>3, <2>4 DEF F
<1>. QED BY <1>1, <1>3 DEF WaitInv, Cw!ZeroMeansATurnEnded

(* Exit 0 of `makit wait` says that a turn ended after the command was     *)
(* given, however long the replay and whatever else was recorded.          *)
THEOREM ZeroAlwaysMeansATurnEnded == PartsSpec => []ZeroMeansATurnEnded
<1>1. PartsInit => WaitInv
  BY WaitInit
<1>2. WaitInv => ZeroMeansATurnEnded
  BY DEF WaitInv, ZeroMeansATurnEnded
<1>3. WaitInv /\ [PartsNext]_allVars => WaitInv'
  BY WaitKept
<1>. QED BY <1>1, <1>2, <1>3, PTL DEF PartsSpec, allVars
-----------------------------------------------------------------------------
(* The catalog of a harness *)

(* An entry is of the inputs its fingerprint names, or is marked. *)
IsEntry(e) ==
  /\ e = Cc!Entry(e.fingerprint, e.options, e.crossed)
  /\ e.fingerprint \in Nat
  /\ e.options = None \/ e.crossed \/ e.options = e.fingerprint

(* Beside the property: a probe has read what there was since it began, and *)
(* who waits for one asked since then.                                     *)
CatalogInv ==
  /\ version \in Nat \ {0}
  /\ cached = None \/ IsEntry(cached)
  /\ disk = None \/ IsEntry(disk)
  /\ probe = None \/ /\ probe = [began |-> probe.began, saw |-> probe.saw]
                     /\ probe.began \in 1 .. version
                     /\ probe.saw = 0 \/ probe.saw \in probe.began .. version
  /\ asked \in [Clients -> Nat]
  /\ call \in [Clients -> {"idle", "waiting", "answered"}]
  /\ DOMAIN answer = Clients
  /\ \A c \in Clients : call[c] = "waiting" => probe # None /\ asked[c] \in probe.began .. version
  /\ \A c \in Clients : call[c] = "answered" => IsEntry(answer[c]) /\ answer[c].fingerprint = asked[c]

LEMMA IsNoProbe ==
  ASSUME NEW b \in Nat, NEW s \in Nat PROVE [began |-> b, saw |-> s] # None
<1>1. [began |-> b, saw |-> s] \in [began : Nat, saw : Nat]
  OBVIOUS
<1>. QED BY <1>1, NoProbeAssumption, Zenon

LEMMA SettlingKeeps ==
  ASSUME CatalogInv, probe # None, NEW options, options = None \/ (options = probe.saw /\ probe.saw # 0),
         Cc!Settle(options)
  PROVE  CatalogInv'
<1>. USE DEF CatalogInv
<1>. DEFINE Of(c) == Cc!Entry(asked[c], options, probe.began # version)
<1>1. \A c \in Cc!Waiting : c \in Clients /\ IsEntry(Of(c)) /\ Of(c).fingerprint = asked[c]
  <2>. SUFFICES ASSUME NEW c \in Cc!Waiting
                PROVE  c \in Clients /\ IsEntry(Of(c)) /\ Of(c).fingerprint = asked[c]
    OBVIOUS
  <2>1. c \in Clients /\ asked[c] \in Nat /\ asked[c] \in probe.began .. version
    BY DEF Cc!Waiting
  <2>2. options = None \/ probe.began # version \/ options = asked[c]
    BY <2>1
  <2>. QED BY <2>1, <2>2 DEF Cc!Entry, IsEntry
<1>2. PICK caller \in Cc!Waiting : cached' = Of(caller)
  BY DEF Cc!Settle
<1>3. IsEntry(cached') /\ (disk' = None \/ IsEntry(disk'))
  BY <1>1, <1>2 DEF Cc!Settle
<1>4. /\ call' = [c \in Clients |-> IF c \in Cc!Waiting THEN "answered" ELSE call[c]]
      /\ answer' = [c \in Clients |-> IF c \in Cc!Waiting THEN Of(c) ELSE answer[c]]
      /\ UNCHANGED <<version, asked>> /\ probe' = None
  BY DEF Cc!Settle
<1>5. \A c \in Clients : call'[c] # "waiting"
  BY <1>4 DEF Cc!Waiting
<1>6. \A c \in Clients : call'[c] = "answered" => IsEntry(answer'[c]) /\ answer'[c].fingerprint = asked[c]
  BY <1>1, <1>4
<1>. HIDE DEF Of
<1>. QED BY <1>3, <1>4, <1>5, <1>6

LEMMA CatalogKept ==
  ASSUME CatalogInv, [PartsNext]_allVars
  PROVE  CatalogInv'
<1>. USE DEF CatalogInv
<1>1. CASE UNCHANGED ccVars
  BY <1>1 DEF ccVars
<1>2. ASSUME NEW c \in Clients, Cc!ServeWarm(c) PROVE CatalogInv'
  BY <1>2 DEF Cc!ServeWarm, Cc!Warm
<1>3. ASSUME NEW c \in Clients, NEW force, Cc!Ask(c, force) PROVE CatalogInv'
  <2>1. /\ call[c] = "idle" /\ call' = [call EXCEPT ![c] = "waiting"]
        /\ asked' = [asked EXCEPT ![c] = version]
        /\ UNCHANGED <<version, cached, disk, answer>>
    BY <1>3 DEF Cc!Ask
  <2>2. CASE probe = None
    <3>1. probe' = [began |-> version, saw |-> 0]
      BY <1>3, <2>2 DEF Cc!Ask
    <3>2. version \in Nat /\ 0 \in Nat
      OBVIOUS
    <3>3. probe' # None
      BY <3>1, <3>2, IsNoProbe, Zenon
    <3>4. probe'.began = version /\ probe'.saw = 0
      BY <3>1
    <3>5. probe' = [began |-> probe'.began, saw |-> probe'.saw]
      BY <3>1, <3>4
    <3>6. \A d \in Clients : call'[d] = "waiting" => asked'[d] = version
      BY <2>1, <2>2
    <3>. QED BY <2>1, <3>3, <3>4, <3>5, <3>6
  <2>3. CASE probe # None
    <3>1. probe' = probe
      BY <1>3, <2>3 DEF Cc!Ask
    <3>. QED BY <2>1, <2>3, <3>1
  <2>. QED BY <2>2, <2>3
<1>4. CASE Cc!ProbeReads
  <2>1. /\ probe' = [began |-> probe.began, saw |-> version]
        /\ UNCHANGED <<version, cached, disk, call, asked, answer>>
    BY <1>4 DEF Cc!ProbeReads
  <2>2. probe.began \in Nat /\ version \in Nat
    BY <1>4 DEF Cc!ProbeReads
  <2>3. probe' # None
    BY <2>1, <2>2, IsNoProbe, Zenon
  <2>4. probe'.began = probe.began /\ probe'.saw = version
    BY <2>1
  <2>5. probe' = [began |-> probe'.began, saw |-> probe'.saw]
    BY <2>1, <2>4
  <2>6. probe # None
    BY <1>4 DEF Cc!ProbeReads
  <2>. QED BY <2>1, <2>2, <2>3, <2>4, <2>5, <2>6
<1>5. CASE Cc!ProbeEnds \/ Cc!ProbeFails
  BY <1>5, SettlingKeeps DEF Cc!ProbeEnds, Cc!ProbeFails
<1>6. CASE Cc!Edit
  BY <1>6 DEF Cc!Edit
<1>7. CASE Cc!Restart
  BY <1>7 DEF Cc!Restart, Cc!Waiting
<1>. QED BY <1>1, <1>2, <1>3, <1>4, <1>5, <1>6, <1>7
         DEF PartsNext, allVars, Cc!Next, Cc!ServeCold, Cc!Refresh

-----------------------------------------------------------------------------
(* The push tokens *)

(* Beside the property: only a token that was replaced, or is of the other   *)
(* environment, can be dead, and a device whose token APNs may yet call     *)
(* dead by a push of before is marked.                                      *)
TokensInv ==
  /\ online \subseteq paired /\ announced \subseteq paired /\ paired \subseteq Clients
  /\ issued \in [Clients -> Nat \ {0}]
  /\ token \in [Clients -> Nat] /\ sent \in [Clients -> Nat]
  /\ dead \in [Clients -> SUBSET (Nat \ {0})]
  /\ \A d \in Clients : token[d] <= issued[d]
  /\ \A d \in Clients \ Foreign : \A t \in dead[d] : t < issued[d]
  /\ \A d \in announced : token[d] \in {0, issued[d]}
  /\ \A p \in flying : p.to \in Clients /\ p.token \in 1 .. issued[p.to]
  /\ \A p \in flying : p.to \in announced /\ p.token # issued[p.to] => p.to \in overtaken
  /\ Pt!RegisteredIsKept /\ Pt!DeadIsForgotten

LEMMA PushingKeeps ==
  ASSUME TokensInv, NEW targets \in SUBSET Pt!WithToken, NEW about,
         flying' = flying \cup Pt!Push(targets, about),
         UNCHANGED <<paired, online, issued, token, sent, announced, overtaken, dead>>
  PROVE  TokensInv'
<1>1. \A p \in Pt!Push(targets, about) :
        /\ p.to \in paired /\ p.token = token[p.to] /\ p.token # 0
  BY DEF Pt!Push, Pt!WithToken
<1>2. \A p \in flying' : p.to \in Clients /\ p.token \in 1 .. issued[p.to]
  BY <1>1 DEF TokensInv
<1>3. \A p \in flying' : p.to \in announced /\ p.token # issued[p.to] => p.to \in overtaken
  BY <1>1 DEF TokensInv
<1>4. Pt!RegisteredIsKept' /\ Pt!DeadIsForgotten'
  BY DEF TokensInv, Pt!RegisteredIsKept, Pt!DeadIsForgotten
<1>5. \A d \in Clients \ Foreign : \A t \in dead'[d] : t < issued'[d]
  BY DEF TokensInv
<1>6. \A d \in Clients : token'[d] <= issued'[d]
  BY DEF TokensInv
<1>. QED BY <1>2, <1>3, <1>4, <1>5, <1>6 DEF TokensInv

LEMMA TokensKept ==
  ASSUME TokensInv, [PartsNext]_allVars
  PROVE  TokensInv'
<1>. USE DEF TokensInv, Pt!RegisteredIsKept, Pt!DeadIsForgotten
<1>1. CASE UNCHANGED ptVars
  BY <1>1 DEF ptVars
<1>2. ASSUME NEW d \in Clients, Pt!Connect(d) \/ Pt!Disconnect(d) PROVE TokensInv'
  BY <1>2 DEF Pt!Connect, Pt!Disconnect
<1>3. ASSUME NEW d \in Clients, Pt!Register(d) PROVE TokensInv'
  BY <1>3 DEF Pt!Register, Pt!MaySend, Pt!Stored
<1>4. ASSUME NEW d \in Clients, Pt!Reissue(d) PROVE TokensInv'
  BY <1>4 DEF Pt!Reissue
<1>5. ASSUME NEW d \in Clients, Pt!Revoke(d) PROVE TokensInv'
  BY <1>5 DEF Pt!Revoke
<1>6. CASE Pt!Wake
  BY <1>6, PushingKeeps DEF Pt!Wake
<1>7. CASE Pt!PortDown
  BY <1>7, PushingKeeps DEF Pt!PortDown
<1>8. ASSUME NEW p \in flying, Pt!Answered(p) PROVE TokensInv'
  <2>1. PICK result \in Pt!Results(p) :
          /\ token' = IF Pt!Clears(result) /\ p.to \in paired THEN [token EXCEPT ![p.to] = 0] ELSE token
          /\ dead' = IF result = "dead" THEN [dead EXCEPT ![p.to] = @ \cup {p.token}] ELSE dead
    BY <1>8 DEF Pt!Answered
  <2>2. result = "dead" => p.token # issued[p.to] \/ p.to \in Foreign
    BY <2>1 DEF Pt!Results
  <2>3. flying' \subseteq flying /\ UNCHANGED <<paired, online, issued, sent, announced, overtaken>>
    BY <1>8 DEF Pt!Answered
  <2>. QED BY <2>1, <2>2, <2>3 DEF Pt!Clears
<1>9. CASE Pt!Restart
  BY <1>9 DEF Pt!Restart
<1>. QED BY <1>1, <1>2, <1>3, <1>4, <1>5, <1>6, <1>7, <1>8, <1>9 DEF PartsNext, allVars, Pt!Next

(* What is answered from memory is what it stands for: the options of a     *)
(* harness are those of the inputs it had when it was asked, and a device's  *)
(* token is the one it registered, but for the races that the properties     *)
(* name (adapters/capability_cache.ts, push/wake_coordinator.ts).            *)
THEOREM KeptAnswersAreAlwaysTrue == PartsSpec => []KeptAnswersAreTrue
<1>1. PartsInit => CatalogInv /\ TokensInv
  BY DEF PartsInit, Cc!Init, Pt!Init, CatalogInv, TokensInv, Pt!RegisteredIsKept, Pt!DeadIsForgotten
<1>2. CatalogInv /\ TokensInv => KeptAnswersAreTrue
  BY DEF CatalogInv, TokensInv, IsEntry, KeptAnswersAreTrue, Cc!AnswersFitTheFingerprint
<1>3. CatalogInv /\ TokensInv /\ [PartsNext]_allVars => (CatalogInv /\ TokensInv)'
  BY CatalogKept, TokensKept
<1>. QED BY <1>1, <1>2, <1>3, PTL DEF PartsSpec, allVars
-----------------------------------------------------------------------------
(* The tree of spawned sessions *)

(* A session that others have for a parent: it was in the registry once. *)
Was == {"draft", "started", "killing", "killed"}

LineTypes ==
  /\ phase \in [Ln!SessionIds -> {"free", "forking", "checked", "refused"} \cup Was]
  /\ parent \in [Ln!SessionIds -> Ln!SessionIds \cup {None}]

(* What the checks see to: the parents there are in memory. *)
DepthNow == \A r \in Ln!Known : parent[r] # None => Ln!SpawnDepth(parent[r]) <= MaxDepth
FanOutNow == \A q \in Ln!SessionIds : Ln!Cardinality(Ln!LiveChildren(q) \ reopened) <= MaxLive

(* Beside these: who is known has a row, a thread is of a fork that came     *)
(* back, and a fork that nothing overtook since it was checked has room.     *)
LineageInv ==
  /\ LineTypes
  /\ \A r \in Ln!SessionIds : parent[r] # None => phase[parent[r]] \in Was
  /\ \A r \in Ln!SessionIds : phase[r] \in Was => r \in rows
  /\ \A r \in threads : r \in Ln!SessionIds /\ phase[r] \notin {"free", "forking"}
  /\ \A q \in Ln!SessionIds : \A r \in Ln!Forks \ excused : parent[r] = q => Ln!MaySpawn(q)
  /\ DepthNow /\ FanOutNow /\ Ln!OrphansExplained

LEMMA SessionsAreFinite ==
  ASSUME NEW S \in SUBSET Ln!SessionIds, NEW T \in SUBSET S
  PROVE  /\ IsFiniteSet(S) /\ IsFiniteSet(T)
         /\ Ln!Cardinality(S) \in Nat /\ Ln!Cardinality(T) \in Nat
         /\ Ln!Cardinality(T) <= Ln!Cardinality(S)
         /\ Ln!Cardinality(S) = Cardinality(S)
<1>1. IsFiniteSet(Ln!SessionIds)
  BY SessionsAssumption, FS_Interval DEF Ln!SessionIds
<1>2. IsFiniteSet(S)
  BY <1>1, FS_Subset
<1>3. IsFiniteSet(T) /\ Cardinality(T) <= Cardinality(S)
  BY <1>2, FS_Subset
<1>4. Cardinality(S) \in Nat /\ Cardinality(T) \in Nat
  BY <1>2, <1>3, FS_CardinalityType
<1>5. Ln!Cardinality(S) = Cardinality(S) /\ Ln!Cardinality(T) = Cardinality(T)
  BY DEF Ln!Cardinality, Cardinality
<1>. QED BY <1>2, <1>3, <1>4, <1>5

(* A walk gets no longer while sessions go, and while sessions come that are *)
(* nobody's parent.                                                         *)
LEMMA LineShrinks ==
  ASSUME LineTypes, LineTypes', NEW S \in SUBSET Ln!SessionIds,
         Ln!Known' \subseteq Ln!Known \cup S,
         \A r \in Ln!Known : parent[r] \notin S,
         \A r \in Ln!Known' \ S : parent'[r] = parent[r],
         NEW q \in Ln!SessionIds \ S
  PROVE  /\ Ln!Line(q)' \subseteq Ln!Line(q)
         /\ Ln!SpawnDepth(q)' <= Ln!SpawnDepth(q)
         /\ Ln!SpawnDepth(q) \in Nat /\ Ln!SpawnDepth(q)' \in Nat
<1>1. ASSUME NEW A \in SUBSET Ln!SessionIds, q \in A, Ln!ClosedUpwards(A)
      PROVE  q \in A \ S /\ Ln!ClosedUpwards(A \ S)'
  <2>1. ASSUME NEW r \in (A \ S) \cap Ln!Known', parent'[r] # None
        PROVE  parent'[r] \in A \ S
    <3>1. r \in A \cap Ln!Known /\ parent'[r] = parent[r]
      OBVIOUS
    <3>. QED BY <1>1, <2>1, <3>1 DEF Ln!ClosedUpwards
  <2>. QED BY <1>1, <2>1 DEF Ln!ClosedUpwards
<1>2. Ln!Line(q)' \subseteq Ln!Line(q)
  <2>. SUFFICES ASSUME NEW x \in Ln!Line(q)', NEW A \in SUBSET Ln!SessionIds, q \in A, Ln!ClosedUpwards(A)
                PROVE  x \in Ln!SessionIds /\ x \in A
    BY DEF Ln!Line
  <2>1. q \in A \ S /\ Ln!ClosedUpwards(A \ S)' /\ A \ S \in SUBSET Ln!SessionIds
    BY <1>1
  <2>2. x \in A \ S
    BY <2>1 DEF Ln!Line
  <2>. QED BY <2>2
<1>3. Ln!Line(q) \in SUBSET Ln!SessionIds
  BY DEF Ln!Line
<1>. QED BY <1>2, <1>3, SessionsAreFinite DEF Ln!SpawnDepth

(* In a step that gives p a live child and no other, whatever had room keeps *)
(* it, but for p.                                                           *)
LEMMA RoomIsKept ==
  ASSUME LineTypes, LineTypes', NEW S \in SUBSET Ln!SessionIds,
         Ln!Known' \subseteq Ln!Known \cup S,
         \A r \in Ln!Known : parent[r] \notin S,
         \A r \in Ln!Known' \ S : parent'[r] = parent[r],
         NEW p, NEW q \in Ln!SessionIds \ S, q # p,
         \A r \in (Ln!Known \ closed)' : parent'[r] = p \/ r \in (Ln!Known \ closed) \ S
  PROVE  /\ Ln!LiveChildren(q)' \subseteq Ln!LiveChildren(q)
         /\ Ln!MaySpawn(q) => Ln!MaySpawn(q)'
<1>1. Ln!LiveChildren(q)' \subseteq Ln!LiveChildren(q)
  BY DEF Ln!LiveChildren
<1>2. Ln!SpawnDepth(q)' <= Ln!SpawnDepth(q) /\ Ln!SpawnDepth(q) \in Nat /\ Ln!SpawnDepth(q)' \in Nat
  BY LineShrinks
<1>3. Ln!LiveChildren(q) \in SUBSET Ln!SessionIds
  BY DEF Ln!LiveChildren, Ln!Known
<1>4. /\ Ln!Cardinality(Ln!LiveChildren(q)') <= Ln!Cardinality(Ln!LiveChildren(q))
      /\ Ln!Cardinality(Ln!LiveChildren(q)') \in Nat /\ Ln!Cardinality(Ln!LiveChildren(q)) \in Nat
  BY <1>1, <1>3, SessionsAreFinite
<1>. QED BY <1>1, <1>2, <1>4, DepthAssumption, LiveAssumption DEF Ln!MaySpawn

(* Live children that were counted before are within the bound. *)
LEMMA FanOutFrom ==
  ASSUME LineageInv, NEW q \in Ln!SessionIds, Ln!LiveChildren(q)' \ reopened' \subseteq Ln!LiveChildren(q) \ reopened
  PROVE  Ln!Cardinality(Ln!LiveChildren(q)' \ reopened') <= MaxLive
<1>1. Ln!LiveChildren(q) \ reopened \in SUBSET Ln!SessionIds
  BY DEF Ln!LiveChildren, Ln!Known
<1>2. Ln!Cardinality(Ln!LiveChildren(q) \ reopened) <= MaxLive
  BY DEF LineageInv, FanOutNow
<1>. QED BY <1>1, <1>2, SessionsAreFinite, LiveAssumption

(* A step that makes no session live takes no room from anyone. *)
LEMMA QuietSteps ==
  ASSUME LineageInv, LineTypes', reopened \subseteq reopened',
         Ln!Known' \subseteq Ln!Known, (Ln!Known \ closed)' \subseteq Ln!Known \ closed,
         \A r \in Ln!Known' : parent'[r] = parent[r]
  PROVE  /\ \A q \in Ln!SessionIds : Ln!MaySpawn(q) => Ln!MaySpawn(q)'
         /\ DepthNow' /\ FanOutNow'
<1>1. LineTypes
  BY DEF LineageInv
<1>2. ASSUME NEW q \in Ln!SessionIds
      PROVE  /\ Ln!LiveChildren(q)' \subseteq Ln!LiveChildren(q)
             /\ Ln!MaySpawn(q) => Ln!MaySpawn(q)'
             /\ Ln!SpawnDepth(q)' <= Ln!SpawnDepth(q)
             /\ Ln!SpawnDepth(q) \in Nat /\ Ln!SpawnDepth(q)' \in Nat
  <2>1. q # None
    BY NoneAssumption DEF Ln!SessionIds
  <2>2. /\ Ln!LiveChildren(q)' \subseteq Ln!LiveChildren(q)
        /\ Ln!MaySpawn(q) => Ln!MaySpawn(q)'
    <3>. DEFINE S == {}
    <3>1. S \in SUBSET Ln!SessionIds /\ q \in Ln!SessionIds \ S
      OBVIOUS
    <3>2. /\ Ln!Known' \subseteq Ln!Known \cup S
          /\ \A r \in Ln!Known : parent[r] \notin S
          /\ \A r \in Ln!Known' \ S : parent'[r] = parent[r]
          /\ \A r \in (Ln!Known \ closed)' : parent'[r] = None \/ r \in (Ln!Known \ closed) \ S
      OBVIOUS
    <3>. HIDE DEF S
    <3>. QED BY <1>1, <2>1, <3>1, <3>2, RoomIsKept
  <2>3. /\ Ln!SpawnDepth(q)' <= Ln!SpawnDepth(q)
        /\ Ln!SpawnDepth(q) \in Nat /\ Ln!SpawnDepth(q)' \in Nat
    <3>. DEFINE S == {}
    <3>1. S \in SUBSET Ln!SessionIds /\ q \in Ln!SessionIds \ S
      OBVIOUS
    <3>2. /\ Ln!Known' \subseteq Ln!Known \cup S
          /\ \A r \in Ln!Known : parent[r] \notin S
          /\ \A r \in Ln!Known' \ S : parent'[r] = parent[r]
      OBVIOUS
    <3>. HIDE DEF S
    <3>. QED BY <1>1, <3>1, <3>2, LineShrinks
  <2>. QED BY <2>2, <2>3
<1>3. DepthNow'
  <2>. SUFFICES ASSUME NEW r \in Ln!Known', NEW q, q = parent'[r], q # None
                PROVE  Ln!SpawnDepth(q)' <= MaxDepth
    BY DEF DepthNow
  <2>1. r \in Ln!Known /\ q = parent[r]
    OBVIOUS
  <2>2. q \in Ln!SessionIds
    BY <1>1, <2>1 DEF LineTypes, Ln!Known
  <2>3. Ln!SpawnDepth(q) <= MaxDepth
    BY <2>1 DEF LineageInv, DepthNow
  <2>. QED BY <1>2, <2>2, <2>3, DepthAssumption
<1>4. FanOutNow'
  BY <1>2, FanOutFrom DEF FanOutNow
<1>. QED BY <1>2, <1>3, <1>4

(* The child that is registered has found a place, and takes it. *)
LEMMA RegisteringKeeps ==
  ASSUME LineageInv, NEW s \in Ln!SessionIds, phase[s] = "checked", Ln!MayRegister(s),
         phase' = [phase EXCEPT ![s] = "draft"], rows' = rows \cup {s}, Ln!Overtaken(s, parent[s]),
         UNCHANGED <<parent, closed, threads, reopened>>
  PROVE  LineageInv'
<1>. DEFINE S == {s}
            p == parent[s]
<1>0. LineTypes /\ s # None
  BY NoneAssumption DEF LineageInv, Ln!SessionIds
<1>1. LineTypes /\ LineTypes'
  BY <1>0 DEF LineTypes, Was
<1>2. /\ Ln!Known' \subseteq Ln!Known \cup S
      /\ S \in SUBSET Ln!SessionIds
      /\ \A r \in Ln!Known : parent[r] \notin S
      /\ \A r \in Ln!Known' \ S : parent'[r] = parent[r]
  <2>1. \A r \in Ln!SessionIds : parent[r] # s
    BY <1>0 DEF LineageInv, Was
  <2>. QED BY <1>1, <2>1 DEF LineTypes, Ln!Known
<1>3. \A r \in (Ln!Known \ closed)' : parent'[r] = p \/ r \in (Ln!Known \ closed) \ S
  BY <1>1 DEF LineTypes, Ln!Known
<1>4. \A r \in Ln!SessionIds : parent[r] # s
  BY <1>0 DEF LineageInv, Was
<1>5. p = None \/ (p \in Ln!SessionIds \ S /\ Ln!MaySpawn(p))
  BY <1>1, <1>4 DEF LineTypes, Ln!MayRegister
<1>. HIDE DEF S
<1>6. ASSUME NEW q \in Ln!SessionIds \ S
      PROVE  /\ Ln!SpawnDepth(q)' <= Ln!SpawnDepth(q)
             /\ Ln!SpawnDepth(q) \in Nat /\ Ln!SpawnDepth(q)' \in Nat
  BY <1>1, <1>2, LineShrinks
<1>7. ASSUME NEW q \in Ln!SessionIds \ S, q # p
      PROVE  /\ Ln!LiveChildren(q)' \subseteq Ln!LiveChildren(q)
             /\ Ln!MaySpawn(q) => Ln!MaySpawn(q)'
  <2>. HIDE DEF p
  <2>. QED BY <1>1, <1>2, <1>3, <1>7, RoomIsKept
<1>8. DepthNow'
  <2>. SUFFICES ASSUME NEW r \in Ln!Known', NEW q, q = parent'[r], q # None
                PROVE  Ln!SpawnDepth(q)' <= MaxDepth
    BY DEF DepthNow
  <2>1. q = parent[r] /\ r \in Ln!SessionIds /\ q \in Ln!SessionIds \ S
    BY <1>1, <1>4 DEF Ln!Known, LineTypes, S
  <2>2. Ln!SpawnDepth(q) <= MaxDepth
    <3>1. CASE r \in Ln!Known
      BY <2>1, <3>1 DEF LineageInv, DepthNow
    <3>2. CASE r \notin Ln!Known
      <4>1. r = s
        BY <1>2, <3>2 DEF S
      <4>. QED BY <1>5, <2>1, <4>1 DEF Ln!MaySpawn
    <3>. QED BY <3>1, <3>2
  <2>. QED BY <1>6, <2>1, <2>2, DepthAssumption
<1>9. FanOutNow'
  <2>. SUFFICES ASSUME NEW q \in Ln!SessionIds
                PROVE  Ln!Cardinality(Ln!LiveChildren(q)' \ reopened') <= MaxLive
    BY DEF FanOutNow
  <2>1. CASE q = s
    <3>1. Ln!LiveChildren(q)' = {}
      BY <1>4, <2>1 DEF Ln!LiveChildren, Ln!Known
    <3>. QED BY <3>1, FanOutFrom
  <2>2. CASE q = p
    <3>1. /\ Ln!LiveChildren(q) \in SUBSET Ln!SessionIds
          /\ Ln!LiveChildren(q)' \ reopened' \subseteq Ln!LiveChildren(q) \cup {s}
          /\ Ln!LiveChildren(q) \cup {s} \in SUBSET Ln!SessionIds
      BY <1>1 DEF Ln!LiveChildren, Ln!Known, LineTypes
    <3>2. Ln!Cardinality(Ln!LiveChildren(q)) < MaxLive
      BY <1>5, <2>2, NoneAssumption DEF Ln!MaySpawn, Ln!SessionIds
    <3>3. /\ IsFiniteSet(Ln!LiveChildren(q))
          /\ Ln!Cardinality(Ln!LiveChildren(q)) = Cardinality(Ln!LiveChildren(q))
          /\ Cardinality(Ln!LiveChildren(q)) \in Nat
      BY <3>1, SessionsAreFinite
    <3>4. Cardinality(Ln!LiveChildren(q) \cup {s}) <= Cardinality(Ln!LiveChildren(q)) + 1
      <4>. DEFINE L == Ln!LiveChildren(q)
      <4>1. IsFiniteSet(L) /\ Cardinality(L) \in Nat
        BY <3>3
      <4>. HIDE DEF L
      <4>2. Cardinality(L \cup {s}) = IF s \in L THEN Cardinality(L) ELSE Cardinality(L) + 1
        BY <4>1, FS_AddElement
      <4>3. Cardinality(L \cup {s}) <= Cardinality(L) + 1
        BY <4>1, <4>2
      <4>. QED BY <4>3 DEF L
    <3>5. /\ Ln!Cardinality(Ln!LiveChildren(q)' \ reopened') <= Ln!Cardinality(Ln!LiveChildren(q) \cup {s})
          /\ Ln!Cardinality(Ln!LiveChildren(q) \cup {s}) = Cardinality(Ln!LiveChildren(q) \cup {s})
          /\ Ln!Cardinality(Ln!LiveChildren(q)' \ reopened') \in Nat
          /\ Ln!Cardinality(Ln!LiveChildren(q) \cup {s}) \in Nat
      BY <3>1, SessionsAreFinite
    <3>. QED BY <3>2, <3>3, <3>4, <3>5, LiveAssumption
  <2>3. CASE q # s /\ q # p
    BY <1>7, <2>3, FanOutFrom DEF S
  <2>. QED BY <2>1, <2>2, <2>3
<1>10. \A q \in Ln!SessionIds : \A r \in (Ln!Forks \ excused)' : parent'[r] = q => Ln!MaySpawn(q)'
  <2>. SUFFICES ASSUME NEW q \in Ln!SessionIds, NEW r \in (Ln!Forks \ excused)', parent[r] = q
                PROVE  Ln!MaySpawn(q)'
    OBVIOUS
  <2>1. r \in Ln!Forks /\ r # s
    BY <1>1 DEF Ln!Forks, LineTypes
  <2>2. r \notin excused /\ q # p
    BY <2>1 DEF Ln!Overtaken
  <2>3. Ln!MaySpawn(q) /\ q # s
    BY <1>4, <2>1, <2>2 DEF LineageInv, Ln!Forks
  <2>. QED BY <1>7, <2>2, <2>3 DEF S
<1>11. Ln!OrphansExplained'
  BY <1>1 DEF LineageInv, LineTypes, Ln!OrphansExplained, Ln!Overtaken
<1>12. /\ \A r \in Ln!SessionIds : parent'[r] # None => phase'[parent'[r]] \in Was
       /\ \A r \in Ln!SessionIds : phase'[r] \in Was => r \in rows'
       /\ \A r \in threads' : r \in Ln!SessionIds /\ phase'[r] \notin {"free", "forking"}
  BY <1>1, <1>4 DEF LineageInv, LineTypes, Was
<1>. QED BY <1>1, <1>8, <1>9, <1>10, <1>11, <1>12 DEF LineageInv

(* What of the invariant is not about depth, fan-out and room. *)
OtherLineage ==
  /\ \A r \in Ln!SessionIds : parent[r] # None => phase[parent[r]] \in Was
  /\ \A r \in Ln!SessionIds : phase[r] \in Was => r \in rows
  /\ \A r \in threads : r \in Ln!SessionIds /\ phase[r] \notin {"free", "forking"}
  /\ Ln!OrphansExplained

(* A step that makes no session live keeps the invariant if every fork of *)
(* after it was one before, or has just been checked.                    *)
LEMMA QuietLineage ==
  ASSUME LineageInv, LineTypes', reopened \subseteq reopened',
         Ln!Known' \subseteq Ln!Known, (Ln!Known \ closed)' \subseteq Ln!Known \ closed,
         \A r \in Ln!Known' : parent'[r] = parent[r],
         \A q \in Ln!SessionIds : \A r \in (Ln!Forks \ excused)' : parent'[r] = q =>
           (r \in Ln!Forks \ excused /\ parent[r] = q) \/ Ln!MaySpawn(q),
         OtherLineage'
  PROVE  LineageInv'
<1>1. /\ \A q \in Ln!SessionIds : Ln!MaySpawn(q) => Ln!MaySpawn(q)'
      /\ DepthNow' /\ FanOutNow'
  BY QuietSteps
<1>2. \A q \in Ln!SessionIds : \A r \in (Ln!Forks \ excused)' : parent'[r] = q => Ln!MaySpawn(q)'
  BY <1>1 DEF LineageInv
<1>. QED BY <1>1, <1>2 DEF LineageInv, OtherLineage

(* A session that is opened again is one more live child, but not a counted  *)
(* one, and the forks of its parent are marked.                             *)
LEMMA ReopeningKeeps ==
  ASSUME LineageInv, NEW s \in Ln!SessionIds, phase[s] \in {"draft", "started"},
         closed' = closed \ {s}, reopened' = reopened \cup {s}, Ln!Overtaken(s, parent[s]),
         UNCHANGED <<phase, parent, rows, threads>>
  PROVE  LineageInv'
<1>. DEFINE S == {}
            p == parent[s]
<1>1. LineTypes /\ LineTypes'
  BY DEF LineageInv, LineTypes
<1>2. /\ Ln!Known' \subseteq Ln!Known \cup S
      /\ S \in SUBSET Ln!SessionIds
      /\ \A r \in Ln!Known : parent[r] \notin S
      /\ \A r \in Ln!Known' \ S : parent'[r] = parent[r]
  BY DEF Ln!Known
<1>3. \A r \in (Ln!Known \ closed)' : parent'[r] = p \/ r \in (Ln!Known \ closed) \ S
  BY DEF Ln!Known
<1>4. ASSUME NEW q \in Ln!SessionIds
      PROVE  /\ Ln!SpawnDepth(q)' <= Ln!SpawnDepth(q)
             /\ Ln!SpawnDepth(q) \in Nat /\ Ln!SpawnDepth(q)' \in Nat
             /\ q # p => /\ Ln!LiveChildren(q)' \subseteq Ln!LiveChildren(q)
                         /\ Ln!MaySpawn(q) => Ln!MaySpawn(q)'
  <2>1. q \in Ln!SessionIds \ S
    OBVIOUS
  <2>. HIDE DEF S, p
  <2>2. /\ Ln!SpawnDepth(q)' <= Ln!SpawnDepth(q)
        /\ Ln!SpawnDepth(q) \in Nat /\ Ln!SpawnDepth(q)' \in Nat
    BY <1>1, <1>2, <2>1, LineShrinks
  <2>3. q # p => /\ Ln!LiveChildren(q)' \subseteq Ln!LiveChildren(q)
                 /\ Ln!MaySpawn(q) => Ln!MaySpawn(q)'
    BY <1>1, <1>2, <1>3, <2>1, RoomIsKept
  <2>. QED BY <2>2, <2>3
<1>5. DepthNow'
  <2>. SUFFICES ASSUME NEW r \in Ln!Known', NEW q, q = parent'[r], q # None
                PROVE  Ln!SpawnDepth(q)' <= MaxDepth
    BY DEF DepthNow
  <2>1. r \in Ln!Known /\ q = parent[r] /\ q \in Ln!SessionIds
    BY <1>1 DEF Ln!Known, LineTypes
  <2>2. Ln!SpawnDepth(q) <= MaxDepth
    BY <2>1 DEF LineageInv, DepthNow
  <2>. QED BY <1>4, <2>1, <2>2, DepthAssumption
<1>6. FanOutNow'
  <2>1. ASSUME NEW q \in Ln!SessionIds
        PROVE  Ln!LiveChildren(q)' \ reopened' \subseteq Ln!LiveChildren(q) \ reopened
    BY DEF Ln!LiveChildren, Ln!Known
  <2>. QED BY <2>1, FanOutFrom DEF FanOutNow
<1>7. \A q \in Ln!SessionIds : \A r \in (Ln!Forks \ excused)' : parent'[r] = q => Ln!MaySpawn(q)'
  <2>. SUFFICES ASSUME NEW q \in Ln!SessionIds, NEW r \in (Ln!Forks \ excused)', parent[r] = q
                PROVE  Ln!MaySpawn(q)'
    OBVIOUS
  <2>1. r \in Ln!Forks /\ r # s
    BY DEF Ln!Forks
  <2>2. r \notin excused /\ q # p
    BY <2>1 DEF Ln!Overtaken
  <2>3. Ln!MaySpawn(q)
    BY <2>1, <2>2 DEF LineageInv
  <2>. QED BY <1>4, <2>2, <2>3
<1>8. OtherLineage'
  BY DEF LineageInv, OtherLineage, Ln!OrphansExplained, Ln!Overtaken
<1>. QED BY <1>1, <1>5, <1>6, <1>7, <1>8 DEF LineageInv, OtherLineage

(* After a restart nobody has a parent, and no fork is in the making. *)
LEMMA RestartingKeeps ==
  ASSUME LineageInv, Ln!Restart
  PROVE  LineageInv'
<1>1. LineTypes /\ \A r \in Ln!SessionIds : r # None
  BY NoneAssumption DEF LineageInv, Ln!SessionIds
<1>2. /\ phase' = [s \in Ln!SessionIds |-> IF s \in rows THEN "started"
                                    ELSE IF phase[s] = "free" THEN "free" ELSE "refused"]
      /\ parent' = [s \in Ln!SessionIds |-> None]
      /\ excused' = excused \cup Ln!Forks
      /\ UNCHANGED <<closed, rows, threads, spawnedBy, reopened>>
  BY DEF Ln!Restart
<1>3. LineTypes' /\ Ln!Forks' = {}
  BY <1>1, <1>2 DEF LineTypes, Was, Ln!Forks
<1>4. DepthNow'
  BY <1>2 DEF DepthNow, Ln!Known
<1>5. FanOutNow'
  <2>1. ASSUME NEW q \in Ln!SessionIds PROVE Ln!LiveChildren(q)' = {}
    BY <1>1, <1>2 DEF Ln!LiveChildren, Ln!Known
  <2>. QED BY <2>1, FanOutFrom DEF FanOutNow
<1>6. ASSUME NEW s \in threads, phase'[s] = "refused" PROVE s \in excused'
  <2>1. s \in Ln!SessionIds /\ s \notin rows /\ phase[s] \notin {"free", "forking"}
    BY <1>2, <1>6 DEF LineageInv
  <2>2. phase[s] \in {"checked", "refused"}
    BY <1>1, <2>1 DEF LineageInv, LineTypes
  <2>3. phase[s] = "refused" => s \in excused
    BY <1>6 DEF LineageInv, Ln!OrphansExplained
  <2>. QED BY <1>2, <1>6, <2>1, <2>2, <2>3 DEF Ln!Forks
<1>7. Ln!OrphansExplained'
  BY <1>2, <1>6 DEF Ln!OrphansExplained
<1>8. /\ \A r \in Ln!SessionIds : parent'[r] = None
      /\ \A r \in Ln!SessionIds : phase'[r] \in Was => r \in rows'
      /\ \A r \in threads' : r \in Ln!SessionIds /\ phase'[r] \notin {"free", "forking"}
  BY <1>2 DEF LineageInv, Was
<1>. QED BY <1>3, <1>4, <1>5, <1>7, <1>8 DEF LineageInv

LEMMA LineageKept ==
  ASSUME LineageInv, [PartsNext]_allVars
  PROVE  LineageInv'
<1>0. LineTypes /\ \A r \in Ln!SessionIds : r # None
  BY NoneAssumption DEF LineageInv, Ln!SessionIds
<1>1. ASSUME NEW s \in Ln!SessionIds, NEW p \in Ln!SessionIds \cup {None}, Ln!Spawn(s, p) PROVE LineageInv'
  <2>1. /\ LineTypes' /\ reopened \subseteq reopened'
        /\ Ln!Known' \subseteq Ln!Known /\ (Ln!Known \ closed)' \subseteq Ln!Known \ closed
        /\ \A r \in Ln!Known' : parent'[r] = parent[r]
    BY <1>0, <1>1 DEF Ln!Spawn, LineTypes, Was, Ln!Known, Ln!NextId
  <2>2. \A q \in Ln!SessionIds : \A r \in (Ln!Forks \ excused)' : parent'[r] = q =>
          (r \in Ln!Forks \ excused /\ parent[r] = q) \/ Ln!MaySpawn(q)
    BY <1>0, <1>1 DEF Ln!Spawn, LineTypes, Ln!Forks, Ln!NextId
  <2>3. OtherLineage'
    BY <1>0, <1>1 DEF Ln!Spawn, Ln!Known, LineTypes, LineageInv, OtherLineage, Was, Ln!OrphansExplained, Ln!NextId
  <2>. QED BY <2>1, <2>2, <2>3, QuietLineage
<1>2. ASSUME NEW s \in Ln!SessionIds, NEW p \in Ln!SessionIds, Ln!Fork(s, p) PROVE LineageInv'
  <2>1. /\ LineTypes' /\ reopened \subseteq reopened'
        /\ Ln!Known' \subseteq Ln!Known /\ (Ln!Known \ closed)' \subseteq Ln!Known \ closed
        /\ \A r \in Ln!Known' : parent'[r] = parent[r]
    BY <1>0, <1>2 DEF Ln!Fork, LineTypes, Was, Ln!Known, Ln!NextId
  <2>2. \A q \in Ln!SessionIds : \A r \in (Ln!Forks \ excused)' : parent'[r] = q =>
          (r \in Ln!Forks \ excused /\ parent[r] = q) \/ Ln!MaySpawn(q)
    BY <1>0, <1>2 DEF Ln!Fork, LineTypes, Ln!Forks, Ln!NextId
  <2>3. OtherLineage'
    BY <1>0, <1>2 DEF Ln!Fork, Ln!Known, LineTypes, LineageInv, OtherLineage, Was, Ln!OrphansExplained, Ln!NextId
  <2>. QED BY <2>1, <2>2, <2>3, QuietLineage
<1>3. ASSUME NEW s \in Ln!SessionIds, Ln!Forked(s) PROVE LineageInv'
  <2>1. /\ LineTypes' /\ reopened \subseteq reopened'
        /\ Ln!Known' \subseteq Ln!Known /\ (Ln!Known \ closed)' \subseteq Ln!Known \ closed
        /\ \A r \in Ln!Known' : parent'[r] = parent[r]
    BY <1>0, <1>3 DEF Ln!Forked, LineTypes, Was, Ln!Known
  <2>2. \A q \in Ln!SessionIds : \A r \in (Ln!Forks \ excused)' : parent'[r] = q =>
          (r \in Ln!Forks \ excused /\ parent[r] = q) \/ Ln!MaySpawn(q)
    BY <1>0, <1>3 DEF Ln!Forked, LineTypes, Ln!Forks
  <2>3. OtherLineage'
    BY <1>0, <1>3 DEF Ln!Forked, LineTypes, LineageInv, OtherLineage, Was, Ln!OrphansExplained
  <2>. QED BY <2>1, <2>2, <2>3, QuietLineage
<1>4. ASSUME NEW s \in Ln!SessionIds, Ln!Register(s) PROVE LineageInv'
  <2>1. CASE Ln!MayRegister(s)
    BY <1>4, <2>1, RegisteringKeeps DEF Ln!Register
  <2>2. CASE ~Ln!MayRegister(s)
    <3>0. /\ phase[s] = "checked" /\ phase' = [phase EXCEPT ![s] = "refused"] /\ rows' = rows \cup {s}
          /\ UNCHANGED <<parent, closed, threads, reopened, excused>>
      BY <1>4, <2>2 DEF Ln!Register
    <3>1. /\ LineTypes' /\ reopened \subseteq reopened'
          /\ Ln!Known' \subseteq Ln!Known /\ (Ln!Known \ closed)' \subseteq Ln!Known \ closed
          /\ \A r \in Ln!Known' : parent'[r] = parent[r]
      BY <1>0, <3>0 DEF LineTypes, Was, Ln!Known
    <3>2. \A q \in Ln!SessionIds : \A r \in (Ln!Forks \ excused)' : parent'[r] = q =>
            (r \in Ln!Forks \ excused /\ parent[r] = q) \/ Ln!MaySpawn(q)
      BY <1>0, <3>0 DEF LineTypes, Ln!Forks
    <3>3. s \in threads => s \in excused
      BY <1>0, <2>2, <3>0 DEF LineageInv, LineTypes, Ln!Forks, Ln!MayRegister
    <3>4. OtherLineage'
      BY <1>0, <3>0, <3>3 DEF LineTypes, LineageInv, OtherLineage, Was, Ln!OrphansExplained
    <3>. QED BY <3>1, <3>2, <3>4, QuietLineage
  <2>. QED BY <2>1, <2>2
<1>5. ASSUME NEW s \in Ln!SessionIds, Ln!WorktreeUnknown(s) PROVE LineageInv'
  <2>1. /\ LineTypes' /\ reopened \subseteq reopened'
        /\ Ln!Known' \subseteq Ln!Known /\ (Ln!Known \ closed)' \subseteq Ln!Known \ closed
        /\ \A r \in Ln!Known' : parent'[r] = parent[r]
    BY <1>0, <1>5 DEF Ln!WorktreeUnknown, LineTypes, Was, Ln!Known
  <2>2. \A q \in Ln!SessionIds : \A r \in (Ln!Forks \ excused)' : parent'[r] = q =>
          (r \in Ln!Forks \ excused /\ parent[r] = q) \/ Ln!MaySpawn(q)
    BY <1>0, <1>5 DEF Ln!WorktreeUnknown, LineTypes, Ln!Forks
  <2>3. OtherLineage'
    BY <1>0, <1>5 DEF Ln!WorktreeUnknown, LineTypes, LineageInv, OtherLineage, Was, Ln!OrphansExplained, Ln!Forks
  <2>. QED BY <2>1, <2>2, <2>3, QuietLineage
<1>6. ASSUME NEW s \in Ln!SessionIds, Ln!Promote(s) PROVE LineageInv'
  <2>1. /\ LineTypes' /\ reopened \subseteq reopened'
        /\ Ln!Known' \subseteq Ln!Known /\ (Ln!Known \ closed)' \subseteq Ln!Known \ closed
        /\ \A r \in Ln!Known' : parent'[r] = parent[r]
    BY <1>0, <1>6 DEF Ln!Promote, LineTypes, Was, Ln!Known
  <2>2. \A q \in Ln!SessionIds : \A r \in (Ln!Forks \ excused)' : parent'[r] = q =>
          (r \in Ln!Forks \ excused /\ parent[r] = q) \/ Ln!MaySpawn(q)
    BY <1>0, <1>6 DEF Ln!Promote, LineTypes, Ln!Forks
  <2>3. OtherLineage'
    BY <1>0, <1>6 DEF Ln!Promote, LineTypes, LineageInv, OtherLineage, Was, Ln!OrphansExplained
  <2>. QED BY <2>1, <2>2, <2>3, QuietLineage
<1>7. ASSUME NEW s \in Ln!SessionIds, Ln!CloseSession(s) PROVE LineageInv'
  <2>1. /\ LineTypes' /\ reopened \subseteq reopened'
        /\ Ln!Known' \subseteq Ln!Known /\ (Ln!Known \ closed)' \subseteq Ln!Known \ closed
        /\ \A r \in Ln!Known' : parent'[r] = parent[r]
    BY <1>0, <1>7 DEF Ln!CloseSession, LineTypes, Was, Ln!Known
  <2>2. \A q \in Ln!SessionIds : \A r \in (Ln!Forks \ excused)' : parent'[r] = q =>
          (r \in Ln!Forks \ excused /\ parent[r] = q) \/ Ln!MaySpawn(q)
    BY <1>0, <1>7 DEF Ln!CloseSession, LineTypes, Ln!Forks
  <2>3. OtherLineage'
    BY <1>0, <1>7 DEF Ln!CloseSession, LineTypes, LineageInv, OtherLineage, Was, Ln!OrphansExplained
  <2>. QED BY <2>1, <2>2, <2>3, QuietLineage
<1>8. ASSUME NEW s \in Ln!SessionIds, Ln!KillSession(s) PROVE LineageInv'
  <2>1. /\ LineTypes' /\ reopened \subseteq reopened'
        /\ Ln!Known' \subseteq Ln!Known /\ (Ln!Known \ closed)' \subseteq Ln!Known \ closed
        /\ \A r \in Ln!Known' : parent'[r] = parent[r]
    BY <1>0, <1>8 DEF Ln!KillSession, LineTypes, Was, Ln!Known
  <2>2. \A q \in Ln!SessionIds : \A r \in (Ln!Forks \ excused)' : parent'[r] = q =>
          (r \in Ln!Forks \ excused /\ parent[r] = q) \/ Ln!MaySpawn(q)
    BY <1>0, <1>8 DEF Ln!KillSession, LineTypes, Ln!Forks
  <2>3. OtherLineage'
    BY <1>0, <1>8 DEF Ln!KillSession, LineTypes, LineageInv, OtherLineage, Was, Ln!OrphansExplained
  <2>. QED BY <2>1, <2>2, <2>3, QuietLineage
<1>9. ASSUME NEW s \in Ln!SessionIds, Ln!Killed(s) PROVE LineageInv'
  <2>1. /\ LineTypes' /\ reopened \subseteq reopened'
        /\ Ln!Known' \subseteq Ln!Known /\ (Ln!Known \ closed)' \subseteq Ln!Known \ closed
        /\ \A r \in Ln!Known' : parent'[r] = parent[r]
    BY <1>0, <1>9 DEF Ln!Killed, LineTypes, Was, Ln!Known
  <2>2. \A q \in Ln!SessionIds : \A r \in (Ln!Forks \ excused)' : parent'[r] = q =>
          (r \in Ln!Forks \ excused /\ parent[r] = q) \/ Ln!MaySpawn(q)
    BY <1>0, <1>9 DEF Ln!Killed, LineTypes, Ln!Forks
  <2>3. OtherLineage'
    BY <1>0, <1>9 DEF Ln!Killed, LineTypes, LineageInv, OtherLineage, Was, Ln!OrphansExplained
  <2>. QED BY <2>1, <2>2, <2>3, QuietLineage
<1>10. ASSUME NEW s \in Ln!SessionIds, Ln!ReopenSession(s) PROVE LineageInv'
  BY <1>10, ReopeningKeeps DEF Ln!ReopenSession
<1>11. CASE Ln!Restart
  BY <1>11, RestartingKeeps
<1>12. CASE UNCHANGED lnVars
  <2>1. /\ LineTypes' /\ reopened \subseteq reopened'
        /\ Ln!Known' \subseteq Ln!Known /\ (Ln!Known \ closed)' \subseteq Ln!Known \ closed
        /\ \A r \in Ln!Known' : parent'[r] = parent[r]
    BY <1>0, <1>12 DEF lnVars, LineTypes, Ln!Known
  <2>2. \A q \in Ln!SessionIds : \A r \in (Ln!Forks \ excused)' : parent'[r] = q =>
          (r \in Ln!Forks \ excused /\ parent[r] = q) \/ Ln!MaySpawn(q)
    BY <1>12 DEF lnVars, Ln!Forks
  <2>3. OtherLineage'
    BY <1>12 DEF lnVars, LineageInv, OtherLineage, Ln!OrphansExplained
  <2>. QED BY <2>1, <2>2, <2>3, QuietLineage
<1>. QED BY <1>1, <1>2, <1>3, <1>4, <1>5, <1>6, <1>7, <1>8, <1>9, <1>10, <1>11, <1>12
         DEF PartsNext, allVars, Ln!Next

(* Who runs since before the last restart, which took the parent q. *)
Old(q) == {r \in Ln!Known \ (closed \cup reopened \cup revived) : spawnedBy[r] = q /\ parent[r] = None}

(* What a restart forgets: a parent that is there is who spawned the         *)
(* session, a row is of a session that was registered or refused, and each   *)
(* restart left a session as many children as it may have at a time.        *)
HistoryInv ==
  /\ \A r \in Ln!SessionIds : parent[r] # None => spawnedBy[r] = parent[r]
  /\ \A r \in Ln!SessionIds : phase[r] \in {"forking", "checked"} => spawnedBy[r] = parent[r]
  /\ DOMAIN spawnedBy = Ln!SessionIds
  /\ \A r \in rows : r \in Ln!SessionIds /\ phase[r] \in Was \cup {"refused"}
  /\ restarts \in Nat
  /\ \A q \in Ln!SessionIds : Ln!Cardinality(Old(q)) <= MaxLive * restarts

(* The children of now and those of before are all that a session spawned. *)
LEMMA ChildrenOfAllRuns ==
  ASSUME LineageInv, HistoryInv, NEW q \in Ln!SessionIds
  PROVE  /\ Ln!Cardinality(Ln!Spawned(q) \ (reopened \cup Ln!Forgotten)) <= MaxLive
         /\ Ln!Cardinality(Ln!Spawned(q) \ (reopened \cup revived)) <= MaxLive * (restarts + 1)
<1>. DEFINE A == Ln!LiveChildren(q) \ reopened
            O == Old(q)
            all == Ln!Spawned(q) \ (reopened \cup revived)
            now == Ln!Spawned(q) \ (reopened \cup Ln!Forgotten)
<1>1. A \in SUBSET Ln!SessionIds /\ O \in SUBSET Ln!SessionIds /\ A \cup O \in SUBSET Ln!SessionIds
  BY DEF Ln!LiveChildren, Ln!Known, Old
<1>2. q # None
  BY NoneAssumption DEF Ln!SessionIds
<1>3. all \subseteq A \cup O /\ now \subseteq A
  BY <1>2 DEF HistoryInv, Ln!Spawned, Ln!Forgotten, Ln!LiveChildren, Ln!Known, Old
<1>4. Ln!Cardinality(A) <= MaxLive /\ Ln!Cardinality(O) <= MaxLive * restarts
  BY DEF LineageInv, FanOutNow, HistoryInv
<1>. HIDE DEF A, O, all, now
<1>5. /\ Ln!Cardinality(all) <= Ln!Cardinality(A \cup O) /\ Ln!Cardinality(now) <= Ln!Cardinality(A)
      /\ Ln!Cardinality(all) \in Nat /\ Ln!Cardinality(now) \in Nat
      /\ Ln!Cardinality(A) \in Nat /\ Ln!Cardinality(O) \in Nat /\ Ln!Cardinality(A \cup O) \in Nat
      /\ Ln!Cardinality(A) = Cardinality(A) /\ Ln!Cardinality(O) = Cardinality(O)
      /\ Ln!Cardinality(A \cup O) = Cardinality(A \cup O)
      /\ IsFiniteSet(A) /\ IsFiniteSet(O) /\ IsFiniteSet(A \cap O)
  BY <1>1, <1>3, SessionsAreFinite
<1>6. Cardinality(A \cup O) <= Cardinality(A) + Cardinality(O)
  <2>1. Cardinality(A \cup O) = Cardinality(A) + Cardinality(O) - Cardinality(A \cap O)
    BY <1>5, FS_Union
  <2>2. Cardinality(A \cap O) \in Nat
    BY <1>5, FS_CardinalityType
  <2>. QED BY <1>5, <2>1, <2>2
<1>7. MaxLive * (restarts + 1) = MaxLive * restarts + MaxLive /\ MaxLive * restarts \in Nat
  BY LiveAssumption DEF HistoryInv
<1>. QED BY <1>4, <1>5, <1>6, <1>7, LiveAssumption DEF all, now

(* Whoever was there before the last restart only gets fewer until the next. *)
LEMMA OldGo ==
  ASSUME HistoryInv, UNCHANGED restarts, NEW q \in Ln!SessionIds, Old(q)' \subseteq Old(q)
  PROVE  Ln!Cardinality(Old(q)') <= MaxLive * restarts'
<1>1. Old(q) \in SUBSET Ln!SessionIds
  BY DEF Old, Ln!Known
<1>2. Ln!Cardinality(Old(q)') <= Ln!Cardinality(Old(q)) /\ Ln!Cardinality(Old(q)) \in Nat /\ Ln!Cardinality(Old(q)') \in Nat
  BY <1>1, SessionsAreFinite
<1>3. Ln!Cardinality(Old(q)) <= MaxLive * restarts /\ MaxLive * restarts \in Nat
  BY LiveAssumption DEF HistoryInv
<1>. QED BY <1>2, <1>3

(* A restart makes those old that a session has then, of this run and others. *)
LEMMA RestartingCounts ==
  ASSUME LineageInv, HistoryInv, Ln!Restart
  PROVE  HistoryInv'
<1>1. LineTypes /\ LiveAssumption
  BY LiveAssumption DEF LineageInv
<1>2. /\ phase' = [s \in Ln!SessionIds |-> IF s \in rows THEN "started"
                                    ELSE IF phase[s] = "free" THEN "free" ELSE "refused"]
      /\ parent' = [s \in Ln!SessionIds |-> None]
      /\ revived' = revived \cup {s \in rows : phase[s] \in {"killed", "refused"}}
      /\ restarts' = restarts + 1
      /\ UNCHANGED <<closed, rows, threads, spawnedBy, reopened>>
  BY DEF Ln!Restart
<1>3. ASSUME NEW q \in Ln!SessionIds PROVE Ln!Cardinality(Old(q)') <= MaxLive * restarts'
  <2>. DEFINE all == Ln!Spawned(q) \ (reopened \cup revived)
  <2>1. Old(q)' \subseteq all
    BY <1>2 DEF HistoryInv, Old, Ln!Known, Ln!Spawned, Was
  <2>2. all \in SUBSET Ln!SessionIds
    BY DEF Ln!Spawned, Ln!Known
  <2>3. Ln!Cardinality(all) <= MaxLive * (restarts + 1)
    BY ChildrenOfAllRuns
  <2>. HIDE DEF all
  <2>4. Ln!Cardinality(Old(q)') <= Ln!Cardinality(all) /\ Ln!Cardinality(all) \in Nat /\ Ln!Cardinality(Old(q)') \in Nat
    BY <2>1, <2>2, SessionsAreFinite
  <2>5. MaxLive * (restarts + 1) \in Nat
    BY LiveAssumption DEF HistoryInv
  <2>. QED BY <1>2, <2>3, <2>4, <2>5
<1>. QED BY <1>2, <1>3 DEF HistoryInv, Was

LEMMA HistoryKept ==
  ASSUME LineageInv, HistoryInv, [PartsNext]_allVars
  PROVE  HistoryInv'
<1>0. LineTypes /\ \A r \in Ln!SessionIds : r # None
  BY NoneAssumption DEF LineageInv, Ln!SessionIds
<1>1. SUFFICES ASSUME ~Ln!Restart PROVE HistoryInv'
  BY RestartingCounts
<1>2. UNCHANGED lnVars \/ Ln!Next
  BY DEF PartsNext, allVars
<1>3. restarts' = restarts
  BY <1>1, <1>2 DEF lnVars, Ln!Next, Ln!Spawn, Ln!Fork, Ln!Forked, Ln!Register, Ln!WorktreeUnknown, Ln!Promote,
     Ln!CloseSession, Ln!ReopenSession, Ln!KillSession, Ln!Killed
<1>4. ASSUME \A q \in Ln!SessionIds : Old(q)' \subseteq Old(q),
             \A r \in Ln!SessionIds : parent'[r] # None => spawnedBy'[r] = parent'[r],
             \A r \in Ln!SessionIds : phase'[r] \in {"forking", "checked"} => spawnedBy'[r] = parent'[r],
             DOMAIN spawnedBy' = Ln!SessionIds,
             \A r \in rows' : r \in Ln!SessionIds /\ phase'[r] \in Was \cup {"refused"}
      PROVE  HistoryInv'
  <2>1. \A q \in Ln!SessionIds : Ln!Cardinality(Old(q)') <= MaxLive * restarts'
    BY <1>3, <1>4, OldGo
  <2>2. restarts' \in Nat
    BY <1>3 DEF HistoryInv
  <2>. QED BY <1>4, <2>1, <2>2 DEF HistoryInv
<1>5. CASE UNCHANGED lnVars
  <2>1. \A q \in Ln!SessionIds : Old(q)' \subseteq Old(q)
    BY <1>5 DEF lnVars, Old, Ln!Known
  <2>. QED BY <1>4, <1>5, <2>1 DEF lnVars, HistoryInv
<1>6. ASSUME NEW s \in Ln!SessionIds, NEW p \in Ln!SessionIds \cup {None}, Ln!Spawn(s, p) \/ Ln!Fork(s, p)
      PROVE  HistoryInv'
  <2>1. /\ phase[s] = "free" /\ parent' = [parent EXCEPT ![s] = p] /\ spawnedBy' = [spawnedBy EXCEPT ![s] = p]
        /\ phase' = [phase EXCEPT ![s] = "checked"] \/ phase' = [phase EXCEPT ![s] = "forking"]
        /\ UNCHANGED <<closed, rows, reopened, revived>>
    BY <1>6 DEF Ln!Spawn, Ln!Fork, Ln!NextId
  <2>2. \A q \in Ln!SessionIds : Old(q)' \subseteq Old(q)
    BY <1>0, <2>1 DEF LineTypes, HistoryInv, Old, Ln!Known
  <2>. QED BY <1>0, <1>4, <2>1, <2>2 DEF LineTypes, HistoryInv, Was
<1>7. ASSUME NEW s \in Ln!SessionIds,
             \/ Ln!Forked(s) \/ Ln!WorktreeUnknown(s) \/ Ln!Promote(s) \/ Ln!CloseSession(s)
             \/ Ln!KillSession(s) \/ Ln!Killed(s)
      PROVE  HistoryInv'
  <2>1. /\ UNCHANGED <<parent, rows, spawnedBy, reopened, revived>> /\ closed \subseteq closed'
        /\ \/ phase' = phase
           \/ /\ phase[s] \in {"forking", "checked"}
              /\ phase' = [phase EXCEPT ![s] = "checked"] \/ phase' = [phase EXCEPT ![s] = "refused"]
           \/ phase[s] = "draft" /\ phase' = [phase EXCEPT ![s] = "started"]
           \/ phase[s] \in {"draft", "started"} /\ phase' = [phase EXCEPT ![s] = "killing"]
           \/ phase[s] = "killing" /\ phase' = [phase EXCEPT ![s] = "killed"]
    BY <1>7 DEF Ln!Forked, Ln!WorktreeUnknown, Ln!Promote, Ln!CloseSession, Ln!KillSession, Ln!Killed
  <2>2. /\ \A r \in Ln!SessionIds : phase'[r] \in {"forking", "checked"} => phase[r] \in {"forking", "checked"}
        /\ \A r \in Ln!SessionIds : phase[r] \in Was \cup {"refused"} => phase'[r] \in Was \cup {"refused"}
        /\ Ln!Known' \subseteq Ln!Known
    BY <1>0, <2>1 DEF LineTypes, Was, Ln!Known
  <2>3. \A q \in Ln!SessionIds : Old(q)' \subseteq Old(q)
    BY <2>1, <2>2 DEF Old
  <2>. QED BY <1>4, <2>1, <2>2, <2>3 DEF HistoryInv
<1>8. ASSUME NEW s \in Ln!SessionIds, Ln!Register(s) PROVE HistoryInv'
  <2>1. /\ phase[s] = "checked" /\ rows' = rows \cup {s}
        /\ phase' = [phase EXCEPT ![s] = "draft"] \/ phase' = [phase EXCEPT ![s] = "refused"]
        /\ UNCHANGED <<parent, closed, spawnedBy, reopened, revived>>
    BY <1>8 DEF Ln!Register
  <2>2. spawnedBy[s] = parent[s]
    BY <2>1 DEF HistoryInv
  <2>3. \A q \in Ln!SessionIds : Old(q)' \subseteq Old(q)
    BY <1>0, <2>1, <2>2 DEF LineTypes, Old, Ln!Known
  <2>. QED BY <1>0, <1>4, <2>1, <2>3 DEF LineTypes, HistoryInv, Was
<1>9. ASSUME NEW s \in Ln!SessionIds, Ln!ReopenSession(s) PROVE HistoryInv'
  <2>1. /\ closed' = closed \ {s} /\ reopened' = reopened \cup {s}
        /\ UNCHANGED <<phase, parent, rows, spawnedBy, revived>>
    BY <1>9 DEF Ln!ReopenSession
  <2>2. \A q \in Ln!SessionIds : Old(q)' \subseteq Old(q)
    BY <2>1 DEF Old, Ln!Known
  <2>. QED BY <1>4, <2>1, <2>2 DEF HistoryInv
<1>. QED BY <1>1, <1>2, <1>5, <1>6, <1>7, <1>8, <1>9 DEF Ln!Next

(* However many spawns, forks, closes, reopens and kills are in flight at     *)
(* once, no session is deeper or has more live children than the bounds       *)
(* allow, of those spawned since the last restart, which forgets who spawned   *)
(* whom; over n restarts it has no more than n + 1 times as many, but for      *)
(* those the property names (lineage.ts, manager.ts:rehydrate).              *)
THEOREM SpawnsAlwaysStayBounded == PartsSpec => []SpawnsStayBounded
<1>1. PartsInit => LineageInv /\ HistoryInv
  <2>. SUFFICES ASSUME PartsInit PROVE LineageInv /\ HistoryInv
    OBVIOUS
  <2>1. Ln!Init /\ \A r \in Ln!SessionIds : r # None
    BY NoneAssumption DEF PartsInit, Ln!SessionIds
  <2>0. Ln!Cardinality({}) = 0
    <3>1. {} \in SUBSET Ln!SessionIds
      OBVIOUS
    <3>. QED BY <3>1, SessionsAreFinite, FS_EmptySet
  <2>2. LineTypes /\ Ln!Known = {} /\ Ln!Forks = {}
    BY <2>1 DEF Ln!Init, LineTypes, Ln!Known, Ln!Forks
  <2>3. OtherLineage
    BY <2>1 DEF Ln!Init, OtherLineage, Was, Ln!OrphansExplained
  <2>4. DepthNow
    BY <2>2 DEF DepthNow
  <2>5. FanOutNow
    <3>1. \A q \in Ln!SessionIds : Ln!LiveChildren(q) \ reopened = {}
      BY <2>2 DEF Ln!LiveChildren
    <3>. QED BY <2>0, <3>1, LiveAssumption DEF FanOutNow
  <2>6. HistoryInv
    <3>1. \A q \in Ln!SessionIds : Old(q) = {}
      BY <2>2 DEF Old
    <3>2. MaxLive * 0 = 0
      BY LiveAssumption
    <3>. QED BY <2>0, <2>1, <3>1, <3>2 DEF Ln!Init, HistoryInv
  <2>. QED BY <2>2, <2>3, <2>4, <2>5, <2>6 DEF LineageInv, OtherLineage
<1>2. LineageInv /\ HistoryInv => SpawnsStayBounded
  <2>. SUFFICES ASSUME LineageInv, HistoryInv PROVE SpawnsStayBounded
    OBVIOUS
  <2>1. Ln!DepthBounded
    BY DEF LineageInv, DepthNow, Ln!DepthBounded, Ln!Forgotten, Ln!Known
  <2>2. Ln!FanOutBounded
    BY ChildrenOfAllRuns DEF Ln!FanOutBounded
  <2>. QED BY <2>1, <2>2 DEF LineageInv, SpawnsStayBounded, Ln!SpawnsStayBounded
<1>3. LineageInv /\ HistoryInv /\ [PartsNext]_allVars => (LineageInv /\ HistoryInv)'
  BY LineageKept, HistoryKept
<1>. QED BY <1>1, <1>2, <1>3, PTL DEF PartsSpec, allVars

-----------------------------------------------------------------------------
(* Induction over the numbers *)

(* A set of numbers has a least one. *)
LEMMA NatMin ==
  ASSUME NEW T, T \subseteq Nat, T # {}
  PROVE  \E x \in T : \A y \in T : ~(y < x)
<1>. DEFINE R == OpToRel(<, Nat)
<1>1. IsWellFoundedOn(R, Nat)
  BY NatLessThanWellFounded
<1>2. \A x, y \in Nat : x < y => <<x, y>> \in R
  BY DEF OpToRel
<1>. HIDE DEF R
<1>3. \E x \in T : \A y \in T : ~(<<y, x>> \in R)
  BY <1>1, WFMin
<1>. QED BY <1>2, <1>3

(* Induction, for a set instead of a predicate. *)
LEMMA NatInd ==
  ASSUME NEW S, 0 \in S, \A n \in Nat : n \in S => n + 1 \in S
  PROVE  Nat \subseteq S
<1>1. SUFFICES ASSUME Nat \ S # {} PROVE FALSE
  OBVIOUS
<1>2. PICK n \in Nat \ S : \A y \in Nat \ S : ~(y < n)
  BY <1>1, NatMin
<1>3. n # 0 /\ n - 1 \in Nat
  BY <1>2
<1>4. n - 1 \notin S
  BY <1>3
<1>. QED BY <1>2, <1>3, <1>4

(* The values f that start at a and are computed one from the other by G.  *)
Computes(G, V, a, N) == a \in V /\ N \in Nat /\ G \in [V \X (1 .. N) -> V]
IsRun(f, G, V, a, N) ==
  f \in [0 .. N -> V] /\ f[0] = a /\ \A n \in 1 .. N : f[n] = G[<<f[n - 1], n>>]

(* They exist. *)
LEMMA RunExists ==
  ASSUME NEW V, NEW a, NEW N, NEW G, Computes(G, V, a, N)
  PROVE  \E f : IsRun(f, G, V, a, N)
<1>0. a \in V /\ N \in Nat /\ G \in [V \X (1 .. N) -> V]
  BY DEF Computes
<1>. DEFINE Good(f, m) == /\ f \in [0 .. m -> V] /\ f[0] = a
                          /\ \A n \in 1 .. m : f[n] = G[<<f[n - 1], n>>]
            S == {m \in Nat : m <= N => \E f : Good(f, m)}
<1>1. 0 \in S
  <2>. DEFINE h == [n \in 0 .. 0 |-> a]
  <2>1. h \in [0 .. 0 -> V] /\ h[0] = a
    BY <1>0
  <2>. HIDE DEF h
  <2>2. Good(h, 0)
    BY <2>1
  <2>. QED BY <2>2
<1>2. ASSUME NEW m \in Nat, m \in S PROVE m + 1 \in S
  <2>. SUFFICES ASSUME m + 1 <= N PROVE \E f : Good(f, m + 1)
    OBVIOUS
  <2>1. PICK f : Good(f, m)
    BY <1>0, <1>2
  <2>. DEFINE g == [n \in 0 .. m + 1 |-> IF n = m + 1 THEN G[<<f[m], m + 1>>] ELSE f[n]]
  <2>2. f[m] \in V /\ <<f[m], m + 1>> \in V \X (1 .. N)
    BY <1>0, <2>1
  <2>3. G[<<f[m], m + 1>>] \in V
    BY <1>0, <2>2
  <2>4. g \in [0 .. m + 1 -> V] /\ g[0] = a
    BY <2>1, <2>3
  <2>5. \A n \in 0 .. m : g[n] = f[n]
    OBVIOUS
  <2>6. g[m + 1] = G[<<f[m], m + 1>>]
    OBVIOUS
  <2>. HIDE DEF g
  <2>7. ASSUME NEW n \in 1 .. m + 1 PROVE g[n] = G[<<g[n - 1], n>>]
    <3>1. CASE n = m + 1
      <4>1. g[n - 1] = f[m]
        BY <2>5, <3>1
      <4>. QED BY <2>6, <3>1, <4>1
    <3>2. CASE n # m + 1
      <4>1. n \in 1 .. m /\ n - 1 \in 0 .. m
        BY <3>2
      <4>2. f[n] = G[<<f[n - 1], n>>]
        BY <2>1, <4>1
      <4>. QED BY <2>5, <4>1, <4>2
    <3>. QED BY <3>1, <3>2
  <2>. QED BY <2>4, <2>7
<1>. HIDE DEF S
<1>3. N \in S
  BY <1>0, <1>1, <1>2, NatInd
<1>. QED BY <1>0, <1>3 DEF S, IsRun

-----------------------------------------------------------------------------
(* The lines of an agent's output *)

(* Frames that have their newline. *)
Ended(w, u) == IF u THEN Len(w) - 1 ELSE Len(w)

(* The reader's way over the pipe p, when the frames written are w: before   *)
(* each byte, and behind the last, it is in frame f and has read g bytes of  *)
(* it. A newline ends the frame, all of which was read; another byte is of   *)
(* the frame.                                                               *)
Way(p, w, u, f, g) ==
  /\ f \in [1 .. Len(p) + 1 -> 1 .. Ended(w, u) + 1] /\ g \in [1 .. Len(p) + 1 -> Nat]
  /\ f[Len(p) + 1] = Ended(w, u) + 1
  /\ g[Len(p) + 1] = IF u THEN w[Len(w)] ELSE 0
  /\ \A i, j \in 1 .. Len(p) + 1 : i <= j => f[i] <= f[j]
  /\ \A i \in 1 .. Len(p) + 1 : f[i] \in DOMAIN w => g[i] <= w[f[i]]
  /\ \A i \in 1 .. Len(p) :
       \/ p[i] = 0 /\ f[i + 1] = f[i] + 1 /\ g[i] = w[f[i]] /\ g[i + 1] = 0
       \/ p[i] = f[i] /\ f[i] \in DOMAIN w /\ f[i + 1] = f[i] /\ g[i + 1] = g[i] + 1

Fits(w, m) == {k \in 1 .. m : w[k] <= MaxFrameBytes}

(* The lines are the first m frames, but for those over the cap. *)
Given(ls, w, m) ==
  /\ Len(ls) = Cardinality(Fits(w, m))
  /\ \A k \in Fits(w, m) : ls[Cardinality({j \in Fits(w, m) : j <= k})] = [i \in 1 .. w[k] |-> k]

ReaderType == [buf : Seq(Nat), dropping : BOOLEAN, lines : Seq(Seq(Nat))]

(* The reader has read c - 1 frames and o bytes of frame c. *)
HasRead(r, w, c, o) ==
  /\ r \in ReaderType
  /\ ~r.dropping => r.buf = [i \in 1 .. o |-> c]
  /\ r.dropping => c \in DOMAIN w /\ w[c] > MaxFrameBytes
  /\ Given(r.lines, w, c - 1)

(* Beside types: the lines are the frames up to where the reader is on its  *)
(* way, and after the end of the stream they are all the frames.            *)
TransportInv ==
  /\ written \in Seq(Nat \ {0}) /\ unfinished \in BOOLEAN /\ (unfinished => written # <<>>)
  /\ pipe \in Seq(Nat)
  /\ streamEnded \in BOOLEAN
  /\ streamEnded => child # "running" /\ pipe = <<>> /\ Given(lines, written, Len(written))
  /\ buf \in Seq(Nat) /\ Len(buf) <= MaxFrameBytes
  /\ dropUntilNewline \in BOOLEAN /\ lines \in Seq(Seq(Nat))
  /\ ~streamEnded =>
       \E f, g : /\ Way(pipe, written, unfinished, f, g)
                 /\ HasRead([buf |-> buf, dropping |-> dropUntilNewline, lines |-> lines], written, f[1], g[1])

(* Which frames fit is a finite set. *)
LEMMA FitsFinite ==
  ASSUME NEW w, NEW m \in Nat
  PROVE  /\ IsFiniteSet(Fits(w, m)) /\ Cardinality(Fits(w, m)) \in Nat
         /\ \A k \in Nat : /\ IsFiniteSet({j \in Fits(w, m) : j <= k})
                           /\ Cardinality({j \in Fits(w, m) : j <= k}) \in Nat
                           /\ Cardinality({j \in Fits(w, m) : j <= k}) <= Cardinality(Fits(w, m))
<1>1. IsFiniteSet(1 .. m)
  BY FS_Interval
<1>2. Fits(w, m) \subseteq 1 .. m
  BY DEF Fits
<1>3. IsFiniteSet(Fits(w, m)) /\ Cardinality(Fits(w, m)) \in Nat
  BY <1>1, <1>2, FS_Subset, FS_CardinalityType
<1>4. ASSUME NEW k \in Nat
      PROVE  /\ IsFiniteSet({j \in Fits(w, m) : j <= k})
             /\ Cardinality({j \in Fits(w, m) : j <= k}) \in Nat
             /\ Cardinality({j \in Fits(w, m) : j <= k}) <= Cardinality(Fits(w, m))
  <2>1. {j \in Fits(w, m) : j <= k} \subseteq Fits(w, m)
    OBVIOUS
  <2>. QED BY <1>3, <2>1, FS_Subset, FS_CardinalityType
<1>. QED BY <1>3, <1>4

(* What was given depends on the first m frames. *)
LEMMA GivenOfFirst ==
  ASSUME NEW w, NEW v, NEW m \in Nat, NEW ls, Given(ls, w, m), \A k \in 1 .. m : w[k] = v[k]
  PROVE  Given(ls, v, m)
<1>1. Fits(v, m) = Fits(w, m)
  BY DEF Fits
<1>2. \A k \in Fits(v, m) : [i \in 1 .. w[k] |-> k] = [i \in 1 .. v[k] |-> k]
  BY DEF Fits
<1>. QED BY <1>1, <1>2 DEF Given

(* One frame more is one line more, unless it is over the cap. *)
LEMMA GivenOneMore ==
  ASSUME NEW w, NEW m \in Nat, NEW ls \in Seq(Seq(Nat)), Given(ls, w, m), w[m + 1] \in Nat
  PROVE  /\ w[m + 1] <= MaxFrameBytes => Given(Append(ls, [i \in 1 .. w[m + 1] |-> m + 1]), w, m + 1)
         /\ w[m + 1] > MaxFrameBytes => Given(ls, w, m + 1)
<1>. USE CapAssumption
<1>1. CASE w[m + 1] <= MaxFrameBytes
  <2>. DEFINE A == Fits(w, m)
              B == Fits(w, m + 1)
              l == [i \in 1 .. w[m + 1] |-> m + 1]
  <2>1. B = A \cup {m + 1} /\ m + 1 \notin A /\ A \subseteq 1 .. m
    BY <1>1 DEF Fits
  <2>2. IsFiniteSet(A) /\ Cardinality(A) \in Nat
    BY FitsFinite
  <2>. HIDE DEF A, B
  <2>3. Cardinality(B) = Cardinality(A) + 1
    BY <2>1, <2>2, FS_AddElement
  <2>4. Len(ls) = Cardinality(A) /\ \A k \in A : ls[Cardinality({j \in A : j <= k})] = [i \in 1 .. w[k] |-> k]
    BY DEF Given, A
  <2>. HIDE DEF l
  <2>5. Len(Append(ls, l)) = Cardinality(B) /\ Append(ls, l)[Cardinality(B)] = l
        /\ \A n \in 1 .. Len(ls) : Append(ls, l)[n] = ls[n]
    BY <2>2, <2>3, <2>4
  <2>6. ASSUME NEW k \in B PROVE Append(ls, l)[Cardinality({j \in B : j <= k})] = [i \in 1 .. w[k] |-> k]
    <3>1. CASE k = m + 1
      <4>0. \A j \in B : j <= k
        BY <2>1, <3>1
      <4>1. {j \in B : j <= k} = B
        BY <4>0
      <4>. QED BY <2>5, <3>1, <4>1 DEF l
    <3>2. CASE k # m + 1
      <4>1. k \in A /\ k \in 1 .. m /\ k \in Nat
        BY <2>1, <3>2
      <4>2. {j \in B : j <= k} = {j \in A : j <= k}
        BY <2>1, <4>1
      <4>. DEFINE C == {j \in A : j <= k}
      <4>3. k \in C /\ C \subseteq A
        BY <4>1
      <4>4. IsFiniteSet(C) /\ Cardinality(C) \in Nat /\ Cardinality(C) <= Cardinality(A)
        BY <4>1, FitsFinite DEF A
      <4>. HIDE DEF C
      <4>5. Cardinality(C) # 0
        BY <4>3, <4>4, FS_EmptySet
      <4>6. Cardinality(C) \in 1 .. Len(ls)
        BY <2>4, <4>4, <4>5
      <4>7. ls[Cardinality(C)] = [i \in 1 .. w[k] |-> k]
        BY <2>4, <4>1 DEF C
      <4>. QED BY <2>5, <4>2, <4>6, <4>7 DEF C
    <3>. QED BY <3>1, <3>2
  <2>7. Given(Append(ls, l), w, m + 1)
    BY <2>5, <2>6 DEF Given, B
  <2>. QED BY <1>1, <2>7 DEF l
<1>2. CASE w[m + 1] > MaxFrameBytes
  <2>1. Fits(w, m + 1) = Fits(w, m)
    BY <1>2 DEF Fits
  <2>2. Given(ls, w, m + 1)
    BY <2>1 DEF Given
  <2>. QED BY <1>2, <2>2
<1>. QED BY <1>1, <1>2

(* A byte takes the reader one place further on its way. *)
LEMMA TakeGoesOn ==
  ASSUME NEW p \in Seq(Nat), NEW w \in Seq(Nat \ {0}), NEW u \in BOOLEAN, u => w # <<>>,
         NEW f, NEW g, Way(p, w, u, f, g),
         NEW i \in 1 .. Len(p), NEW r, HasRead(r, w, f[i], g[i])
  PROVE  HasRead(Ct!Take(r, p[i]), w, f[i + 1], g[i + 1])
<1>. USE CapAssumption
<1>1. Len(p) \in Nat /\ Len(w) \in Nat /\ DOMAIN w = 1 .. Len(w) /\ \A k \in DOMAIN w : w[k] \in Nat /\ w[k] # 0
  OBVIOUS
<1>2. Ended(w, u) \in Nat /\ Ended(w, u) <= Len(w)
  BY <1>1 DEF Ended
<1>3. i \in 1 .. Len(p) + 1 /\ i + 1 \in 1 .. Len(p) + 1
  BY <1>1
<1>4. /\ f[i] \in 1 .. Ended(w, u) + 1 /\ f[i + 1] \in 1 .. Ended(w, u) + 1
      /\ g[i] \in Nat
  BY <1>3 DEF Way
<1>5. /\ r \in ReaderType /\ r.buf \in Seq(Nat) /\ r.dropping \in BOOLEAN /\ r.lines \in Seq(Seq(Nat))
      /\ ~r.dropping => r.buf = [n \in 1 .. g[i] |-> f[i]]
      /\ r.dropping => f[i] \in DOMAIN w /\ w[f[i]] > MaxFrameBytes
      /\ Given(r.lines, w, f[i] - 1)
  BY DEF HasRead, ReaderType
<1>6. CASE p[i] = 0 /\ f[i + 1] = f[i] + 1 /\ g[i] = w[f[i]] /\ g[i + 1] = 0
  <2>. DEFINE q == Ct!Take(r, p[i])
              ls == IF r.dropping \/ Ct!TooLong(r.buf) THEN r.lines ELSE Append(r.lines, r.buf)
  <2>1. q = [buf |-> <<>>, dropping |-> FALSE, lines |-> ls]
    BY <1>6 DEF Ct!Take, Ct!Newline
  <2>2. q.buf = <<>> /\ q.dropping = FALSE /\ q.lines = ls
    BY <2>1
  <2>3. ls \in Seq(Seq(Nat))
    BY <1>5
  <2>4. q \in ReaderType
    <3>1. <<>> \in Seq(Nat)
      OBVIOUS
    <3>. QED BY <2>1, <2>3, <3>1 DEF ReaderType
  <2>. HIDE DEF q
  <2>5. q.buf = [n \in 1 .. 0 |-> f[i + 1]]
    BY <2>2
  <2>. DEFINE m == f[i] - 1
  <2>6. m \in Nat /\ m + 1 = f[i] /\ f[i + 1] - 1 = m + 1 /\ f[i] \in DOMAIN w
    <3>1. f[i] \in 1 .. Ended(w, u)
      BY <1>2, <1>4, <1>6
    <3>2. f[i] \in 1 .. Len(w)
      BY <1>1, <1>2, <3>1
    <3>3. f[i] \in DOMAIN w
      BY <1>1, <3>2
    <3>4. f[i + 1] = f[i] + 1 /\ f[i] \in Nat /\ f[i] >= 1
      BY <1>6, <3>2
    <3>5. f[i] - 1 \in Nat /\ (f[i] - 1) + 1 = f[i]
      BY <3>4
    <3>6. f[i + 1] - 1 = (f[i] - 1) + 1
      BY <3>4
    <3>. QED BY <3>3, <3>5, <3>6
  <2>. HIDE DEF m
  <2>7. Given(r.lines, w, m) /\ w[m + 1] \in Nat
    BY <1>1, <1>5, <2>6 DEF m
  <2>8. ASSUME ~r.dropping PROVE Given(ls, w, m + 1)
    <3>1. r.buf = [n \in 1 .. w[m + 1] |-> m + 1]
      BY <1>5, <1>6, <2>6, <2>8
    <3>2. Len(r.buf) = w[m + 1]
      BY <2>7, <3>1
    <3>3. Ct!TooLong(r.buf) <=> w[m + 1] > MaxFrameBytes
      BY <3>2 DEF Ct!TooLong
    <3>4. CASE w[m + 1] > MaxFrameBytes
      <4>1. ls = r.lines
        BY <3>3, <3>4
      <4>2. Given(r.lines, w, m + 1)
        BY <1>5, <2>6, <2>7, <3>4, GivenOneMore
      <4>. QED BY <4>1, <4>2
    <3>5. CASE ~(w[m + 1] > MaxFrameBytes)
      <4>1. ls = Append(r.lines, [n \in 1 .. w[m + 1] |-> m + 1])
        BY <2>8, <3>1, <3>3, <3>5
      <4>2. w[m + 1] <= MaxFrameBytes
        BY <2>7, <3>5
      <4>3. Given(Append(r.lines, [n \in 1 .. w[m + 1] |-> m + 1]), w, m + 1)
        BY <1>5, <2>6, <2>7, <4>2, GivenOneMore
      <4>. QED BY <4>1, <4>3
    <3>. QED BY <3>4, <3>5
  <2>9. ASSUME r.dropping PROVE Given(ls, w, m + 1)
    <3>1. w[m + 1] > MaxFrameBytes /\ ls = r.lines
      BY <1>5, <2>6, <2>9
    <3>2. Given(r.lines, w, m + 1)
      BY <1>5, <2>6, <2>7, <3>1, GivenOneMore
    <3>. QED BY <3>1, <3>2
  <2>10. Given(ls, w, f[i + 1] - 1)
    BY <2>6, <2>8, <2>9
  <2>. QED BY <1>6, <2>2, <2>4, <2>5, <2>10 DEF HasRead, q
<1>7. CASE p[i] = f[i] /\ f[i] \in DOMAIN w /\ f[i + 1] = f[i] /\ g[i + 1] = g[i] + 1
  <2>. DEFINE q == Ct!Take(r, p[i])
  <2>1. q = [r EXCEPT !.buf = Append(r.buf, p[i])]
    BY <1>4, <1>7 DEF Ct!Take, Ct!Newline
  <2>2. q \in ReaderType /\ q.buf = Append(r.buf, p[i]) /\ q.dropping = r.dropping /\ q.lines = r.lines
    <3>1. Append(r.buf, p[i]) \in Seq(Nat)
      BY <1>1, <1>5
    <3>. QED BY <1>5, <2>1, <3>1 DEF ReaderType
  <2>. HIDE DEF q
  <2>3. ASSUME ~r.dropping PROVE q.buf = [n \in 1 .. g[i + 1] |-> f[i + 1]]
    <3>1. r.buf = [n \in 1 .. g[i] |-> f[i]]
      BY <1>5, <2>3
    <3>. DEFINE b == [n \in 1 .. g[i] |-> f[i]]
    <3>2. b \in Seq(Nat) /\ Len(b) = g[i] /\ \A n \in 1 .. g[i] : b[n] = f[i]
      BY <1>4
    <3>. HIDE DEF b
    <3>3. Append(b, f[i]) = [n \in 1 .. g[i] + 1 |-> f[i]]
      BY <1>4, <3>2
    <3>. QED BY <1>7, <2>2, <3>1, <3>3 DEF b
  <2>. QED BY <1>5, <1>7, <2>2, <2>3 DEF HasRead, q
<1>8. \/ p[i] = 0 /\ f[i + 1] = f[i] + 1 /\ g[i] = w[f[i]] /\ g[i + 1] = 0
      \/ p[i] = f[i] /\ f[i] \in DOMAIN w /\ f[i + 1] = f[i] /\ g[i + 1] = g[i] + 1
  BY DEF Way
<1>. QED BY <1>6, <1>7, <1>8

Reader == [buf |-> buf, dropping |-> dropUntilNewline, lines |-> lines]

(* The loop over a chunk, by induction over its bytes. *)
LEMMA SplitReads ==
  ASSUME pipe \in Seq(Nat), written \in Seq(Nat \ {0}), unfinished \in BOOLEAN, unfinished => written # <<>>,
         NEW f, NEW g, Way(pipe, written, unfinished, f, g), HasRead(Reader, written, f[1], g[1]),
         NEW n \in 1 .. Len(pipe)
  PROVE  HasRead(Ct!Split(n)[n], written, f[n + 1], g[n + 1])
<1>. DEFINE Body(h, i) == IF i = 0 THEN Reader ELSE Ct!Take(h[i - 1], pipe[i])
            after == CHOOSE h : h = [i \in 0 .. n |-> Body(h, i)]
            G == [x \in ReaderType \X (1 .. n) |-> Ct!Take(x[1], pipe[x[2]])]
<1>1. Ct!Split(n) = after
  BY DEF Ct!Split, Reader
<1>2. n \in Nat /\ Len(pipe) \in Nat /\ n <= Len(pipe) /\ \A i \in 1 .. n : i \in 1 .. Len(pipe) /\ pipe[i] \in Nat
  OBVIOUS
<1>3. Reader \in ReaderType
  BY DEF HasRead
<1>4. ASSUME NEW r \in ReaderType, NEW b \in Nat PROVE Ct!Take(r, b) \in ReaderType
  <2>1. r.buf \in Seq(Nat) /\ r.dropping \in BOOLEAN /\ r.lines \in Seq(Seq(Nat))
    BY DEF ReaderType
  <2>2. Append(r.buf, b) \in Seq(Nat) /\ Append(r.lines, r.buf) \in Seq(Seq(Nat)) /\ <<>> \in Seq(Nat)
    BY <2>1
  <2>3. [r EXCEPT !.buf = Append(r.buf, b)] \in ReaderType
    BY <2>1, <2>2 DEF ReaderType
  <2>4. [buf |-> <<>>, dropping |-> FALSE, lines |-> r.lines] \in ReaderType
    BY <2>1, <2>2 DEF ReaderType
  <2>5. [buf |-> <<>>, dropping |-> FALSE, lines |-> Append(r.lines, r.buf)] \in ReaderType
    BY <2>1, <2>2 DEF ReaderType
  <2>. QED BY <2>3, <2>4, <2>5 DEF Ct!Take
<1>5. G \in [ReaderType \X (1 .. n) -> ReaderType]
  BY <1>2, <1>4
<1>6. \A r \in ReaderType, i \in 1 .. n : G[<<r, i>>] = Ct!Take(r, pipe[i])
  OBVIOUS
<1>. HIDE DEF G
<1>7. PICK h : IsRun(h, G, ReaderType, Reader, n)
  BY <1>2, <1>3, <1>5, RunExists DEF Computes
<1>8. ASSUME NEW i \in 0 .. n PROVE h[i] = Body(h, i)
  <2>1. CASE i = 0
    BY <1>7, <2>1 DEF IsRun
  <2>2. CASE i # 0
    <3>1. i \in 1 .. n /\ i - 1 \in 0 .. n
      BY <1>2, <2>2
    <3>2. h[i - 1] \in ReaderType
      BY <1>7, <3>1 DEF IsRun
    <3>3. h[i] = Ct!Take(h[i - 1], pipe[i])
      BY <1>6, <1>7, <3>1, <3>2 DEF IsRun
    <3>. QED BY <2>2, <3>3
  <2>. QED BY <2>1, <2>2
<1>9. h = [i \in 0 .. n |-> Body(h, i)]
  BY <1>7, <1>8 DEF IsRun
<1>10. after = [i \in 0 .. n |-> Body(after, i)]
  BY <1>9
<1>. HIDE DEF after
<1>11. after[0] = Reader /\ \A i \in 1 .. n : after[i] = Ct!Take(after[i - 1], pipe[i])
  <2>1. \A i \in 0 .. n : after[i] = Body(after, i)
    BY <1>10
  <2>2. 0 \in 0 .. n /\ \A i \in 1 .. n : i \in 0 .. n /\ i # 0
    BY <1>2
  <2>. QED BY <2>1, <2>2
<1>. DEFINE S == {i \in Nat : i <= n => HasRead(after[i], written, f[i + 1], g[i + 1])}
<1>12. 0 \in S
  BY <1>11
<1>13. ASSUME NEW i \in Nat, i \in S PROVE i + 1 \in S
  <2>. SUFFICES ASSUME i + 1 <= n PROVE HasRead(after[i + 1], written, f[(i + 1) + 1], g[(i + 1) + 1])
    OBVIOUS
  <2>1. i + 1 \in 1 .. n /\ i + 1 \in 1 .. Len(pipe) /\ (i + 1) - 1 = i /\ i <= n
    BY <1>2
  <2>2. HasRead(after[i], written, f[i + 1], g[i + 1]) /\ after[i + 1] = Ct!Take(after[i], pipe[i + 1])
    BY <1>11, <1>13, <2>1
  <2>. QED BY <2>1, <2>2, TakeGoesOn
<1>. HIDE DEF S
<1>14. Nat \subseteq S
  BY <1>12, <1>13, NatInd
<1>15. HasRead(after[n], written, f[n + 1], g[n + 1])
  BY <1>2, <1>14 DEF S
<1>. QED BY <1>1, <1>15

(* A chunk: the loop, and an unfinished frame that is over the cap.         *)
LEMMA DataKeeps ==
  ASSUME TransportInv, NEW n, Ct!Data(n)
  PROVE  TransportInv'
<1>. USE CapAssumption
<1>1. /\ ~streamEnded /\ n \in 1 .. Len(pipe) /\ pipe' = SubSeq(pipe, n + 1, Len(pipe))
      /\ UNCHANGED <<child, written, unfinished, streamEnded>>
  BY DEF Ct!Data, Ct!output
<1>. DEFINE r == Ct!Split(n)[n]
            over == Len(r.buf) > MaxFrameBytes
<1>2. /\ lines' = r.lines /\ buf' = IF over THEN <<>> ELSE r.buf
      /\ dropUntilNewline' = (over \/ r.dropping)
  BY DEF Ct!Data
<1>3. /\ written \in Seq(Nat \ {0}) /\ unfinished \in BOOLEAN /\ (unfinished => written # <<>>)
      /\ pipe \in Seq(Nat) /\ streamEnded \in BOOLEAN
  BY DEF TransportInv
<1>4. PICK f, g : Way(pipe, written, unfinished, f, g) /\ HasRead(Reader, written, f[1], g[1])
  BY <1>1 DEF TransportInv, Reader
<1>5. HasRead(r, written, f[n + 1], g[n + 1])
  BY <1>1, <1>3, <1>4, SplitReads
<1>. HIDE DEF r
<1>6. r \in ReaderType /\ r.buf \in Seq(Nat) /\ r.dropping \in BOOLEAN /\ r.lines \in Seq(Seq(Nat))
  BY <1>5 DEF HasRead, ReaderType
<1>7. /\ Len(pipe) \in Nat /\ n \in Nat /\ n <= Len(pipe) /\ Len(pipe') = Len(pipe) - n /\ pipe' \in Seq(Nat)
      /\ \A i \in 1 .. Len(pipe) - n : pipe'[i] = pipe[n + i]
  <2>1. Len(pipe) \in Nat /\ n \in Nat /\ n <= Len(pipe) /\ n + 1 \in 1 .. Len(pipe) + 1
    BY <1>1, <1>3
  <2>2. pipe' = [i \in 1 .. Len(pipe) - n |-> pipe[n + i]]
    BY <1>1, <1>3, <2>1
  <2>3. \A i \in 1 .. Len(pipe) - n : n + i \in 1 .. Len(pipe) /\ pipe[n + i] \in Nat
    BY <1>3, <2>1
  <2>4. Len(pipe) - n \in Nat
    BY <2>1
  <2>5. pipe' \in Seq(Nat) /\ Len(pipe') = Len(pipe) - n
    BY <2>2, <2>3, <2>4
  <2>. QED BY <2>1, <2>2, <2>5
<1>. DEFINE F == [i \in 1 .. Len(pipe') + 1 |-> f[n + i]]
            H == [i \in 1 .. Len(pipe') + 1 |-> g[n + i]]
<1>8. \A i \in 1 .. Len(pipe') + 1 : n + i \in 1 .. Len(pipe) + 1
  BY <1>7
<1>9. Way(pipe', written, unfinished, F, H)
  <2>1. F \in [1 .. Len(pipe') + 1 -> 1 .. Ended(written, unfinished) + 1] /\ H \in [1 .. Len(pipe') + 1 -> Nat]
    BY <1>4, <1>8 DEF Way
  <2>2. \A i \in 1 .. Len(pipe') + 1 : F[i] = f[n + i] /\ H[i] = g[n + i]
    OBVIOUS
  <2>3. Len(pipe') + 1 \in 1 .. Len(pipe') + 1 /\ n + (Len(pipe') + 1) = Len(pipe) + 1
    BY <1>7
  <2>. HIDE DEF F, H
  <2>4. \A i, j \in 1 .. Len(pipe') + 1 : i <= j => F[i] <= F[j]
    <3>1. \A i, j \in 1 .. Len(pipe') + 1 : i <= j => n + i <= n + j
      BY <1>7
    <3>. QED BY <1>4, <1>8, <2>2, <3>1 DEF Way
  <2>5. \A i \in 1 .. Len(pipe') + 1 : F[i] \in DOMAIN written => H[i] <= written[F[i]]
    BY <1>4, <1>8, <2>2 DEF Way
  <2>6. ASSUME NEW i \in 1 .. Len(pipe')
        PROVE \/ pipe'[i] = 0 /\ F[i + 1] = F[i] + 1 /\ H[i] = written[F[i]] /\ H[i + 1] = 0
              \/ pipe'[i] = F[i] /\ F[i] \in DOMAIN written /\ F[i + 1] = F[i] /\ H[i + 1] = H[i] + 1
    <3>1. n + i \in 1 .. Len(pipe) /\ pipe'[i] = pipe[n + i] /\ (n + i) + 1 = n + (i + 1)
      BY <1>7
    <3>2. i \in 1 .. Len(pipe') + 1 /\ i + 1 \in 1 .. Len(pipe') + 1
      BY <1>7
    <3>3. F[i] = f[n + i] /\ H[i] = g[n + i] /\ F[i + 1] = f[(n + i) + 1] /\ H[i + 1] = g[(n + i) + 1]
      BY <2>2, <3>1, <3>2
    <3>4. \/ pipe[n + i] = 0 /\ f[(n + i) + 1] = f[n + i] + 1 /\ g[n + i] = written[f[n + i]] /\ g[(n + i) + 1] = 0
          \/ /\ pipe[n + i] = f[n + i] /\ f[n + i] \in DOMAIN written /\ f[(n + i) + 1] = f[n + i]
             /\ g[(n + i) + 1] = g[n + i] + 1
      BY <1>4, <3>1 DEF Way
    <3>. QED BY <3>1, <3>3, <3>4
  <2>7. F[Len(pipe') + 1] = Ended(written, unfinished) + 1
        /\ H[Len(pipe') + 1] = IF unfinished THEN written[Len(written)] ELSE 0
    BY <1>4, <2>2, <2>3 DEF Way
  <2>. QED BY <2>1, <2>4, <2>5, <2>6, <2>7 DEF Way
<1>10. F[1] = f[n + 1] /\ H[1] = g[n + 1]
  BY <1>7
<1>11. buf' \in Seq(Nat) /\ Len(buf') <= MaxFrameBytes /\ dropUntilNewline' \in BOOLEAN /\ lines' \in Seq(Seq(Nat))
  <2>1. Len(r.buf) \in Nat /\ <<>> \in Seq(Nat) /\ Len(<<>>) = 0
    BY <1>6
  <2>. QED BY <1>2, <1>6, <2>1
<1>12. HasRead(Reader', written, f[n + 1], g[n + 1])
  <2>1. Reader' = [buf |-> buf', dropping |-> dropUntilNewline', lines |-> lines']
    BY DEF Reader
  <2>2. Reader' \in ReaderType /\ Reader'.buf = buf' /\ Reader'.dropping = dropUntilNewline' /\ Reader'.lines = lines'
    BY <1>11, <2>1 DEF ReaderType
  <2>3. Given(r.lines, written, f[n + 1] - 1)
    BY <1>5 DEF HasRead
  <2>4. ASSUME ~dropUntilNewline' PROVE buf' = [i \in 1 .. g[n + 1] |-> f[n + 1]]
    BY <1>2, <1>5, <2>4 DEF HasRead
  <2>5. ASSUME dropUntilNewline' PROVE f[n + 1] \in DOMAIN written /\ written[f[n + 1]] > MaxFrameBytes
    <3>1. CASE r.dropping
      BY <1>5, <3>1 DEF HasRead
    <3>2. CASE ~r.dropping
      <4>0. n + 1 \in 1 .. Len(pipe) + 1
        BY <1>7
      <4>1. r.buf = [i \in 1 .. g[n + 1] |-> f[n + 1]] /\ g[n + 1] \in Nat /\ f[n + 1] \in Nat
        BY <1>4, <1>5, <3>2, <4>0 DEF HasRead, Way
      <4>2. Len(r.buf) = g[n + 1] /\ Len(r.buf) > MaxFrameBytes
        <5>1. Len(r.buf) = g[n + 1]
          BY <4>1
        <5>2. over
          BY <1>2, <2>5, <3>2
        <5>. QED BY <5>1, <5>2
      <4>3. f[n + 1] \in DOMAIN written
        <5>1. Len(written) \in Nat /\ DOMAIN written = 1 .. Len(written)
          BY <1>3
        <5>2. f[n + 1] \in 1 .. Ended(written, unfinished) + 1
          BY <1>4, <4>0 DEF Way
        <5>3. CASE unfinished
          BY <5>1, <5>2, <5>3 DEF Ended
        <5>4. CASE ~unfinished
          <6>1. SUFFICES ASSUME f[n + 1] = Len(written) + 1 PROVE FALSE
            BY <5>1, <5>2, <5>4 DEF Ended
          <6>2. n + 1 # Len(pipe) + 1
            <7>1. g[Len(pipe) + 1] = 0
              BY <1>4, <5>4 DEF Way
            <7>. QED BY <4>1, <4>2, <7>1
          <6>3. n + 1 \in 1 .. Len(pipe) /\ (n + 1) + 1 \in 1 .. Len(pipe) + 1
            BY <1>7, <6>2
          <6>4. f[(n + 1) + 1] \in 1 .. Len(written) + 1
            BY <1>4, <5>4, <6>3 DEF Way, Ended
          <6>5. f[(n + 1) + 1] = f[n + 1] + 1 \/ f[n + 1] \in DOMAIN written
            BY <1>4, <6>3 DEF Way
          <6>. QED BY <5>1, <6>1, <6>4, <6>5
        <5>. QED BY <5>3, <5>4
      <4>4. g[n + 1] <= written[f[n + 1]]
        BY <1>4, <4>0, <4>3 DEF Way
      <4>5. written[f[n + 1]] \in Nat
        BY <1>3, <4>3
      <4>. QED BY <4>1, <4>2, <4>3, <4>4, <4>5
    <3>. QED BY <3>1, <3>2
  <2>. QED BY <1>2, <2>2, <2>3, <2>4, <2>5 DEF HasRead
<1>. HIDE DEF F, H
<1>13. \E x, y : Way(pipe', written', unfinished', x, y) /\ HasRead(Reader', written', x[1], y[1])
  BY <1>1, <1>9, <1>10, <1>12
<1>14. pipe' = <<>> \/ ~streamEnded'
  BY <1>1
<1>. QED BY <1>1, <1>3, <1>7, <1>11, <1>13 DEF TransportInv, Reader

(* The agent writes a byte behind everything the reader has not read. *)
LEMMA WriteByteKeeps ==
  ASSUME TransportInv, Ct!WriteByte
  PROVE  TransportInv'
<1>1. /\ child = "running" /\ unfinished' = TRUE /\ pipe' = Append(pipe, Len(written'))
      /\ UNCHANGED <<child, buf, dropUntilNewline, lines, streamEnded>>
      /\ unfinished => written' = [written EXCEPT ![Len(written)] = @ + 1]
      /\ ~unfinished => written' = Append(written, 1)
  BY DEF Ct!WriteByte, Ct!reader
<1>2. /\ written \in Seq(Nat \ {0}) /\ unfinished \in BOOLEAN /\ (unfinished => written # <<>>)
      /\ pipe \in Seq(Nat) /\ streamEnded \in BOOLEAN /\ ~streamEnded
  BY <1>1 DEF TransportInv
<1>3. PICK f, g : Way(pipe, written, unfinished, f, g) /\ HasRead(Reader, written, f[1], g[1])
  BY <1>2 DEF TransportInv, Reader
<1>. DEFINE e == Ended(written, unfinished)
            N == Len(written')
            L == Len(pipe)
<1>4. /\ Len(written) \in Nat /\ DOMAIN written = 1 .. Len(written) /\ L \in Nat
      /\ \A k \in DOMAIN written : written[k] \in Nat /\ written[k] # 0
      /\ unfinished => Len(written) # 0
  BY <1>2
<1>5. /\ N = e + 1 /\ e \in Nat /\ written' \in Seq(Nat \ {0}) /\ DOMAIN written' = 1 .. N
      /\ \A k \in 1 .. e : written'[k] = written[k] /\ k \in DOMAIN written
      /\ \A k \in DOMAIN written : k \in DOMAIN written' /\ written[k] <= written'[k]
      /\ written'[N] = (IF unfinished THEN written[Len(written)] ELSE 0) + 1
      /\ Ended(written', TRUE) = e
  <2>1. CASE unfinished
    <3>1. Len(written) \in DOMAIN written /\ written[Len(written)] + 1 \in Nat \ {0}
      BY <1>4, <2>1
    <3>2. written' = [written EXCEPT ![Len(written)] = written[Len(written)] + 1]
      BY <1>1, <2>1
    <3>3. written' \in Seq(Nat \ {0}) /\ Len(written') = Len(written)
      BY <1>2, <3>1, <3>2
    <3>4. /\ written'[Len(written)] = written[Len(written)] + 1
          /\ \A k \in DOMAIN written : k # Len(written) => written'[k] = written[k]
      BY <1>4, <3>1, <3>2
    <3>. QED BY <1>4, <2>1, <3>1, <3>3, <3>4 DEF Ended
  <2>2. CASE ~unfinished
    <3>1. written' \in Seq(Nat \ {0}) /\ Len(written') = Len(written) + 1
          /\ written'[Len(written) + 1] = 1 /\ \A k \in DOMAIN written : written'[k] = written[k]
      <4>1. written' = Append(written, 1) /\ 1 \in Nat \ {0}
        BY <1>1, <2>2
      <4>2. written \in Seq(Nat \ {0})
        BY <1>2
      <4>. HIDE DEF N
      <4>. QED BY <4>1, <4>2
    <3>. QED BY <1>4, <2>2, <3>1 DEF Ended
  <2>. QED BY <2>1, <2>2
<1>6. pipe' \in Seq(Nat) /\ Len(pipe') = L + 1 /\ pipe'[L + 1] = N /\ \A i \in 1 .. L : pipe'[i] = pipe[i]
  BY <1>1, <1>2, <1>4, <1>5
<1>. HIDE DEF e, N, L
<1>. DEFINE F == [i \in 1 .. L + 2 |-> IF i = L + 2 THEN e + 1 ELSE f[i]]
            H == [i \in 1 .. L + 2 |-> IF i = L + 2 THEN written'[N] ELSE g[i]]
<1>7. /\ f \in [1 .. L + 1 -> 1 .. e + 1] /\ g \in [1 .. L + 1 -> Nat]
      /\ f[L + 1] = e + 1 /\ g[L + 1] = IF unfinished THEN written[Len(written)] ELSE 0
      /\ \A i, j \in 1 .. L + 1 : i <= j => f[i] <= f[j]
      /\ \A i \in 1 .. L + 1 : f[i] \in DOMAIN written => g[i] <= written[f[i]]
      /\ \A i \in 1 .. L :
           \/ pipe[i] = 0 /\ f[i + 1] = f[i] + 1 /\ g[i] = written[f[i]] /\ g[i + 1] = 0
           \/ pipe[i] = f[i] /\ f[i] \in DOMAIN written /\ f[i + 1] = f[i] /\ g[i + 1] = g[i] + 1
  BY <1>3 DEF Way, e, L
<1>8. /\ \A i \in 1 .. L + 1 : i \in 1 .. L + 2 /\ F[i] = f[i] /\ H[i] = g[i]
      /\ L + 2 \in 1 .. L + 2 /\ F[L + 2] = e + 1 /\ H[L + 2] = written'[N]
  BY <1>4 DEF L
<1>9. written'[N] \in Nat /\ N \in DOMAIN written'
  BY <1>5 DEF N
<1>10. F \in [1 .. L + 2 -> 1 .. e + 1] /\ H \in [1 .. L + 2 -> Nat]
  <2>1. \A i \in 1 .. L + 2 : i # L + 2 => i \in 1 .. L + 1
    BY <1>4 DEF L
  <2>. QED BY <1>5, <1>7, <1>9, <2>1
<1>. HIDE DEF F, H
<1>11. \A i \in 1 .. L + 2 : i = L + 2 \/ i \in 1 .. L + 1
  BY <1>4 DEF L
<1>12. \A i, j \in 1 .. L + 2 : i <= j => F[i] <= F[j]
  <2>1. ASSUME NEW i \in 1 .. L + 2, NEW j \in 1 .. L + 2, i <= j PROVE F[i] <= F[j]
    <3>1. CASE j = L + 2
      BY <1>5, <1>8, <1>10, <3>1
    <3>2. CASE j # L + 2
      <4>1. i \in 1 .. L + 1 /\ j \in 1 .. L + 1
        BY <1>4, <1>11, <2>1, <3>2 DEF L
      <4>. QED BY <1>7, <1>8, <2>1, <4>1
    <3>. QED BY <3>1, <3>2
  <2>. QED BY <2>1
<1>13. \A i \in 1 .. L + 2 : F[i] \in DOMAIN written' => H[i] <= written'[F[i]]
  <2>1. ASSUME NEW i \in 1 .. L + 1 PROVE H[i] <= written'[F[i]] \/ F[i] \notin DOMAIN written'
    <3>1. CASE f[i] \in DOMAIN written
      <4>1. g[i] <= written[f[i]] /\ written[f[i]] <= written'[f[i]] /\ g[i] \in Nat
        BY <1>5, <1>7, <3>1
      <4>2. written[f[i]] \in Nat /\ written'[f[i]] \in Nat
        BY <1>4, <1>5, <3>1
      <4>. QED BY <1>8, <4>1, <4>2
    <3>2. CASE f[i] \notin DOMAIN written
      <4>1. ~unfinished /\ f[i] = e + 1
        BY <1>4, <1>7, <3>2 DEF e, Ended
      <4>2. g[i] = 0
        <5>1. CASE i = L + 1
          BY <1>7, <4>1, <5>1
        <5>2. CASE i # L + 1
          <6>1. i \in 1 .. L /\ i + 1 \in 1 .. L + 1
            BY <1>4, <5>2 DEF L
          <6>2. f[i + 1] \in 1 .. e + 1
            BY <1>7, <6>1
          <6>3. f[i + 1] = f[i] + 1
            BY <1>7, <3>2, <6>1
          <6>. QED BY <1>5, <4>1, <6>2, <6>3
        <5>. QED BY <5>1, <5>2
      <4>. QED BY <1>5, <1>8, <1>9, <4>1, <4>2
    <3>. QED BY <3>1, <3>2
  <2>2. F[L + 2] = N /\ H[L + 2] <= written'[N]
    BY <1>5, <1>8, <1>9
  <2>. QED BY <1>11, <2>1, <2>2
<1>14. ASSUME NEW i \in 1 .. L + 1
       PROVE \/ pipe'[i] = 0 /\ F[i + 1] = F[i] + 1 /\ H[i] = written'[F[i]] /\ H[i + 1] = 0
             \/ pipe'[i] = F[i] /\ F[i] \in DOMAIN written' /\ F[i + 1] = F[i] /\ H[i + 1] = H[i] + 1
  <2>1. CASE i = L + 1
    <3>1. i + 1 = L + 2 /\ F[i] = e + 1 /\ F[i + 1] = e + 1 /\ pipe'[i] = N /\ H[i] = g[L + 1] /\ H[i + 1] = written'[N]
      BY <1>4, <1>6, <1>7, <1>8, <2>1 DEF L
    <3>. QED BY <1>5, <1>7, <1>9, <3>1
  <2>2. CASE i # L + 1
    <3>1. i \in 1 .. L /\ i \in 1 .. L + 1 /\ i + 1 \in 1 .. L + 1
      BY <1>4, <2>2 DEF L
    <3>2. F[i] = f[i] /\ H[i] = g[i] /\ F[i + 1] = f[i + 1] /\ H[i + 1] = g[i + 1] /\ pipe'[i] = pipe[i]
      BY <1>6, <1>8, <3>1
    <3>3. \/ pipe[i] = 0 /\ f[i + 1] = f[i] + 1 /\ g[i] = written[f[i]] /\ g[i + 1] = 0
          \/ pipe[i] = f[i] /\ f[i] \in DOMAIN written /\ f[i + 1] = f[i] /\ g[i + 1] = g[i] + 1
      BY <1>7, <3>1
    <3>4. ASSUME f[i + 1] = f[i] + 1 PROVE written'[f[i]] = written[f[i]]
      <4>1. f[i] \in 1 .. e + 1 /\ f[i + 1] \in 1 .. e + 1
        BY <1>7, <3>1
      <4>2. f[i] \in 1 .. e
        BY <1>5, <3>4, <4>1
      <4>. QED BY <1>5, <4>2
    <3>. QED BY <1>5, <3>2, <3>3, <3>4
  <2>. QED BY <2>1, <2>2
<1>15. Way(pipe', written', TRUE, F, H)
  <2>1. Len(pipe') = L + 1 /\ Ended(written', TRUE) = e
    BY <1>5, <1>6
  <2>2. (L + 1) + 1 = L + 2
    BY <1>4
  <2>3. Len(written') = N
    BY DEF N
  <2>. QED BY <1>8, <1>10, <1>12, <1>13, <1>14, <2>1, <2>2, <2>3 DEF Way
<1>16. HasRead(Reader', written', F[1], H[1])
  <2>1. Reader' = Reader
    BY <1>1 DEF Reader
  <2>2. 1 \in 1 .. L + 1
    BY <1>4 DEF L
  <2>3. F[1] = f[1] /\ H[1] = g[1] /\ f[1] \in 1 .. e + 1
    BY <1>7, <1>8, <2>2
  <2>4. /\ Reader \in ReaderType
        /\ ~Reader.dropping => Reader.buf = [n \in 1 .. g[1] |-> f[1]]
        /\ Reader.dropping => f[1] \in DOMAIN written /\ written[f[1]] > MaxFrameBytes
        /\ Given(Reader.lines, written, f[1] - 1)
    BY <1>3 DEF HasRead
  <2>5. f[1] - 1 \in Nat /\ \A k \in 1 .. f[1] - 1 : k \in 1 .. e
    BY <1>5, <2>3
  <2>6. Given(Reader.lines, written', f[1] - 1)
    <3>1. \A k \in 1 .. f[1] - 1 : written[k] = written'[k]
      BY <1>5, <2>5
    <3>. QED BY <2>4, <2>5, <3>1, GivenOfFirst
  <2>7. Reader.dropping => f[1] \in DOMAIN written' /\ written'[f[1]] > MaxFrameBytes
    <3>. SUFFICES ASSUME Reader.dropping PROVE f[1] \in DOMAIN written' /\ written'[f[1]] > MaxFrameBytes
      OBVIOUS
    <3>1. f[1] \in DOMAIN written /\ written[f[1]] > MaxFrameBytes
      BY <2>4
    <3>2. f[1] \in DOMAIN written' /\ written[f[1]] <= written'[f[1]] /\ written[f[1]] \in Nat /\ written'[f[1]] \in Nat
      BY <1>4, <1>5, <3>1
    <3>. QED BY <3>1, <3>2, CapAssumption
  <2>. QED BY <2>1, <2>3, <2>4, <2>6, <2>7 DEF HasRead
<1>17. \E x, y : Way(pipe', written', unfinished', x, y) /\ HasRead(Reader', written', x[1], y[1])
  BY <1>1, <1>15, <1>16
<1>18. written' # <<>>
  BY <1>5, <1>9
<1>. QED BY <1>1, <1>2, <1>5, <1>6, <1>17, <1>18 DEF TransportInv, Reader

(* The agent ends a frame. *)
LEMMA EndFrameKeeps ==
  ASSUME TransportInv, Ct!EndFrame
  PROVE  TransportInv'
<1>1. /\ child = "running" /\ unfinished /\ unfinished' = FALSE /\ pipe' = Append(pipe, 0)
      /\ UNCHANGED <<child, written, buf, dropUntilNewline, lines, streamEnded>>
  BY DEF Ct!EndFrame, Ct!reader, Ct!Newline
<1>2. /\ written \in Seq(Nat \ {0}) /\ written # <<>>
      /\ pipe \in Seq(Nat) /\ streamEnded \in BOOLEAN /\ ~streamEnded
  BY <1>1 DEF TransportInv
<1>3. PICK f, g : Way(pipe, written, TRUE, f, g) /\ HasRead(Reader, written, f[1], g[1])
  <2>1. unfinished = TRUE
    BY <1>1 DEF TransportInv
  <2>. QED BY <1>2, <2>1 DEF TransportInv, Reader
<1>. DEFINE N == Len(written)
            L == Len(pipe)
<1>4. /\ N \in Nat /\ N # 0 /\ DOMAIN written = 1 .. N /\ L \in Nat
      /\ \A k \in DOMAIN written : written[k] \in Nat
  BY <1>2
<1>5. pipe' \in Seq(Nat) /\ Len(pipe') = L + 1 /\ pipe'[L + 1] = 0 /\ \A i \in 1 .. L : pipe'[i] = pipe[i]
  BY <1>1, <1>2, <1>4
<1>6. Ended(written, TRUE) + 1 = N /\ Ended(written, FALSE) = N
  BY <1>4 DEF Ended
<1>7. /\ f \in [1 .. L + 1 -> 1 .. N] /\ g \in [1 .. L + 1 -> Nat]
      /\ f[L + 1] = N /\ g[L + 1] = written[N]
      /\ \A i, j \in 1 .. L + 1 : i <= j => f[i] <= f[j]
      /\ \A i \in 1 .. L + 1 : f[i] \in DOMAIN written => g[i] <= written[f[i]]
      /\ \A i \in 1 .. L :
           \/ pipe[i] = 0 /\ f[i + 1] = f[i] + 1 /\ g[i] = written[f[i]] /\ g[i + 1] = 0
           \/ pipe[i] = f[i] /\ f[i] \in DOMAIN written /\ f[i + 1] = f[i] /\ g[i + 1] = g[i] + 1
  BY <1>3, <1>6 DEF Way
<1>. HIDE DEF N, L
<1>. DEFINE F == [i \in 1 .. L + 2 |-> IF i = L + 2 THEN N + 1 ELSE f[i]]
            H == [i \in 1 .. L + 2 |-> IF i = L + 2 THEN 0 ELSE g[i]]
<1>8. /\ \A i \in 1 .. L + 1 : i \in 1 .. L + 2 /\ F[i] = f[i] /\ H[i] = g[i]
      /\ L + 2 \in 1 .. L + 2 /\ F[L + 2] = N + 1 /\ H[L + 2] = 0
  BY <1>4
<1>9. \A i \in 1 .. L + 2 : i = L + 2 \/ i \in 1 .. L + 1
  BY <1>4
<1>10. F \in [1 .. L + 2 -> 1 .. N + 1] /\ H \in [1 .. L + 2 -> Nat]
  BY <1>4, <1>7, <1>9
<1>. HIDE DEF F, H
<1>11. \A i, j \in 1 .. L + 2 : i <= j => F[i] <= F[j]
  <2>1. ASSUME NEW i \in 1 .. L + 2, NEW j \in 1 .. L + 2, i <= j PROVE F[i] <= F[j]
    <3>1. CASE j = L + 2
      BY <1>4, <1>8, <1>10, <3>1
    <3>2. CASE j # L + 2
      <4>1. i \in 1 .. L + 1 /\ j \in 1 .. L + 1
        BY <1>4, <1>9, <2>1, <3>2
      <4>. QED BY <1>7, <1>8, <2>1, <4>1
    <3>. QED BY <3>1, <3>2
  <2>. QED BY <2>1
<1>12. \A i \in 1 .. L + 2 : F[i] \in DOMAIN written => H[i] <= written[F[i]]
  <2>1. N + 1 \notin DOMAIN written
    BY <1>4
  <2>. QED BY <1>7, <1>8, <1>9, <2>1
<1>13. ASSUME NEW i \in 1 .. L + 1
       PROVE \/ pipe'[i] = 0 /\ F[i + 1] = F[i] + 1 /\ H[i] = written[F[i]] /\ H[i + 1] = 0
             \/ pipe'[i] = F[i] /\ F[i] \in DOMAIN written /\ F[i + 1] = F[i] /\ H[i + 1] = H[i] + 1
  <2>1. CASE i = L + 1
    <3>1. i + 1 = L + 2 /\ F[i] = N /\ F[i + 1] = N + 1 /\ pipe'[i] = 0 /\ H[i] = written[N] /\ H[i + 1] = 0
      BY <1>4, <1>5, <1>7, <1>8, <2>1
    <3>. QED BY <3>1
  <2>2. CASE i # L + 1
    <3>1. i \in 1 .. L /\ i \in 1 .. L + 1 /\ i + 1 \in 1 .. L + 1
      BY <1>4, <2>2
    <3>2. F[i] = f[i] /\ H[i] = g[i] /\ F[i + 1] = f[i + 1] /\ H[i + 1] = g[i + 1] /\ pipe'[i] = pipe[i]
      BY <1>5, <1>8, <3>1
    <3>. QED BY <1>7, <3>1, <3>2
  <2>. QED BY <2>1, <2>2
<1>14. Way(pipe', written, FALSE, F, H)
  <2>1. Len(pipe') = L + 1 /\ (L + 1) + 1 = L + 2
    BY <1>4, <1>5
  <2>. QED BY <1>6, <1>8, <1>10, <1>11, <1>12, <1>13, <2>1 DEF Way
<1>15. HasRead(Reader', written, F[1], H[1])
  <2>1. 1 \in 1 .. L + 1
    BY <1>4
  <2>2. Reader' = Reader /\ F[1] = f[1] /\ H[1] = g[1]
    BY <1>1, <1>8, <2>1 DEF Reader
  <2>. QED BY <1>3, <2>2
<1>16. \E x, y : Way(pipe', written', unfinished', x, y) /\ HasRead(Reader', written', x[1], y[1])
  BY <1>1, <1>14, <1>15
<1>. QED BY <1>1, <1>2, <1>5, <1>16 DEF TransportInv, Reader

(* Everything was read: the reader is where the agent is. *)
LEMMA StreamEndsKeeps ==
  ASSUME TransportInv, Ct!StreamEnds
  PROVE  TransportInv'
<1>1. /\ ~streamEnded /\ child # "running" /\ pipe = <<>> /\ streamEnded' = TRUE
      /\ UNCHANGED <<child, written, unfinished, pipe, dropUntilNewline>>
      /\ buf # <<>> /\ ~dropUntilNewline => lines' = Append(lines, buf) /\ buf' = <<>>
      /\ ~(buf # <<>> /\ ~dropUntilNewline) => lines' = lines /\ buf' = buf
  BY DEF Ct!StreamEnds, Ct!output
<1>2. /\ written \in Seq(Nat \ {0}) /\ unfinished \in BOOLEAN /\ (unfinished => written # <<>>)
      /\ pipe \in Seq(Nat) /\ buf \in Seq(Nat) /\ Len(buf) <= MaxFrameBytes
      /\ dropUntilNewline \in BOOLEAN /\ lines \in Seq(Seq(Nat))
  BY DEF TransportInv
<1>3. PICK f, g : Way(pipe, written, unfinished, f, g) /\ HasRead(Reader, written, f[1], g[1])
  BY <1>1 DEF TransportInv, Reader
<1>. DEFINE N == Len(written)
<1>4. /\ N \in Nat /\ DOMAIN written = 1 .. N /\ (unfinished => N # 0)
      /\ \A k \in DOMAIN written : written[k] \in Nat /\ written[k] # 0
  BY <1>2
<1>5. f[1] = Ended(written, unfinished) + 1 /\ g[1] = IF unfinished THEN written[N] ELSE 0
  <2>1. Len(pipe) + 1 = 1
    BY <1>1
  <2>. QED BY <1>3, <2>1 DEF Way
<1>6. /\ ~dropUntilNewline => buf = [n \in 1 .. g[1] |-> f[1]]
      /\ dropUntilNewline => f[1] \in DOMAIN written /\ written[f[1]] > MaxFrameBytes
      /\ Given(lines, written, f[1] - 1)
  BY <1>3 DEF HasRead, Reader
<1>. HIDE DEF N
<1>7. Given(lines', written, N)
  <2>1. CASE ~unfinished
    <3>1. f[1] = N + 1 /\ f[1] - 1 = N /\ g[1] = 0
      BY <1>4, <1>5, <2>1 DEF Ended, N
    <3>2. ~dropUntilNewline
      BY <1>4, <1>6, <3>1
    <3>3. buf = <<>>
      BY <1>6, <3>1, <3>2
    <3>. QED BY <1>1, <1>6, <3>1, <3>3
  <2>2. CASE unfinished
    <3>1. f[1] = N /\ g[1] = written[N] /\ N \in DOMAIN written
      BY <1>4, <1>5, <2>2 DEF Ended, N
    <3>. DEFINE m == N - 1
    <3>2. m \in Nat /\ m + 1 = N /\ Given(lines, written, m) /\ written[m + 1] \in Nat
      BY <1>4, <1>6, <2>2, <3>1
    <3>3. /\ written[m + 1] <= MaxFrameBytes => Given(Append(lines, [i \in 1 .. written[m + 1] |-> m + 1]), written, m + 1)
          /\ written[m + 1] > MaxFrameBytes => Given(lines, written, m + 1)
      BY <1>2, <3>2, GivenOneMore
    <3>. HIDE DEF m
    <3>4. CASE dropUntilNewline
      BY <1>1, <1>6, <3>1, <3>2, <3>3, <3>4
    <3>5. CASE ~dropUntilNewline
      <4>1. buf = [i \in 1 .. written[N] |-> N] /\ written[N] \in Nat /\ written[N] # 0
        BY <1>4, <1>6, <3>1, <3>5
      <4>2. Len(buf) = written[N]
        BY <4>1
      <4>3. written[N] <= MaxFrameBytes /\ buf # <<>>
        BY <1>2, <4>1, <4>2
      <4>4. lines' = Append(lines, [i \in 1 .. written[N] |-> N])
        BY <1>1, <3>5, <4>1, <4>3
      <4>. QED BY <3>2, <3>3, <4>3, <4>4
    <3>. QED BY <3>4, <3>5
  <2>. QED BY <2>1, <2>2
<1>8. lines' \in Seq(Seq(Nat)) /\ buf' \in Seq(Nat) /\ Len(buf') <= MaxFrameBytes
  <2>1. <<>> \in Seq(Nat) /\ Len(<<>>) = 0 /\ Append(lines, buf) \in Seq(Seq(Nat))
    BY <1>2
  <2>2. CASE buf # <<>> /\ ~dropUntilNewline
    <3>1. lines' = Append(lines, buf) /\ buf' = <<>>
      BY <1>1, <2>2
    <3>. QED BY <2>1, <3>1, CapAssumption
  <2>3. CASE ~(buf # <<>> /\ ~dropUntilNewline)
    BY <1>1, <1>2, <2>3
  <2>. QED BY <2>2, <2>3
<1>. QED BY <1>1, <1>2, <1>7, <1>8 DEF TransportInv, N

(* The rest of the transport does not touch the bytes.                      *)
LEMMA TransportKept ==
  ASSUME TransportInv, [PartsNext]_allVars
  PROVE  TransportInv'
<1>1. ASSUME UNCHANGED <<child, written, unfinished, pipe, buf, dropUntilNewline, lines, streamEnded>>
      PROVE  TransportInv'
  BY <1>1 DEF TransportInv
<1>2. CASE UNCHANGED ctVars
  BY <1>1, <1>2 DEF ctVars
<1>3. CASE Ct!WriteByte
  BY <1>3, WriteByteKeeps
<1>4. CASE Ct!EndFrame
  BY <1>4, EndFrameKeeps
<1>5. ASSUME Ct!Exits PROVE TransportInv'
  BY <1>5 DEF Ct!Exits, Ct!output, Ct!reader, TransportInv
<1>6. CASE Ct!Killed
  BY <1>5, <1>6 DEF Ct!Killed
<1>7. ASSUME NEW n, Ct!Data(n) PROVE TransportInv'
  BY <1>7, DataKeeps
<1>8. CASE Ct!StreamEnds
  BY <1>8, StreamEndsKeeps
<1>9. CASE Ct!Reaped
  BY <1>9 DEF Ct!Reaped, Ct!output, Ct!reader, TransportInv
<1>10. CASE Ct!Dispose
  BY <1>1, <1>10 DEF Ct!Dispose, Ct!output, Ct!reader
<1>11. CASE Ct!GraceEnds
  BY <1>1, <1>11 DEF Ct!GraceEnds, Ct!output, Ct!reader
<1>. QED BY <1>2, <1>3, <1>4, <1>5, <1>6, <1>7, <1>8, <1>9, <1>10, <1>11 DEF PartsNext, allVars, Ct!Next

(* The newlines on their way are those of the frames the reader has not     *)
(* read: f counts them.                                                     *)
LEMMA NewlinesOnTheWay ==
  ASSUME NEW p \in Seq(Nat), NEW w \in Seq(Nat \ {0}), NEW u \in BOOLEAN, u => w # <<>>,
         NEW f, NEW g, Way(p, w, u, f, g)
  PROVE  /\ Cardinality({i \in DOMAIN p : p[i] = 0}) = Ended(w, u) + 1 - f[1]
         /\ \A i \in DOMAIN p : p[i] = 0 \/ p[i] >= f[1]
<1>. DEFINE Z == {i \in DOMAIN p : p[i] = 0}
            e == Ended(w, u)
            L == Len(p)
            h == [i \in Z |-> f[i]]
<1>1. L \in Nat /\ DOMAIN p = 1 .. L /\ Len(w) \in Nat
  BY DEF L
<1>2. e \in Nat
  BY <1>1 DEF Ended
<1>. HIDE DEF e, L
<1>3. /\ f \in [1 .. L + 1 -> 1 .. e + 1] /\ f[L + 1] = e + 1
      /\ \A i, j \in 1 .. L + 1 : i <= j => f[i] <= f[j]
      /\ \A i \in 1 .. L : \/ p[i] = 0 /\ f[i + 1] = f[i] + 1
                           \/ p[i] = f[i] /\ f[i + 1] = f[i]
  <2>1. \A i \in 1 .. L :
          \/ p[i] = 0 /\ f[i + 1] = f[i] + 1 /\ g[i] = w[f[i]] /\ g[i + 1] = 0
          \/ p[i] = f[i] /\ f[i] \in DOMAIN w /\ f[i + 1] = f[i] /\ g[i + 1] = g[i] + 1
    BY DEF Way, L
  <2>2. /\ f \in [1 .. L + 1 -> 1 .. e + 1] /\ f[L + 1] = e + 1
        /\ \A i, j \in 1 .. L + 1 : i <= j => f[i] <= f[j]
    BY DEF Way, e, L
  <2>. QED BY <2>1, <2>2
<1>4. /\ \A i \in 1 .. L + 1 : f[i] \in 1 .. e + 1 /\ f[1] <= f[i]
      /\ 1 \in 1 .. L + 1 /\ f[1] \in 1 .. e + 1
  <2>1. 1 \in 1 .. L + 1 /\ \A i \in 1 .. L + 1 : 1 <= i
    BY <1>1
  <2>. QED BY <1>3, <2>1
<1>5. \A i \in 1 .. L : i \in 1 .. L + 1 /\ i + 1 \in 1 .. L + 1
  BY <1>1
<1>6. ASSUME NEW i \in 1 .. L PROVE p[i] = 0 \/ p[i] >= f[1]
  BY <1>3, <1>4, <1>5
<1>7. Z \subseteq 1 .. L /\ IsFiniteSet(Z)
  <2>1. IsFiniteSet(1 .. L)
    BY <1>1, FS_Interval
  <2>2. Z \subseteq 1 .. L
    BY <1>1
  <2>. QED BY <2>1, <2>2, FS_Subset
<1>8. ASSUME NEW i \in Z PROVE h[i] = f[i] /\ f[i + 1] = f[i] + 1 /\ f[i] \in f[1] .. e
  <2>1. i \in 1 .. L /\ p[i] = 0 /\ f[i] # 0 /\ f[i] \in 1 .. e + 1 /\ f[i + 1] \in 1 .. e + 1 /\ f[1] <= f[i]
    BY <1>4, <1>5, <1>7
  <2>2. f[i + 1] = f[i] + 1
    BY <1>3, <2>1
  <2>. QED BY <1>2, <1>4, <2>1, <2>2
<1>9. ASSUME NEW i \in Z, NEW j \in Z, h[i] = h[j] PROVE i = j
  <2>1. i \in 1 .. L /\ j \in 1 .. L /\ f[i] = f[j] /\ f[i + 1] = f[i] + 1 /\ f[j + 1] = f[j] + 1
    BY <1>7, <1>8, <1>9
  <2>2. ASSUME i < j PROVE FALSE
    <3>1. i + 1 <= j /\ i + 1 \in 1 .. L + 1 /\ j \in 1 .. L + 1
      BY <1>5, <2>1, <2>2
    <3>2. f[i + 1] <= f[j] /\ f[i] \in 1 .. e + 1
      BY <1>3, <1>4, <1>5, <2>1, <3>1
    <3>. QED BY <2>1, <3>2
  <2>3. ASSUME j < i PROVE FALSE
    <3>1. j + 1 <= i /\ j + 1 \in 1 .. L + 1 /\ i \in 1 .. L + 1
      BY <1>5, <2>1, <2>3
    <3>2. f[j + 1] <= f[i] /\ f[j] \in 1 .. e + 1
      BY <1>3, <1>4, <1>5, <2>1, <3>1
    <3>. QED BY <2>1, <3>2
  <2>. QED BY <2>1, <2>2, <2>3
<1>10. ASSUME NEW k \in f[1] .. e PROVE \E i \in Z : h[i] = k
  <2>. DEFINE T == {i \in 1 .. L + 1 : f[i] > k}
  <2>1. T \subseteq Nat /\ L + 1 \in T
    BY <1>1, <1>2, <1>3, <1>4
  <2>2. PICK x \in T : \A y \in T : ~(y < x)
    BY <2>1, NatMin
  <2>3. x \in 1 .. L + 1 /\ f[x] > k /\ x # 1
    BY <1>2, <1>4
  <2>4. x - 1 \in 1 .. L /\ x - 1 \in 1 .. L + 1 /\ x - 1 < x /\ (x - 1) + 1 = x
    BY <1>1, <2>3
  <2>5. x - 1 \notin T
    BY <2>2, <2>4
  <2>6. f[x - 1] <= k /\ f[x - 1] \in 1 .. e + 1
    BY <1>2, <1>4, <2>4, <2>5
  <2>7. p[x - 1] = 0 /\ f[x] = f[x - 1] + 1
    BY <1>2, <1>3, <1>4, <2>3, <2>4, <2>6
  <2>8. x - 1 \in Z /\ f[x - 1] = k
    BY <1>1, <1>2, <1>4, <2>3, <2>4, <2>6, <2>7
  <2>. QED BY <1>8, <2>8
<1>11. h \in Bijection(Z, f[1] .. e)
  <2>1. h \in [Z -> f[1] .. e]
    BY <1>8
  <2>. HIDE DEF h, Z
  <2>. QED BY <1>9, <1>10, <2>1 DEF Bijection, Injection, Surjection, IsInjective
<1>. HIDE DEF h, Z
<1>12. Cardinality(Z) = Cardinality(f[1] .. e)
  <2>1. ExistsBijection(Z, f[1] .. e)
    BY <1>11 DEF ExistsBijection
  <2>. QED BY <1>7, <2>1, FS_Bijection
<1>13. Cardinality(f[1] .. e) = e + 1 - f[1]
  <2>1. f[1] \in Int /\ e \in Int
    BY <1>2, <1>4
  <2>2. Cardinality(f[1] .. e) = IF f[1] > e THEN 0 ELSE e - f[1] + 1
    BY <2>1, FS_Interval
  <2>. QED BY <1>2, <1>4, <2>2
<1>. QED BY <1>1, <1>6, <1>12, <1>13 DEF Z, e

(* The transport's instance of FiniteSets counts as FiniteSets does.        *)
LEMMA SameCardinality == ASSUME NEW S PROVE Ct!Cardinality(S) = Cardinality(S)
BY DEF Ct!Cardinality, Cardinality

(* What is asserted of the frames that were read is said of them by f.      *)
LEMMA TransportInvSuffices == TransportInv => LinesArriveWhole
<1>. SUFFICES ASSUME TransportInv PROVE Ct!LinesArriveWhole
  BY DEF LinesArriveWhole
<1>. DEFINE N == Len(written)
            e == Ended(written, unfinished)
            Z == {i \in DOMAIN pipe : pipe[i] = 0}
            Behind(k) == {j \in DOMAIN written : j > k /\ ~(j = N /\ unfinished)}
<1>1. /\ written \in Seq(Nat \ {0}) /\ unfinished \in BOOLEAN /\ (unfinished => written # <<>>)
      /\ pipe \in Seq(Nat) /\ streamEnded \in BOOLEAN
      /\ streamEnded => pipe = <<>> /\ Given(lines, written, N)
  BY DEF TransportInv
<1>2. N \in Nat /\ DOMAIN written = 1 .. N /\ (unfinished => N # 0) /\ e \in Nat
  BY <1>1 DEF Ended
<1>3. ASSUME NEW k \in 1 .. N, ~(k = N /\ unfinished)
      PROVE  Cardinality(Behind(k)) = e - k /\ k <= e
  <2>0. (unfinished => e = N - 1) /\ (~unfinished => e = N)
    BY DEF Ended
  <2>. HIDE DEF e, N
  <2>1. Behind(k) = k + 1 .. e /\ k <= e
    BY <1>1, <1>2, <1>3, <2>0
  <2>2. k + 1 \in Int /\ e \in Int /\ k \in Int
    BY <1>2
  <2>3. Cardinality(k + 1 .. e) = IF k + 1 > e THEN 0 ELSE e - (k + 1) + 1
    BY <2>2, FS_Interval
  <2>4. Cardinality(k + 1 .. e) = e - k
    BY <2>1, <2>2, <2>3
  <2>. QED BY <2>1, <2>4
<1>4. ASSUME NEW m \in Nat, Ct!Read = 1 .. m, Given(lines, written, m)
      PROVE  Ct!LinesArriveWhole
  <2>1. {k \in Ct!Read : written[k] <= MaxFrameBytes} = Fits(written, m)
    BY <1>4 DEF Fits
  <2>2. Ct!Cardinality(Fits(written, m)) = Cardinality(Fits(written, m))
    BY SameCardinality
  <2>3. ASSUME NEW k \in Fits(written, m)
        PROVE  lines[Ct!Cardinality({j \in Fits(written, m) : j <= k})] = Ct!Frame(k)
    <3>1. Ct!Cardinality({j \in Fits(written, m) : j <= k}) = Cardinality({j \in Fits(written, m) : j <= k})
      BY SameCardinality
    <3>. QED BY <1>4, <3>1 DEF Given, Ct!Frame
  <2>4. Len(lines) = Ct!Cardinality(Fits(written, m))
    BY <1>4, <2>2 DEF Given
  <2>. HIDE DEF N, e, Z, Behind
  <2>. QED BY <2>1, <2>3, <2>4 DEF Ct!LinesArriveWhole
<1>5. CASE streamEnded
  <2>1. pipe = <<>> /\ Z = {} /\ DOMAIN pipe = {}
    BY <1>1, <1>5
  <2>2. Cardinality(Z) = 0
    BY <2>1, FS_EmptySet
  <2>3. ASSUME NEW k \in 1 .. N, ~(k = N /\ unfinished) PROVE Cardinality(Z) <= Cardinality(Behind(k))
    <3>1. Cardinality(Behind(k)) = e - k /\ k <= e
      BY <1>3, <2>3
    <3>. HIDE DEF e, N, Z
    <3>. QED BY <1>2, <2>2, <3>1
  <2>4. Ct!Read = 1 .. N
    <3>1. ASSUME NEW k \in 1 .. N, ~(k = N /\ unfinished)
          PROVE  Ct!Cardinality({i \in DOMAIN pipe : pipe[i] = Ct!Newline})
                   <= Ct!Cardinality({j \in DOMAIN written : j > k /\ ~(j = Len(written) /\ unfinished)})
      <4>1. Ct!Cardinality(Z) = Cardinality(Z) /\ Ct!Cardinality(Behind(k)) = Cardinality(Behind(k))
        BY SameCardinality
      <4>. QED BY <2>3, <3>1, <4>1 DEF Ct!Newline
    <3>. QED BY <1>2, <1>5, <2>1, <3>1 DEF Ct!Read
  <2>. QED BY <1>1, <1>2, <1>4, <1>5, <2>4
<1>6. CASE ~streamEnded
  <2>1. PICK f, g : Way(pipe, written, unfinished, f, g) /\ HasRead(Reader, written, f[1], g[1])
    BY <1>6 DEF TransportInv, Reader
  <2>2. Cardinality(Z) = e + 1 - f[1] /\ \A i \in DOMAIN pipe : pipe[i] = 0 \/ pipe[i] >= f[1]
    BY <1>1, <2>1, NewlinesOnTheWay
  <2>3. f[1] \in 1 .. e + 1 /\ e <= N /\ (unfinished => e + 1 = N)
    <3>1. Len(pipe) \in Nat /\ 1 \in 1 .. Len(pipe) + 1
      BY <1>1
    <3>2. f[1] \in 1 .. e + 1
      BY <2>1, <3>1 DEF Way
    <3>3. (unfinished => e = N - 1) /\ (~unfinished => e = N)
      BY DEF Ended
    <3>. HIDE DEF e, N
    <3>. QED BY <1>1, <1>2, <3>2, <3>3
  <2>. DEFINE m == f[1] - 1
  <2>4. m \in Nat /\ m <= e /\ m + 1 = f[1]
    BY <1>2, <2>3
  <2>5. Given(lines, written, m)
    BY <2>1 DEF HasRead, Reader
  <2>. HIDE DEF m, e, Z, Behind, N
  <2>6. ASSUME NEW k \in 1 .. N PROVE k \in Ct!Read <=> k <= m
    <3>1. k \in Ct!Read <=> /\ \A i \in DOMAIN pipe : pipe[i] # k
                            /\ IF k = N /\ unfinished THEN streamEnded
                               ELSE Cardinality(Z) <= Cardinality(Behind(k))
      <4>1. Ct!Cardinality(Z) = Cardinality(Z) /\ Ct!Cardinality(Behind(k)) = Cardinality(Behind(k))
        BY SameCardinality
      <4>. QED BY <1>2, <4>1 DEF Ct!Read, Ct!Newline, Z, Behind, N
    <3>2. CASE k = N /\ unfinished
      BY <1>2, <1>6, <2>3, <2>4, <3>1, <3>2
    <3>3. CASE ~(k = N /\ unfinished)
      <4>1. Cardinality(Behind(k)) = e - k /\ k <= e
        BY <1>3, <3>3 DEF Behind, e
      <4>2. Cardinality(Z) <= Cardinality(Behind(k)) <=> k <= m
        BY <1>2, <2>2, <2>3, <2>4, <4>1
      <4>3. ASSUME k <= m, NEW i \in DOMAIN pipe PROVE pipe[i] # k
        <5>1. pipe[i] = 0 \/ pipe[i] >= f[1]
          BY <2>2
        <5>2. k \in Nat /\ k # 0 /\ k < f[1] /\ f[1] \in Nat
          BY <1>2, <2>3, <2>4, <4>3
        <5>3. pipe[i] \in Nat
          BY <1>1
        <5>. QED BY <5>1, <5>2, <5>3
      <4>. QED BY <3>1, <3>3, <4>2, <4>3
    <3>. QED BY <3>2, <3>3
  <2>7. Ct!Read = 1 .. m
    <3>1. Ct!Read \subseteq 1 .. N
      BY <1>2 DEF Ct!Read
    <3>2. \A k \in 1 .. m : k \in 1 .. N
      BY <1>2, <2>3, <2>4
    <3>3. \A k \in 1 .. N : k <= m => k \in 1 .. m
      BY <1>2, <2>4
    <3>4. \A k \in 1 .. m : k <= m
      BY <2>4
    <3>. QED BY <2>6, <3>1, <3>2, <3>3, <3>4
  <2>. QED BY <1>4, <2>4, <2>5, <2>7
<1>. QED BY <1>1, <1>5, <1>6

(* An agent's frames arrive whole, in order and once, and all of them but   *)
(* those over the cap, however its output is cut into chunks and wherever   *)
(* it ends (child_transport.ts).                                            *)
THEOREM LinesAlwaysArriveWhole == PartsSpec => []LinesArriveWhole
<1>1. PartsInit => TransportInv
  <2>. SUFFICES ASSUME PartsInit PROVE TransportInv
    OBVIOUS
  <2>1. /\ child = "running" /\ written = <<>> /\ unfinished = FALSE /\ pipe = <<>>
        /\ buf = <<>> /\ dropUntilNewline = FALSE /\ lines = <<>> /\ streamEnded = FALSE
    BY DEF PartsInit, Ct!Init
  <2>2. /\ written \in Seq(Nat \ {0}) /\ pipe \in Seq(Nat) /\ buf \in Seq(Nat) /\ lines \in Seq(Seq(Nat))
        /\ Len(written) = 0 /\ Len(pipe) = 0 /\ Len(buf) = 0 /\ Len(lines) = 0
    BY <2>1
  <2>. DEFINE f == [i \in 1 .. 1 |-> 1]
              g == [i \in 1 .. 1 |-> 0]
  <2>3. Way(pipe, written, unfinished, f, g)
    BY <2>1, <2>2 DEF Way, Ended
  <2>4. HasRead(Reader, written, f[1], g[1])
    <3>1. Reader \in ReaderType /\ ~Reader.dropping /\ Reader.lines = lines /\ Reader.buf = <<>>
      BY <2>1, <2>2 DEF Reader, ReaderType
    <3>2. Fits(written, 0) = {} /\ Cardinality({}) = 0
      BY FS_EmptySet DEF Fits
    <3>3. Given(lines, written, 0)
      BY <2>2, <3>2 DEF Given
    <3>4. f[1] = 1 /\ g[1] = 0 /\ <<>> = [i \in 1 .. 0 |-> 1]
      OBVIOUS
    <3>. HIDE DEF f, g
    <3>. QED BY <3>1, <3>3, <3>4 DEF HasRead
  <2>. HIDE DEF f, g
  <2>5. \E x, y : Way(pipe, written, unfinished, x, y) /\ HasRead(Reader, written, x[1], y[1])
    BY <2>3, <2>4
  <2>6. written \in Seq(Nat \ {0}) /\ Len(buf) <= MaxFrameBytes
    BY <2>2, CapAssumption
  <2>. QED BY <2>1, <2>2, <2>5, <2>6 DEF TransportInv, Reader
<1>2. TransportInv /\ [PartsNext]_allVars => TransportInv'
  BY TransportKept
<1>. QED BY <1>1, <1>2, TransportInvSuffices, PTL DEF PartsSpec, allVars

-----------------------------------------------------------------------------
(* The end of what is waited for *)

(* While `makit wait` waits for a session that is gone, and did not miss it, *)
(* the news is on the line behind the replay. A process that was disposed   *)
(* of has been reaped, is to be reaped, was killed, or is to be.            *)
NoEndIsForgotten ==
  /\ pc = "waiting" /\ status = "exited" /\ ~missed =>
       \E i \in 1 .. Len(net) : net[i] = "exited" /\ IsNew(i)
  /\ disposed => settled \/ child = "exited" \/ killTimer \/ sigkilled

(* Beside the property: whoever follows has the ack, or it is on the line;  *)
(* and onExit is called for a child that was reaped.                        *)
EndInv ==
  /\ NoEndIsForgotten
  /\ following => replayed \/ \E j \in 1 .. Len(net) : net[j] = "ack"
  /\ settled = (child = "reaped")

Announced == \E i \in 1 .. Len(net) : net[i] = "exited" /\ IsNew(i)
AckIsThere == replayed \/ \E j \in 1 .. Len(net) : net[j] = "ack"

(* What is recorded while the command follows comes after the ack.          *)
LEMMA RecordedIsAnnounced ==
  ASSUME WaitInv, NEW e \in Frames, Cw!Records(e), following => AckIsThere
  PROVE  /\ following => AckIsThere'
         /\ following /\ (Announced \/ e = "exited") => Announced'
<1>1. UNCHANGED <<following, replayed>> /\ net \in Seq(Frames)
  BY DEF Cw!Records, WaitInv
<1>. SUFFICES ASSUME following PROVE AckIsThere' /\ (Announced \/ e = "exited" => Announced')
  OBVIOUS
<1>2. /\ net' = Append(net, e) /\ Len(net) \in Nat /\ Len(net') = Len(net) + 1
      /\ net'[Len(net) + 1] = e /\ \A i \in 1 .. Len(net) : net'[i] = net[i]
  BY <1>1 DEF Cw!Records
<1>3. AckIsThere'
  BY <1>1, <1>2 DEF AckIsThere
<1>4. ASSUME NEW i \in 1 .. Len(net), net[i] = "exited", IsNew(i) PROVE Announced'
  BY <1>1, <1>2, <1>4 DEF IsNew, Announced
<1>5. ASSUME e = "exited" PROVE Announced'
  <2>1. PICK k \in Nat : k = Len(net) + 1
    BY <1>2
  <2>2. k \in 1 .. Len(net') /\ net'[k] = "exited" /\ 1 .. k - 1 = 1 .. Len(net)
    BY <1>2, <1>5, <2>1
  <2>3. IsNew(k)'
    BY <1>1, <1>2, <2>2 DEF IsNew, AckIsThere
  <2>. QED BY <2>2, <2>3 DEF Announced, IsNew
<1>. QED BY <1>3, <1>4, <1>5 DEF Announced

(* A frame that is taken off the line leaves the others behind what it was. *)
LEMMA TakenIsAnnounced ==
  ASSUME WaitInv, Cw!OnFrame, following => AckIsThere
  PROVE  AckIsThere' /\ (Announced /\ pc' = "waiting" => Announced')
<1>1. /\ pc = "waiting" /\ net # <<>> /\ net' = Tail(net) /\ net \in Seq(Frames) /\ following
  BY DEF Cw!OnFrame, WaitInv
<1>2. /\ Len(net) \in Nat \ {0} /\ Head(net) = net[1] /\ Len(net') = Len(net) - 1
      /\ \A i \in 1 .. Len(net) - 1 : net'[i] = net[i + 1]
  BY <1>1
<1>3. replayed' \/ (~replayed /\ net[1] # "ack")
  BY <1>1, <1>2 DEF Cw!OnFrame, WaitInv
<1>4. \A i \in 2 .. Len(net) : i - 1 \in 1 .. Len(net') /\ net'[i - 1] = net[i]
  BY <1>2
<1>5. AckIsThere'
  <2>1. CASE replayed'
    BY <2>1 DEF AckIsThere
  <2>2. CASE ~replayed'
    <3>1. PICK j \in 1 .. Len(net) : net[j] = "ack"
      BY <1>1, <1>3, <2>2 DEF AckIsThere
    <3>2. j \in 2 .. Len(net)
      BY <1>2, <1>3, <2>2, <3>1
    <3>. QED BY <1>4, <3>1, <3>2 DEF AckIsThere
  <2>. QED BY <2>1, <2>2
<1>6. ASSUME Announced, pc' = "waiting" PROVE Announced'
  <2>1. PICK i \in 1 .. Len(net) : net[i] = "exited" /\ IsNew(i)
    BY <1>6 DEF Announced
  <2>2. i # 1
    <3>. SUFFICES ASSUME i = 1 PROVE FALSE
      OBVIOUS
    <3>1. replayed /\ Head(net) = "exited"
      BY <1>2, <2>1 DEF IsNew
    <3>. QED BY <1>6, <3>1 DEF Cw!OnFrame, Cw!Counts, Cw!CodeForStatus, Cw!Wanted, Cw!Settle
  <2>3. i \in 2 .. Len(net)
    BY <1>2, <2>1, <2>2
  <2>4. IsNew(i - 1)'
    <3>1. CASE replayed'
      BY <3>1 DEF IsNew
    <3>2. CASE ~replayed'
      <4>1. PICK j \in 1 .. i - 1 : net[j] = "ack"
        BY <1>3, <2>1, <3>2 DEF IsNew
      <4>2. j \in 2 .. Len(net) /\ j - 1 \in 1 .. (i - 1) - 1
        BY <1>2, <1>3, <2>3, <3>2, <4>1
      <4>3. net'[j - 1] = "ack"
        BY <1>4, <4>1, <4>2
      <4>. QED BY <4>2, <4>3 DEF IsNew
    <3>. QED BY <3>1, <3>2
  <2>. QED BY <1>4, <2>1, <2>3, <2>4 DEF Announced
<1>. QED BY <1>5, <1>6

LEMMA WaitEndKept ==
  ASSUME WaitInv, EndInv, Cw!Next, UNCHANGED ctVars
  PROVE  EndInv'
<1>. DEFINE Told == pc = "waiting" /\ status = "exited" /\ ~missed => Announced
<1>1. Told /\ (following => AckIsThere)
  BY DEF EndInv, NoEndIsForgotten, Announced, AckIsThere
<1>2. ASSUME Told', following' => AckIsThere' PROVE EndInv'
  BY <1>2 DEF EndInv, NoEndIsForgotten, Announced, AckIsThere, ctVars
<1>3. ASSUME NEW e \in Frames, Cw!Records(e), status' = "exited" => e = "exited"
      PROVE  EndInv'
  <2>1. following' = following /\ pc' = pc
    BY <1>3 DEF Cw!Records
  <2>2. following' => AckIsThere'
    BY <1>1, <1>3, <2>1, RecordedIsAnnounced
  <2>3. ASSUME pc = "waiting", status' = "exited", ~missed' PROVE Announced'
    <3>1. CASE following
      BY <1>1, <1>3, <2>3, <3>1, RecordedIsAnnounced
    <3>2. CASE ~following
      BY <1>1, <1>3, <2>3, <3>2 DEF Cw!Records, Cw!Lasting
    <3>. QED BY <3>1, <3>2
  <2>. QED BY <1>2, <2>1, <2>2, <2>3
<1>4. ASSUME NEW s \in Cw!Statuses, Cw!StatusChanges(s) PROVE EndInv'
  BY <1>3, <1>4 DEF Cw!StatusChanges, Frames
<1>5. CASE Cw!TurnFails
  BY <1>3, <1>5 DEF Cw!TurnFails, Frames
<1>6. CASE Cw!Snapshot
  <2>1. pc' = "waiting" => status # "exited"
    BY <1>6 DEF Cw!Snapshot, Cw!CodeForStatus, Cw!Wanted, Cw!Settle
  <2>2. UNCHANGED <<status, following, net, replayed>>
    BY <1>6 DEF Cw!Snapshot, Cw!session
  <2>. QED BY <1>1, <1>2, <2>1, <2>2 DEF AckIsThere
<1>7. CASE Cw!HandleSub
  <2>1. /\ pc = "waiting" /\ ~following /\ net' = Append(log, "ack") /\ log \in Seq(Frames \ {"ack"})
        /\ net = <<>> /\ UNCHANGED <<pc, status, missed>>
    BY <1>7 DEF Cw!HandleSub, Cw!session, WaitInv
  <2>2. ~(status = "exited" /\ ~missed)
    BY <1>1, <2>1 DEF Announced
  <2>3. AckIsThere'
    <3>1. Len(log) \in Nat /\ Len(net') = Len(log) + 1 /\ net'[Len(log) + 1] = "ack"
      BY <2>1
    <3>. QED BY <3>1 DEF AckIsThere
  <2>. QED BY <1>2, <2>1, <2>2, <2>3
<1>8. CASE Cw!OnFrame
  <2>1. UNCHANGED <<status, missed, following>> /\ pc = "waiting"
    BY <1>8 DEF Cw!OnFrame, Cw!session
  <2>2. AckIsThere' /\ (Announced /\ pc' = "waiting" => Announced')
    BY <1>1, <1>8, TakenIsAnnounced
  <2>. QED BY <1>1, <1>2, <2>1, <2>2
<1>9. CASE Cw!TimesOut \/ Cw!ConnectionLost
  BY <1>1, <1>2, <1>9 DEF Cw!TimesOut, Cw!ConnectionLost, Cw!Settle, Cw!session, AckIsThere
<1>. QED BY <1>4, <1>5, <1>6, <1>7, <1>8, <1>9 DEF Cw!Next

LEMMA EndKept ==
  ASSUME WaitInv, EndInv, [PartsNext]_allVars
  PROVE  EndInv'
<1>. USE DEF ctVars, cwVars
<1>1. CASE Cw!Next /\ UNCHANGED ctVars
  BY <1>1, WaitEndKept
<1>2. ASSUME UNCHANGED cwVars,
             /\ disposed' => settled' \/ child' = "exited" \/ killTimer' \/ sigkilled'
             /\ settled' = (child' = "reaped")
      PROVE  EndInv'
  BY <1>2 DEF EndInv, NoEndIsForgotten, IsNew
<1>3. CASE UNCHANGED <<cwVars, ctVars>>
  BY <1>2, <1>3 DEF EndInv, NoEndIsForgotten
<1>4. CASE Ct!Next /\ UNCHANGED cwVars
  <2>. USE DEF EndInv, NoEndIsForgotten
  <2>1. CASE Ct!WriteByte \/ Ct!EndFrame \/ Ct!StreamEnds \/ \E n \in 1 .. MaxChunk : Ct!Data(n)
    BY <1>2, <1>4, <2>1 DEF Ct!WriteByte, Ct!EndFrame, Ct!StreamEnds, Ct!Data, Ct!reader, Ct!killer, Ct!output
  <2>2. CASE Ct!Exits \/ Ct!Killed
    BY <1>2, <1>4, <2>2 DEF Ct!Exits, Ct!Killed, Ct!killer
  <2>3. CASE Ct!Reaped
    BY <1>2, <1>4, <2>3 DEF Ct!Reaped
  <2>4. CASE Ct!Dispose
    BY <1>2, <1>4, <2>4 DEF Ct!Dispose, Ct!Escalate
  <2>5. CASE Ct!GraceEnds
    BY <1>2, <1>4, <2>5 DEF Ct!GraceEnds
  <2>. QED BY <1>4, <2>1, <2>2, <2>3, <2>4, <2>5 DEF Ct!Next
<1>. QED BY <1>1, <1>3, <1>4 DEF PartsNext, allVars

(* The news that a session is gone reaches `makit wait`, unless it was      *)
(* missed, and a process that was disposed of is never left alone, though   *)
(* its timer, its exit and the reaping come in any order (cli/wait.ts,      *)
(* child_transport.ts).                                                     *)
THEOREM NoEndIsEverForgotten == PartsSpec => []NoEndIsForgotten
<1>1. PartsInit => WaitInv /\ EndInv
  <2>1. PartsInit => WaitInv
    BY WaitInit
  <2>2. PartsInit => EndInv
    BY DEF PartsInit, Cw!Init, Ct!Init, EndInv, NoEndIsForgotten
  <2>. QED BY <2>1, <2>2
<1>2. WaitInv /\ [PartsNext]_allVars => WaitInv'
  BY WaitKept
<1>3. WaitInv /\ EndInv /\ [PartsNext]_allVars => EndInv'
  BY EndKept
<1>4. EndInv => NoEndIsForgotten
  BY DEF EndInv
<1>. QED BY <1>1, <1>2, <1>3, <1>4, PTL DEF PartsSpec, allVars

-----------------------------------------------------------------------------
(* Sums over finite sets *)

(* Induction over the subsets of a finite set.                              *)
LEMMA SubsetInd ==
  ASSUME NEW U, IsFiniteSet(U), NEW Q, {} \in Q,
         \A A \in SUBSET U : A # {} /\ (\A x \in A : A \ {x} \in Q) => A \in Q
  PROVE  SUBSET U \subseteq Q
<1>. DEFINE S == {n \in Nat : \A A \in SUBSET U : Cardinality(A) = n => A \in Q}
<1>1. \A A \in SUBSET U : IsFiniteSet(A) /\ Cardinality(A) \in Nat
  BY FS_Subset, FS_CardinalityType
<1>2. 0 \in S
  BY <1>1, FS_EmptySet
<1>3. ASSUME NEW n \in Nat, n \in S PROVE n + 1 \in S
  <2>. SUFFICES ASSUME NEW A \in SUBSET U, Cardinality(A) = n + 1 PROVE A \in Q
    OBVIOUS
  <2>1. A # {}
    BY <1>1, FS_EmptySet
  <2>2. ASSUME NEW x \in A PROVE A \ {x} \in Q
    <3>1. Cardinality(A \ {x}) = n
      BY <1>1, FS_RemoveElement
    <3>2. A \ {x} \in SUBSET U
      OBVIOUS
    <3>. QED BY <1>3, <3>1, <3>2
  <2>. QED BY <2>1, <2>2
<1>. HIDE DEF S
<1>4. Nat \subseteq S
  BY <1>2, <1>3, NatInd
<1>. QED BY <1>1, <1>4 DEF S

(* What a sum is computed by.                                               *)
OneOf(A) == CHOOSE x \in A : TRUE
SumStep(h, f, A) == IF A = {} THEN 0 ELSE f[OneOf(A)] + h[A \ {OneOf(A)}]
Sums(h, f, U) == h \in [SUBSET U -> Nat] /\ \A A \in SUBSET U : h[A] = SumStep(h, f, A)

LEMMA SumsExist ==
  ASSUME NEW U, IsFiniteSet(U), NEW f, \A x \in U : f[x] \in Nat
  PROVE  \E h : Sums(h, f, U)
<1>. DEFINE Small(n) == {A \in SUBSET U : Cardinality(A) <= n}
            Good(h, n) == h \in [Small(n) -> Nat] /\ \A A \in Small(n) : h[A] = SumStep(h, f, A)
            S == {n \in Nat : \E h : Good(h, n)}
<1>1. \A A \in SUBSET U : IsFiniteSet(A) /\ Cardinality(A) \in Nat
  BY FS_Subset, FS_CardinalityType
<1>2. ASSUME NEW A \in SUBSET U, A # {}
      PROVE  /\ OneOf(A) \in A /\ f[OneOf(A)] \in Nat
             /\ A \ {OneOf(A)} \in SUBSET U /\ Cardinality(A \ {OneOf(A)}) = Cardinality(A) - 1
             /\ Cardinality(A) # 0
  <2>1. OneOf(A) \in A
    BY <1>2 DEF OneOf
  <2>. QED BY <1>1, <1>2, <2>1, FS_RemoveElement, FS_EmptySet
<1>3. 0 \in S
  <2>. DEFINE h == [A \in Small(0) |-> 0]
  <2>1. ASSUME NEW A \in Small(0) PROVE A = {}
    <3>1. A \in SUBSET U /\ Cardinality(A) = 0
      BY <1>1
    <3>. QED BY <1>2, <3>1
  <2>2. Good(h, 0)
    BY <2>1 DEF SumStep
  <2>. QED BY <2>2
<1>4. ASSUME NEW n \in Nat, n \in S PROVE n + 1 \in S
  <2>1. PICK h : Good(h, n)
    BY <1>4
  <2>. DEFINE g == [A \in Small(n + 1) |-> SumStep(h, f, A)]
  <2>2. ASSUME NEW A \in Small(n + 1), A # {} PROVE A \ {OneOf(A)} \in Small(n) /\ A \ {OneOf(A)} \in Small(n + 1)
    BY <1>1, <1>2, <2>2
  <2>3. \A A \in Small(n) : A \in Small(n + 1)
    BY <1>1
  <2>. HIDE DEF Small
  <2>4. \A A \in Small(n + 1) : A \in SUBSET U
    BY DEF Small
  <2>5. ASSUME NEW A \in Small(n + 1) PROVE SumStep(h, f, A) \in Nat
    <3>1. CASE A = {}
      BY <3>1 DEF SumStep
    <3>2. CASE A # {}
      <4>1. h[A \ {OneOf(A)}] \in Nat
        BY <2>1, <2>2, <3>2
      <4>2. f[OneOf(A)] \in Nat
        BY <1>2, <2>4, <3>2
      <4>3. SumStep(h, f, A) = f[OneOf(A)] + h[A \ {OneOf(A)}]
        BY <3>2 DEF SumStep
      <4>. QED BY <4>1, <4>2, <4>3
    <3>. QED BY <3>1, <3>2
  <2>6. g \in [Small(n + 1) -> Nat]
    BY <2>5
  <2>7. \A A \in Small(n) : g[A] = h[A]
    BY <2>1, <2>3
  <2>8. ASSUME NEW A \in Small(n + 1) PROVE g[A] = SumStep(g, f, A)
    <3>1. CASE A = {}
      BY <3>1 DEF SumStep
    <3>2. CASE A # {}
      <4>1. g[A \ {OneOf(A)}] = h[A \ {OneOf(A)}]
        BY <2>2, <2>7, <3>2
      <4>2. g[A] = f[OneOf(A)] + h[A \ {OneOf(A)}]
        BY <3>2 DEF SumStep
      <4>. QED BY <3>2, <4>1, <4>2 DEF SumStep
    <3>. QED BY <3>1, <3>2
  <2>. HIDE DEF g
  <2>9. Good(g, n + 1)
    BY <2>6, <2>8
  <2>. QED BY <2>9
<1>. HIDE DEF S
<1>5. Nat \subseteq S
  BY <1>3, <1>4, NatInd
<1>6. Cardinality(U) \in Nat
  BY FS_CardinalityType
<1>7. PICK h : Good(h, Cardinality(U))
  BY <1>5, <1>6 DEF S
<1>8. Small(Cardinality(U)) = SUBSET U
  <2>1. \A A \in SUBSET U : Cardinality(A) <= Cardinality(U)
    BY FS_Subset
  <2>. QED BY <2>1
<1>. QED BY <1>7, <1>8 DEF Sums

(* And so a sum over a subset is what they say.                             *)
LEMMA SumIs ==
  ASSUME NEW U, IsFiniteSet(U), NEW f, NEW h, Sums(h, f, U), NEW T \in SUBSET U
  PROVE  SumFunctionOnSet(f, T) = h[T]
<1>. DEFINE it == CHOOSE k : k = [A \in SUBSET T |-> SumStep(k, f, A)]
            r == [A \in SUBSET T |-> h[A]]
<1>1. SumFunctionOnSet(f, T) = it[T]
  BY DEF SumFunctionOnSet, FoldFunctionOnSet, MapThenFoldSet, SumStep, OneOf
<1>2. \A A \in SUBSET T : A \in SUBSET U /\ A \ {OneOf(A)} \in SUBSET T
  OBVIOUS
<1>3. ASSUME NEW A \in SUBSET T PROVE r[A] = SumStep(r, f, A)
  BY <1>2 DEF Sums, SumStep
<1>4. r = [A \in SUBSET T |-> SumStep(r, f, A)]
  BY <1>3
<1>5. it = [A \in SUBSET T |-> SumStep(it, f, A)]
  <2>. HIDE DEF r
  <2>. QED BY <1>4
<1>. HIDE DEF it
<1>. DEFINE Q == {A \in SUBSET T : it[A] = h[A]}
<1>6. {} \in Q
  <2>1. it[{}] = SumStep(it, f, {}) /\ h[{}] = SumStep(h, f, {})
    BY <1>5 DEF Sums
  <2>. QED BY <2>1 DEF SumStep
<1>7. ASSUME NEW A \in SUBSET T, A # {}, \A x \in A : A \ {x} \in Q PROVE A \in Q
  <2>1. OneOf(A) \in A
    BY <1>7 DEF OneOf
  <2>2. it[A \ {OneOf(A)}] = h[A \ {OneOf(A)}]
    BY <1>7, <2>1
  <2>3. it[A] = SumStep(it, f, A) /\ h[A] = SumStep(h, f, A)
    BY <1>2, <1>5 DEF Sums
  <2>. QED BY <1>7, <2>2, <2>3 DEF SumStep
<1>8. IsFiniteSet(T)
  BY FS_Subset
<1>. HIDE DEF Q
<1>9. SUBSET T \subseteq Q
  BY <1>6, <1>7, <1>8, SubsetInd
<1>10. T \in Q
  BY <1>9
<1>. QED BY <1>1, <1>10 DEF Q

(* Any element can be added last.                                           *)
LEMMA SumFacts ==
  ASSUME NEW T, IsFiniteSet(T), NEW f, \A x \in T : f[x] \in Nat
  PROVE  /\ SumFunctionOnSet(f, T) \in Nat
         /\ T = {} => SumFunctionOnSet(f, T) = 0
         /\ \A x \in T : SumFunctionOnSet(f, T) = f[x] + SumFunctionOnSet(f, T \ {x})
<1>1. PICK h : Sums(h, f, T)
  BY SumsExist
<1>2. \A A \in SUBSET T : SumFunctionOnSet(f, A) = h[A]
  BY <1>1, SumIs
<1>3. \A A \in SUBSET T : h[A] \in Nat /\ h[A] = SumStep(h, f, A)
  BY <1>1 DEF Sums
<1>. DEFINE Q == {A \in SUBSET T : \A x \in A : h[A] = f[x] + h[A \ {x}]}
<1>4. {} \in Q
  OBVIOUS
<1>5. ASSUME NEW A \in SUBSET T, A # {}, \A x \in A : A \ {x} \in Q PROVE A \in Q
  <2>. SUFFICES ASSUME NEW x \in A PROVE h[A] = f[x] + h[A \ {x}]
    OBVIOUS
  <2>. DEFINE c == OneOf(A)
  <2>1. c \in A /\ h[A] = f[c] + h[A \ {c}]
    BY <1>3, <1>5 DEF SumStep, OneOf
  <2>. HIDE DEF c
  <2>2. CASE x = c
    BY <2>1, <2>2
  <2>3. CASE x # c
    <3>1. x \in A \ {c} /\ c \in A \ {x} /\ (A \ {c}) \ {x} = (A \ {x}) \ {c}
      BY <2>1, <2>3
    <3>2. h[A \ {c}] = f[x] + h[(A \ {c}) \ {x}]
      BY <1>5, <2>1, <3>1
    <3>3. h[A \ {x}] = f[c] + h[(A \ {x}) \ {c}]
      BY <1>5, <3>1
    <3>. DEFINE z == h[(A \ {x}) \ {c}]
    <3>4. z \in Nat /\ f[x] \in Nat /\ f[c] \in Nat
      BY <1>3, <2>1
    <3>5. h[A] = f[c] + (f[x] + z) /\ h[A \ {x}] = f[c] + z
      BY <2>1, <3>1, <3>2, <3>3
    <3>. HIDE DEF z
    <3>. QED BY <3>4, <3>5
  <2>. QED BY <2>2, <2>3
<1>. HIDE DEF Q
<1>6. SUBSET T \subseteq Q
  BY <1>4, <1>5, SubsetInd
<1>7. \A x \in T : h[T] = f[x] + h[T \ {x}]
  BY <1>6 DEF Q
<1>. QED BY <1>2, <1>3, <1>7 DEF SumStep

(* The sum over two sets that are disjoint.                                 *)
LEMMA SumAdds ==
  ASSUME NEW T, IsFiniteSet(T), NEW f, \A x \in T : f[x] \in Nat,
         NEW A \in SUBSET T, NEW B \in SUBSET T, A \cap B = {}
  PROVE  SumFunctionOnSet(f, A \cup B) = SumFunctionOnSet(f, A) + SumFunctionOnSet(f, B)
<1>. DEFINE Sum(X) == SumFunctionOnSet(f, X)
<1>1. ASSUME NEW X \in SUBSET T
      PROVE  /\ Sum(X) \in Nat /\ (X = {} => Sum(X) = 0)
             /\ \A x \in X : Sum(X) = f[x] + Sum(X \ {x})
  <2>1. IsFiniteSet(X) /\ \A x \in X : f[x] \in Nat
    BY FS_Subset
  <2>. QED BY <2>1, SumFacts
<1>. HIDE DEF Sum
<1>. DEFINE Q == {X \in SUBSET B : Sum(A \cup X) = Sum(A) + Sum(X)}
<1>2. {} \in Q
  <2>1. A \cup {} = A /\ Sum({}) = 0 /\ Sum(A) \in Nat
    BY <1>1
  <2>. QED BY <2>1
<1>3. ASSUME NEW X \in SUBSET B, X # {}, \A x \in X : X \ {x} \in Q PROVE X \in Q
  <2>1. PICK x \in X : TRUE
    BY <1>3
  <2>2. A \cup X \in SUBSET T /\ x \in A \cup X /\ (A \cup X) \ {x} = A \cup (X \ {x})
    OBVIOUS
  <2>3. Sum(A \cup X) = f[x] + Sum(A \cup (X \ {x}))
    BY <1>1, <2>2
  <2>4. X \in SUBSET T /\ Sum(X) = f[x] + Sum(X \ {x})
    BY <1>1
  <2>5. Sum(A \cup (X \ {x})) = Sum(A) + Sum(X \ {x})
    BY <1>3
  <2>6. f[x] \in Nat /\ Sum(A) \in Nat /\ Sum(X \ {x}) \in Nat
    BY <1>1, <2>4
  <2>7. f[x] + (Sum(A) + Sum(X \ {x})) = Sum(A) + (f[x] + Sum(X \ {x}))
    BY <2>6
  <2>. QED BY <2>3, <2>4, <2>5, <2>7
<1>4. IsFiniteSet(B)
  BY FS_Subset
<1>. HIDE DEF Q
<1>5. SUBSET B \subseteq Q
  BY <1>2, <1>3, <1>4, SubsetInd
<1>6. B \in Q
  BY <1>5
<1>. QED BY <1>6 DEF Q, Sum

(* What is larger in each element has the larger sum.                       *)
LEMMA SumGrows ==
  ASSUME NEW T, IsFiniteSet(T), NEW f, NEW g, \A x \in T : f[x] \in Nat /\ g[x] \in Nat /\ f[x] <= g[x]
  PROVE  SumFunctionOnSet(f, T) <= SumFunctionOnSet(g, T)
<1>. DEFINE F(X) == SumFunctionOnSet(f, X)
            G(X) == SumFunctionOnSet(g, X)
<1>1. ASSUME NEW X \in SUBSET T
      PROVE  /\ F(X) \in Nat /\ (X = {} => F(X) = 0) /\ \A x \in X : F(X) = f[x] + F(X \ {x})
             /\ G(X) \in Nat /\ (X = {} => G(X) = 0) /\ \A x \in X : G(X) = g[x] + G(X \ {x})
  <2>1. IsFiniteSet(X) /\ \A x \in X : f[x] \in Nat /\ g[x] \in Nat
    BY FS_Subset
  <2>. QED BY <2>1, SumFacts
<1>. HIDE DEF F, G
<1>. DEFINE Q == {X \in SUBSET T : F(X) <= G(X)}
<1>2. {} \in Q
  BY <1>1
<1>3. ASSUME NEW X \in SUBSET T, X # {}, \A x \in X : X \ {x} \in Q PROVE X \in Q
  <2>1. PICK x \in X : TRUE
    BY <1>3
  <2>2. F(X) = f[x] + F(X \ {x}) /\ G(X) = g[x] + G(X \ {x}) /\ F(X \ {x}) <= G(X \ {x})
    BY <1>1, <1>3
  <2>3. f[x] \in Nat /\ g[x] \in Nat /\ f[x] <= g[x] /\ F(X \ {x}) \in Nat /\ G(X \ {x}) \in Nat
    BY <1>1
  <2>. QED BY <2>2, <2>3
<1>. HIDE DEF Q
<1>4. SUBSET T \subseteq Q
  BY <1>2, <1>3, SubsetInd
<1>5. T \in Q
  BY <1>4
<1>. QED BY <1>5 DEF Q, F, G

-----------------------------------------------------------------------------
(* The ledger of CPU time *)

(* The ledger's instance of Functions sums as Functions does.               *)
LEMMA SameSum == ASSUME NEW f, NEW T PROVE Cl!SumFunctionOnSet(f, T) = SumFunctionOnSet(f, T)
BY DEF Cl!SumFunctionOnSet, Cl!FoldFunctionOnSet, Cl!MapThenFoldSet,
       SumFunctionOnSet, FoldFunctionOnSet, MapThenFoldSet

Process == [ppid : Pids \cup {0}, cpu : Nat, comm : Comms \cup {"agent", "none"}]

(* A row without a name is no process; a process's parent lives.            *)
MachineInv ==
  /\ proc \in [Pids -> Process]
  /\ \A p \in Pids : proc[p].comm = "none" => proc[p] = Cl!Gone
  /\ \A p \in Cl!Alive : proc[p].ppid \in Cl!Alive \cup {0}
  /\ proc[Root].comm = "agent"

(* The pids in `same` are of the tree and of the process the ledger knows,   *)
(* which was used no less than it charged; and with what the others cost     *)
(* when they were last seen, and what all of the tree has used, the charge   *)
(* would still not exceed what was spent.                                   *)
Accounted(same) ==
  /\ same \subseteq DOMAIN live \cap Cl!Descendants
  /\ \A p \in same : proc[p].comm = live[p].comm /\ proc[p].cpu >= live[p].seconds
  /\ base + SumFunctionOnSet(Cl!Seconds, DOMAIN live \ same) + SumFunctionOnSet(Cl!Cpu, Cl!Descendants)
       <= spent

LedgerInv ==
  /\ MachineInv
  /\ base \in Nat /\ total \in Nat /\ spent \in Nat
  /\ DOMAIN live \subseteq Pids
  /\ live \in [DOMAIN live -> [seconds : Nat, comm : Comms \cup {"agent", "none"}]]
  /\ total = base + SumFunctionOnSet(Cl!Seconds, DOMAIN live)
  /\ \E same : Accounted(same)

(* Who is alive has a name, and the tree is the least closed set.           *)
LEMMA TreeIsLeast ==
  ASSUME MachineInv
  PROVE  /\ Cl!Alive = {p \in Pids : proc[p].comm # "none"}
         /\ Root \in Cl!Descendants /\ Cl!Descendants \subseteq Cl!Alive /\ IsFiniteSet(Cl!Descendants)
         /\ \A q \in Cl!Alive : proc[q].ppid \in Cl!Descendants => q \in Cl!Descendants
         /\ \A S \in SUBSET Cl!Alive : Root \in S /\ (\A q \in Cl!Alive : proc[q].ppid \in S => q \in S)
                                       => Cl!Descendants \subseteq S
<1>1. Cl!Gone.comm = "none"
  BY DEF Cl!Gone, Cl!Row
<1>2. Cl!Alive = {p \in Pids : proc[p].comm # "none"}
  BY <1>1 DEF Cl!Alive, MachineInv
<1>3. Root \in Cl!Alive /\ Cl!Alive \subseteq Pids
  BY <1>2, PidsAssumption DEF MachineInv
<1>. DEFINE Closed(S) == Root \in S /\ \A q \in Cl!Alive : proc[q].ppid \in S => q \in S
<1>4. Cl!Descendants = {p \in Cl!Alive : \A S \in SUBSET Cl!Alive : Closed(S) => p \in S}
  BY DEF Cl!Descendants
<1>5. Root \in Cl!Descendants /\ Cl!Descendants \subseteq Cl!Alive
  BY <1>3, <1>4
<1>6. IsFiniteSet(Cl!Descendants)
  BY <1>3, <1>5, PidsAssumption, FS_Subset
<1>7. ASSUME NEW q \in Cl!Alive, proc[q].ppid \in Cl!Descendants PROVE q \in Cl!Descendants
  BY <1>4, <1>7
<1>8. ASSUME NEW S \in SUBSET Cl!Alive, Closed(S) PROVE Cl!Descendants \subseteq S
  BY <1>4, <1>8
<1>. QED BY <1>2, <1>5, <1>6, <1>7, <1>8

(* What is summed is natural.                                               *)
LEMMA SumsAreNatural ==
  ASSUME LedgerInv
  PROVE  /\ \A p \in DOMAIN live : Cl!Seconds[p] = live[p].seconds /\ Cl!Seconds[p] \in Nat
         /\ \A p \in Pids : Cl!Cpu[p] = proc[p].cpu /\ Cl!Cpu[p] \in Nat
         /\ IsFiniteSet(DOMAIN live) /\ IsFiniteSet(Pids)
<1>1. \A p \in Pids : proc[p].cpu \in Nat
  BY DEF LedgerInv, MachineInv, Process
<1>2. \A p \in DOMAIN live : live[p].seconds \in Nat
  BY DEF LedgerInv
<1>3. IsFiniteSet(DOMAIN live) /\ IsFiniteSet(Pids)
  BY PidsAssumption, FS_Subset DEF LedgerInv
<1>. QED BY <1>1, <1>2, <1>3 DEF Cl!Seconds, Cl!Cpu

(* Sums of the same values are the same.                                    *)
LEMMA SumSame ==
  ASSUME NEW T, IsFiniteSet(T), NEW f, NEW g, \A x \in T : f[x] \in Nat /\ g[x] = f[x]
  PROVE  SumFunctionOnSet(f, T) = SumFunctionOnSet(g, T)
<1>1. SumFunctionOnSet(f, T) \in Nat /\ SumFunctionOnSet(g, T) \in Nat
  BY SumFacts
<1>2. SumFunctionOnSet(f, T) <= SumFunctionOnSet(g, T) /\ SumFunctionOnSet(g, T) <= SumFunctionOnSet(f, T)
  BY SumGrows
<1>. QED BY <1>1, <1>2

(* A process comes to the tree with no time used, and when it leaves it, the *)
(* ledger still owes no more than the process used.                         *)
LEMMA ComingAndGoing ==
  ASSUME LedgerInv, MachineInv', UNCHANGED <<base, live, total, spent>>, NEW z \in Pids,
         Cl!Descendants' \subseteq Cl!Descendants \cup {z}, z \in Cl!Descendants' => z \notin Cl!Descendants,
         \A p \in Pids \ {z} : proc'[p].cpu = proc[p].cpu /\ proc'[p].comm = proc[p].comm,
         z \in Cl!Descendants' => proc'[z].cpu = 0
  PROVE  LedgerInv'
<1>. DEFINE D == Cl!Descendants
            E == Cl!Descendants'
            sec == Cl!Seconds
            c == Cl!Cpu
            e == Cl!Cpu'
<1>1. PICK same : Accounted(same)
  BY DEF LedgerInv
<1>. DEFINE stay == same \cap E
            gone == same \ E
            rest == DOMAIN live \ same
<1>2. /\ \A p \in DOMAIN live : sec[p] = live[p].seconds /\ sec[p] \in Nat
      /\ \A p \in Pids : c[p] = proc[p].cpu /\ c[p] \in Nat
      /\ IsFiniteSet(DOMAIN live) /\ IsFiniteSet(Pids) /\ DOMAIN live \subseteq Pids
      /\ base \in Nat /\ total \in Nat /\ spent \in Nat
  BY SumsAreNatural DEF LedgerInv
<1>3. D \subseteq Pids /\ E \subseteq Pids
  <2>1. Cl!Alive \subseteq Pids /\ Cl!Descendants \subseteq Cl!Alive
    BY TreeIsLeast DEF LedgerInv
  <2>2. Cl!Alive' \subseteq Pids /\ Cl!Descendants' \subseteq Cl!Alive'
    BY DEF Cl!Alive, Cl!Descendants
  <2>. QED BY <2>1, <2>2
<1>4. \A p \in Pids : e[p] = proc'[p].cpu /\ e[p] \in Nat
  BY DEF Cl!Cpu, MachineInv, Process
<1>5. sec' = sec
  BY DEF Cl!Seconds
<1>6. /\ same \subseteq DOMAIN live \cap D
      /\ \A p \in same : proc[p].comm = live[p].comm /\ proc[p].cpu >= live[p].seconds
      /\ base + SumFunctionOnSet(sec, rest) + SumFunctionOnSet(c, D) <= spent
  BY <1>1 DEF Accounted
<1>7. /\ E \subseteq D \cup {z} /\ (z \in E => z \notin D) /\ (z \in E => e[z] = 0)
      /\ \A p \in Pids \ {z} : e[p] = c[p] /\ proc'[p].comm = proc[p].comm
  BY <1>2, <1>4
<1>. HIDE DEF D, E, sec, c, e
<1>. DEFINE kept == E \ {z}
<1>8. SumFunctionOnSet(e, E) = SumFunctionOnSet(e, kept)
  <2>1. IsFiniteSet(E) /\ \A p \in E : e[p] \in Nat
    BY <1>2, <1>3, <1>4, FS_Subset
  <2>2. CASE z \in E
    <3>1. SumFunctionOnSet(e, E) = e[z] + SumFunctionOnSet(e, kept)
      BY <2>1, <2>2, SumFacts
    <3>2. IsFiniteSet(kept) /\ \A p \in kept : e[p] \in Nat
      BY <2>1, FS_Subset
    <3>3. SumFunctionOnSet(e, kept) \in Nat
      BY <3>2, SumFacts
    <3>. QED BY <1>7, <2>2, <3>1, <3>3
  <2>3. CASE z \notin E
    <3>1. kept = E
      BY <2>3
    <3>. QED BY <3>1
  <2>. QED BY <2>2, <2>3
<1>9. SumFunctionOnSet(c, kept) = SumFunctionOnSet(e, kept)
  <2>1. kept \in SUBSET Pids /\ IsFiniteSet(kept)
    BY <1>2, <1>3, FS_Subset
  <2>2. \A p \in kept : c[p] \in Nat /\ e[p] = c[p]
    BY <1>2, <1>7, <2>1
  <2>. HIDE DEF kept
  <2>. QED BY <2>1, <2>2, SumSame
<1>10. SumFunctionOnSet(c, D) >= SumFunctionOnSet(c, kept) + SumFunctionOnSet(c, gone)
       /\ SumFunctionOnSet(c, kept) \in Nat /\ SumFunctionOnSet(c, gone) \in Nat /\ SumFunctionOnSet(c, D) \in Nat
  <2>1. IsFiniteSet(D) /\ \A p \in D : c[p] \in Nat
    BY <1>2, <1>3, FS_Subset
  <2>2. kept \in SUBSET D /\ gone \in SUBSET D /\ kept \cap gone = {}
    BY <1>6, <1>7
  <2>. DEFINE both == kept \cup gone
              others == D \ both
  <2>3. both \in SUBSET D /\ others \in SUBSET D /\ both \cap others = {} /\ D = both \cup others
    BY <2>2
  <2>. HIDE DEF kept, gone, others
  <2>4. SumFunctionOnSet(c, kept \cup gone) = SumFunctionOnSet(c, kept) + SumFunctionOnSet(c, gone)
    BY <2>1, <2>2, SumAdds
  <2>. HIDE DEF both
  <2>5. SumFunctionOnSet(c, both \cup others) = SumFunctionOnSet(c, both) + SumFunctionOnSet(c, others)
    BY <2>1, <2>3, SumAdds
  <2>6. \A X \in SUBSET D : SumFunctionOnSet(c, X) \in Nat
    <3>1. ASSUME NEW X \in SUBSET D PROVE SumFunctionOnSet(c, X) \in Nat
      <4>1. IsFiniteSet(X) /\ \A p \in X : c[p] \in Nat
        BY <2>1, FS_Subset
      <4>. QED BY <4>1, SumFacts
    <3>. QED BY <3>1
  <2>7. SumFunctionOnSet(c, kept) \in Nat /\ SumFunctionOnSet(c, gone) \in Nat
        /\ SumFunctionOnSet(c, both) \in Nat /\ SumFunctionOnSet(c, others) \in Nat
    BY <2>2, <2>3, <2>6
  <2>8. SumFunctionOnSet(c, both) = SumFunctionOnSet(c, kept) + SumFunctionOnSet(c, gone)
    BY <2>4 DEF both
  <2>9. SumFunctionOnSet(c, D) = SumFunctionOnSet(c, both) + SumFunctionOnSet(c, others)
    BY <2>3, <2>5
  <2>. QED BY <2>7, <2>8, <2>9
<1>11. SumFunctionOnSet(sec, DOMAIN live \ stay) = SumFunctionOnSet(sec, rest) + SumFunctionOnSet(sec, gone)
       /\ SumFunctionOnSet(sec, rest) \in Nat /\ SumFunctionOnSet(sec, gone) \in Nat
  <2>1. rest \in SUBSET DOMAIN live /\ gone \in SUBSET DOMAIN live /\ rest \cap gone = {}
        /\ DOMAIN live \ stay = rest \cup gone
    BY <1>6
  <2>2. IsFiniteSet(rest) /\ IsFiniteSet(gone) /\ (\A p \in rest : sec[p] \in Nat) /\ \A p \in gone : sec[p] \in Nat
    BY <1>2, <2>1, FS_Subset
  <2>. HIDE DEF rest, gone, stay
  <2>3. SumFunctionOnSet(sec, rest \cup gone) = SumFunctionOnSet(sec, rest) + SumFunctionOnSet(sec, gone)
    BY <1>2, <2>1, SumAdds
  <2>4. SumFunctionOnSet(sec, rest) \in Nat /\ SumFunctionOnSet(sec, gone) \in Nat
    BY <2>2, SumFacts
  <2>. QED BY <2>1, <2>3, <2>4
<1>12. SumFunctionOnSet(sec, gone) <= SumFunctionOnSet(c, gone)
  <2>1. IsFiniteSet(gone)
    <3>1. gone \in SUBSET Pids
      BY <1>3, <1>6
    <3>. QED BY <1>2, <3>1, FS_Subset
  <2>2. ASSUME NEW p \in gone PROVE sec[p] \in Nat /\ c[p] \in Nat /\ sec[p] <= c[p]
    <3>1. p \in same /\ p \in DOMAIN live /\ p \in Pids
      BY <1>3, <1>6
    <3>2. sec[p] = live[p].seconds /\ sec[p] \in Nat /\ c[p] = proc[p].cpu /\ c[p] \in Nat
      BY <1>2, <3>1
    <3>3. proc[p].cpu >= live[p].seconds
      BY <1>6, <3>1
    <3>. QED BY <3>2, <3>3
  <2>. HIDE DEF gone
  <2>. QED BY <2>1, <2>2, SumGrows
<1>13. base + SumFunctionOnSet(sec, DOMAIN live \ stay) + SumFunctionOnSet(e, E) <= spent
  <2>. HIDE DEF rest, gone, stay, kept
  <2>. QED BY <1>2, <1>6, <1>8, <1>9, <1>10, <1>11, <1>12
<1>14. ASSUME NEW p \in stay PROVE proc'[p].comm = live[p].comm /\ proc'[p].cpu >= live[p].seconds
  <2>1. p \in same /\ p \in D /\ p \in E /\ p \in Pids /\ p # z
    BY <1>3, <1>6, <1>7
  <2>2. proc'[p].cpu = proc[p].cpu /\ proc'[p].comm = proc[p].comm
    BY <2>1
  <2>. QED BY <1>6, <2>1, <2>2
<1>15. stay \subseteq DOMAIN live \cap E
  BY <1>6
<1>16. PICK st : st = stay
  OBVIOUS
<1>17. Accounted(st)'
  <2>1. /\ st \subseteq DOMAIN live' \cap Cl!Descendants'
        /\ \A p \in st : proc'[p].comm = live'[p].comm /\ proc'[p].cpu >= live'[p].seconds
    BY <1>14, <1>15, <1>16 DEF E
  <2>2. base' + SumFunctionOnSet(Cl!Seconds', DOMAIN live' \ st) + SumFunctionOnSet(Cl!Cpu', Cl!Descendants')
          <= spent'
    BY <1>5, <1>13, <1>16 DEF E, e, sec
  <2>. QED BY <2>1, <2>2 DEF Accounted
<1>18. total' = base' + SumFunctionOnSet(Cl!Seconds', DOMAIN live')
  BY <1>5 DEF LedgerInv, sec
<1>19. (\E q : Accounted(q))'
  BY <1>17
<1>. QED BY <1>18, <1>19 DEF LedgerInv

(* A part of a sum of natural numbers.                                      *)
LEMMA SumPart ==
  ASSUME NEW T, IsFiniteSet(T), NEW f, \A x \in T : f[x] \in Nat, NEW A \in SUBSET T
  PROVE  /\ SumFunctionOnSet(f, A) \in Nat /\ SumFunctionOnSet(f, T) \in Nat
         /\ SumFunctionOnSet(f, T) = SumFunctionOnSet(f, A) + SumFunctionOnSet(f, T \ A)
         /\ SumFunctionOnSet(f, T \ A) \in Nat
<1>. DEFINE B == T \ A
<1>1. IsFiniteSet(A) /\ IsFiniteSet(B) /\ (\A x \in A : f[x] \in Nat) /\ \A x \in B : f[x] \in Nat
  BY FS_Subset
<1>2. B \in SUBSET T /\ A \cap B = {} /\ T = A \cup B
  OBVIOUS
<1>. HIDE DEF B
<1>3. SumFunctionOnSet(f, A) \in Nat /\ SumFunctionOnSet(f, B) \in Nat /\ SumFunctionOnSet(f, T) \in Nat
  BY <1>1, SumFacts
<1>4. SumFunctionOnSet(f, A \cup B) = SumFunctionOnSet(f, A) + SumFunctionOnSet(f, B)
  BY <1>2, SumAdds
<1>. QED BY <1>2, <1>3, <1>4 DEF B

(* The processes the ledger knows have used what it charged for them.       *)
LEMMA KnownHaveUsed ==
  ASSUME LedgerInv, NEW K \in SUBSET (DOMAIN live \cap Cl!Descendants),
         \A p \in K : proc[p].cpu >= live[p].seconds
  PROVE  /\ SumFunctionOnSet(Cl!Seconds, K) \in Nat
         /\ SumFunctionOnSet(Cl!Cpu, Cl!Descendants) \in Nat
         /\ SumFunctionOnSet(Cl!Seconds, K) <= SumFunctionOnSet(Cl!Cpu, Cl!Descendants)
<1>. DEFINE sec == Cl!Seconds
            c == Cl!Cpu
            D == Cl!Descendants
<1>1. D \subseteq Pids /\ IsFiniteSet(D)
  BY TreeIsLeast DEF LedgerInv, Cl!Alive
<1>2. ASSUME NEW p \in K PROVE sec[p] \in Nat /\ c[p] \in Nat /\ sec[p] <= c[p]
  BY <1>1, SumsAreNatural
<1>3. \A p \in D : c[p] \in Nat
  BY <1>1, SumsAreNatural
<1>4. K \in SUBSET D /\ IsFiniteSet(K)
  BY <1>1, FS_Subset
<1>. HIDE DEF sec, c, D
<1>5. SumFunctionOnSet(c, K) \in Nat /\ SumFunctionOnSet(c, D) \in Nat /\ SumFunctionOnSet(c, D \ K) \in Nat
      /\ SumFunctionOnSet(c, D) = SumFunctionOnSet(c, K) + SumFunctionOnSet(c, D \ K)
  BY <1>1, <1>3, <1>4, SumPart
<1>6. SumFunctionOnSet(sec, K) \in Nat
  BY <1>2, <1>4, SumFacts
<1>7. SumFunctionOnSet(sec, K) <= SumFunctionOnSet(c, K)
  BY <1>2, <1>4, SumGrows
<1>8. SumFunctionOnSet(sec, K) <= SumFunctionOnSet(c, D)
  BY <1>5, <1>6, <1>7
<1>. QED BY <1>5, <1>6, <1>8 DEF sec, c, D

LEMMA LedgerInvSuffices == LedgerInv => Cl!ChargedWasSpent
<1>. SUFFICES ASSUME LedgerInv PROVE total <= spent
  BY DEF Cl!ChargedWasSpent
<1>. DEFINE sec == Cl!Seconds
            c == Cl!Cpu
            D == Cl!Descendants
<1>1. PICK same : Accounted(same)
  BY DEF LedgerInv
<1>2. /\ base \in Nat /\ total \in Nat /\ spent \in Nat
      /\ total = base + SumFunctionOnSet(sec, DOMAIN live)
  BY DEF LedgerInv
<1>3. same \in SUBSET DOMAIN live /\ base + SumFunctionOnSet(sec, DOMAIN live \ same) + SumFunctionOnSet(c, D) <= spent
  BY <1>1 DEF Accounted
<1>4. /\ SumFunctionOnSet(sec, same) \in Nat /\ SumFunctionOnSet(c, D) \in Nat
      /\ SumFunctionOnSet(sec, same) <= SumFunctionOnSet(c, D)
  BY <1>1, KnownHaveUsed DEF Accounted
<1>5. IsFiniteSet(DOMAIN live) /\ \A p \in DOMAIN live : sec[p] \in Nat
  BY SumsAreNatural
<1>. HIDE DEF sec, c, D
<1>6. /\ SumFunctionOnSet(sec, DOMAIN live) = SumFunctionOnSet(sec, same) + SumFunctionOnSet(sec, DOMAIN live \ same)
      /\ SumFunctionOnSet(sec, DOMAIN live \ same) \in Nat
  BY <1>3, <1>5, SumPart
<1>. QED BY <1>2, <1>3, <1>4, <1>6

(* After a step the tree is within every closed set of living processes.    *)
LEMMA TreeStaysWithin ==
  ASSUME NEW S, S \subseteq Cl!Alive', Root \in S, \A q \in Cl!Alive' : proc'[q].ppid \in S => q \in S
  PROVE  Cl!Descendants' \subseteq S
BY DEF Cl!Descendants

LEMMA SpawnKeepsLedger ==
  ASSUME LedgerInv, NEW p \in Pids, NEW m \in Comms, NEW q \in Cl!Alive \cup {0}, Cl!Spawn(p, q, m)
  PROVE  LedgerInv'
<1>1. /\ proc[p] = Cl!Gone /\ proc' = [proc EXCEPT ![p] = Cl!Row(q, m)]
      /\ UNCHANGED <<base, live, total, spent>>
  BY DEF Cl!Spawn, Cl!ledger
<1>2. proc \in [Pids -> Process] /\ MachineInv
  BY DEF LedgerInv, MachineInv
<1>3. /\ Cl!Row(q, m).ppid = q /\ Cl!Row(q, m).cpu = 0 /\ Cl!Row(q, m).comm = m /\ m # "none"
      /\ Cl!Gone.comm = "none"
  BY CommsAssumption DEF Cl!Row, Cl!Gone
<1>4. Cl!Alive \subseteq Pids /\ p \notin Cl!Alive /\ p # 0 /\ 0 \notin Pids /\ Root \in Cl!Alive
      /\ Cl!Alive = {r \in Pids : proc[r].comm # "none"}
  <2>1. Cl!Alive \subseteq Pids /\ p \notin Cl!Alive
    BY <1>1 DEF Cl!Alive
  <2>2. Cl!Alive = {r \in Pids : proc[r].comm # "none"} /\ Root \in Cl!Alive
    BY <1>2, TreeIsLeast, PidsAssumption DEF MachineInv
  <2>. QED BY <2>1, <2>2, PidsAssumption
<1>5. Cl!Row(q, m) \in Process
  BY <1>4 DEF Cl!Row, Process
<1>6. /\ proc' \in [Pids -> Process] /\ proc'[p] = Cl!Row(q, m)
      /\ \A r \in Pids \ {p} : proc'[r] = proc[r]
  BY <1>1, <1>2, <1>5
<1>7. Cl!Alive' = Cl!Alive \cup {p}
  BY <1>3, <1>4, <1>6 DEF Cl!Alive, Cl!Gone, Cl!Row
<1>8. MachineInv'
  <2>1. \A r \in Pids : proc'[r].comm = "none" => proc'[r] = Cl!Gone
    BY <1>2, <1>3, <1>6 DEF MachineInv
  <2>2. \A r \in Cl!Alive' : proc'[r].ppid \in Cl!Alive' \cup {0}
    BY <1>2, <1>3, <1>4, <1>6, <1>7 DEF MachineInv
  <2>3. proc'[Root].comm = "agent"
    BY <1>2, <1>4, <1>6 DEF MachineInv
  <2>4. Cl!Gone' = Cl!Gone
    BY DEF Cl!Gone, Cl!Row, Cl!Elsewhere
  <2>. QED BY <1>6, <2>1, <2>2, <2>3, <2>4 DEF MachineInv
<1>9. Cl!Descendants' \subseteq Cl!Descendants \cup {p}
  <2>. DEFINE S == Cl!Descendants \cup {p}
  <2>1. S \subseteq Cl!Alive' /\ Root \in S /\ Cl!Descendants \subseteq Cl!Alive
    BY <1>2, <1>7, TreeIsLeast
  <2>2. ASSUME NEW r \in Cl!Alive', proc'[r].ppid \in S PROVE r \in S
    <3>1. CASE r = p
      BY <3>1
    <3>2. CASE r # p
      <4>1. r \in Cl!Alive /\ proc'[r] = proc[r]
        BY <1>4, <1>6, <1>7, <3>2
      <4>2. proc[r].ppid \in Cl!Alive \cup {0}
        BY <1>2, <4>1 DEF MachineInv
      <4>3. proc[r].ppid \in Cl!Descendants
        BY <1>4, <2>2, <4>1, <4>2
      <4>. QED BY <1>2, <4>1, <4>3, TreeIsLeast
    <3>. QED BY <3>1, <3>2
  <2>. HIDE DEF S
  <2>3. Cl!Descendants' \subseteq S
    BY <2>1, <2>2, TreeStaysWithin
  <2>. QED BY <2>3 DEF S
<1>10. p \notin Cl!Descendants
  BY <1>2, <1>4, TreeIsLeast
<1>. QED BY <1>1, <1>3, <1>6, <1>8, <1>9, <1>10, ComingAndGoing

LEMMA DieKeepsLedger ==
  ASSUME LedgerInv, NEW p \in Pids, Cl!Die(p)
  PROVE  LedgerInv'
<1>1. /\ p # Root /\ UNCHANGED <<base, live, total, spent>>
      /\ proc' = [q \in Pids |-> IF q = p THEN Cl!Gone ELSE
                    [proc[q] EXCEPT !.ppid = IF @ = p THEN 0 ELSE @]]
  BY DEF Cl!Die, Cl!ledger, Cl!Elsewhere
<1>2. proc \in [Pids -> Process] /\ MachineInv
  BY DEF LedgerInv, MachineInv
<1>3. Cl!Gone = [ppid |-> 0, cpu |-> 0, comm |-> "none"] /\ Cl!Gone \in Process /\ Cl!Gone.comm = "none"
  BY DEF Cl!Gone, Cl!Row, Cl!Elsewhere, Process
<1>4. /\ proc'[p] = Cl!Gone
      /\ \A r \in Pids \ {p} : /\ proc'[r] \in Process
                               /\ proc'[r].comm = proc[r].comm /\ proc'[r].cpu = proc[r].cpu
                               /\ proc'[r].ppid = IF proc[r].ppid = p THEN 0 ELSE proc[r].ppid
  <2>1. ASSUME NEW r \in Pids \ {p}
        PROVE  /\ proc'[r] \in Process
               /\ proc'[r].comm = proc[r].comm /\ proc'[r].cpu = proc[r].cpu
               /\ proc'[r].ppid = IF proc[r].ppid = p THEN 0 ELSE proc[r].ppid
    <3>1. proc'[r] = [proc[r] EXCEPT !.ppid = IF @ = p THEN 0 ELSE @] /\ proc[r] \in Process
      BY <1>1, <1>2
    <3>. QED BY <3>1 DEF Process
  <2>. QED BY <1>1, <2>1
<1>5. proc' \in [Pids -> Process]
  <2>1. \A r \in Pids : proc'[r] \in Process
    BY <1>3, <1>4
  <2>. QED BY <1>1, <2>1
<1>6. /\ Cl!Alive = {r \in Pids : proc[r].comm # "none"} /\ 0 \notin Pids /\ Root \in Cl!Alive
      /\ Cl!Descendants \subseteq Cl!Alive /\ Root \in Cl!Descendants
  BY <1>2, TreeIsLeast, PidsAssumption
<1>7. \A r \in Pids : proc'[r].comm = "none" => proc'[r] = Cl!Gone
  <2>1. ASSUME NEW r \in Pids \ {p}, proc'[r].comm = "none" PROVE proc'[r] = Cl!Gone
    <3>1. proc[r] = Cl!Gone
      BY <1>2, <1>4, <2>1 DEF MachineInv
    <3>2. proc'[r] = [proc[r] EXCEPT !.ppid = IF @ = p THEN 0 ELSE @]
      BY <1>1
    <3>. QED BY <1>3, <3>1, <3>2
  <2>. QED BY <1>4, <2>1
<1>8. Cl!Alive' = Cl!Alive \ {p}
  <2>1. Cl!Alive' = {r \in Pids : proc'[r] # Cl!Gone}
    BY DEF Cl!Alive, Cl!Gone, Cl!Row, Cl!Elsewhere
  <2>2. \A r \in Pids : proc'[r] # Cl!Gone <=> proc'[r].comm # "none"
    BY <1>3, <1>7
  <2>. QED BY <1>3, <1>4, <1>6, <2>1, <2>2
<1>9. MachineInv'
  <2>1. \A r \in Cl!Alive' : proc'[r].ppid \in Cl!Alive' \cup {0}
    BY <1>2, <1>4, <1>6, <1>8 DEF MachineInv
  <2>2. proc'[Root].comm = "agent"
    BY <1>1, <1>2, <1>4, PidsAssumption DEF MachineInv
  <2>3. Cl!Gone' = Cl!Gone
    BY DEF Cl!Gone, Cl!Row, Cl!Elsewhere
  <2>. QED BY <1>5, <1>7, <2>1, <2>2, <2>3 DEF MachineInv
<1>10. Cl!Descendants' \subseteq Cl!Descendants \ {p}
  <2>. DEFINE S == Cl!Descendants \ {p}
  <2>1. S \subseteq Cl!Alive' /\ Root \in S
    BY <1>1, <1>6, <1>8
  <2>2. ASSUME NEW r \in Cl!Alive', proc'[r].ppid \in S PROVE r \in S
    <3>1. r \in Cl!Alive /\ r # p /\ r \in Pids
      BY <1>6, <1>8
    <3>2. proc[r].ppid \in Cl!Descendants
      BY <1>4, <1>6, <2>2, <3>1
    <3>. QED BY <1>2, <3>1, <3>2, TreeIsLeast
  <2>. HIDE DEF S
  <2>3. Cl!Descendants' \subseteq S
    BY <2>1, <2>2, TreeStaysWithin
  <2>. QED BY <2>3 DEF S
<1>11. \A r \in Pids \ {p} : proc'[r].cpu = proc[r].cpu /\ proc'[r].comm = proc[r].comm
  BY <1>4
<1>12. p \notin Cl!Descendants' /\ Cl!Descendants' \subseteq Cl!Descendants \cup {p}
  BY <1>10
<1>. QED BY <1>1, <1>9, <1>11, <1>12, ComingAndGoing

LEMMA WorkKeepsLedger ==
  ASSUME LedgerInv, NEW p \in Pids, Cl!Work(p)
  PROVE  LedgerInv'
<1>1. /\ proc[p] # Cl!Gone /\ proc' = [proc EXCEPT ![p].cpu = @ + 1]
      /\ spent' = (IF p \in Cl!Descendants THEN spent + 1 ELSE spent)
      /\ UNCHANGED <<base, live, total>>
  BY DEF Cl!Work, Cl!ledger
<1>2. proc \in [Pids -> Process] /\ MachineInv /\ base \in Nat /\ spent \in Nat
  BY DEF LedgerInv, MachineInv
<1>3. /\ proc' \in [Pids -> Process]
      /\ \A r \in Pids : proc'[r].ppid = proc[r].ppid /\ proc'[r].comm = proc[r].comm
      /\ \A r \in Pids \ {p} : proc'[r] = proc[r]
      /\ proc'[p].cpu = proc[p].cpu + 1
  <2>1. proc[p] \in Process /\ proc'[p] = [proc[p] EXCEPT !.cpu = @ + 1] /\ proc[p].cpu \in Nat
        /\ \A r \in Pids \ {p} : proc'[r] = proc[r] /\ proc[r] \in Process
    BY <1>1, <1>2 DEF Process
  <2>2. /\ proc'[p] \in Process /\ proc'[p].cpu = proc[p].cpu + 1
        /\ proc'[p].ppid = proc[p].ppid /\ proc'[p].comm = proc[p].comm
    BY <2>1 DEF Process
  <2>3. DOMAIN proc' = Pids /\ proc' = [r \in Pids |-> proc'[r]]
    BY <1>1, <1>2
  <2>. QED BY <2>1, <2>2, <2>3
<1>4. /\ Cl!Alive = {r \in Pids : proc[r].comm # "none"} /\ Root \in Cl!Alive
      /\ Cl!Descendants \subseteq Cl!Alive
  BY <1>2, TreeIsLeast
<1>5. Cl!Gone' = Cl!Gone /\ Cl!Gone.comm = "none"
  BY DEF Cl!Gone, Cl!Row, Cl!Elsewhere
<1>6. \A r \in Pids : proc'[r].comm = "none" => proc'[r] = Cl!Gone
  <2>1. proc[p].comm # "none"
    BY <1>1, <1>2 DEF MachineInv
  <2>. QED BY <1>2, <1>3, <2>1 DEF MachineInv
<1>7. Cl!Alive' = Cl!Alive
  <2>1. Cl!Alive' = {r \in Pids : proc'[r] # Cl!Gone}
    BY <1>5 DEF Cl!Alive
  <2>. QED BY <1>3, <1>4, <1>5, <1>6, <2>1
<1>8. MachineInv'
  <2>1. \A r \in Cl!Alive' : proc'[r].ppid \in Cl!Alive' \cup {0}
    BY <1>2, <1>3, <1>4, <1>7 DEF MachineInv
  <2>2. proc'[Root].comm = "agent"
    BY <1>2, <1>3, PidsAssumption DEF MachineInv
  <2>. QED BY <1>3, <1>5, <1>6, <2>1, <2>2 DEF MachineInv
<1>9. Cl!Descendants' = Cl!Descendants
  <2>1. \A r \in Cl!Alive : proc'[r].ppid = proc[r].ppid
    BY <1>3, <1>4
  <2>. QED BY <1>7, <2>1 DEF Cl!Descendants
<1>. DEFINE D == Cl!Descendants
            c == Cl!Cpu
            e == Cl!Cpu'
<1>10. /\ \A r \in Pids : c[r] \in Nat /\ e[r] \in Nat
       /\ \A r \in Pids \ {p} : e[r] = c[r]
       /\ e[p] = c[p] + 1
  <2>1. \A r \in Pids : proc[r].cpu \in Nat /\ proc'[r].cpu \in Nat
    BY <1>2, <1>3 DEF Process
  <2>2. \A r \in Pids : c[r] = proc[r].cpu /\ e[r] = proc'[r].cpu
    BY DEF Cl!Cpu
  <2>. QED BY <1>3, <2>1, <2>2
<1>11. D \subseteq Pids /\ IsFiniteSet(D)
  BY <1>2, <1>4, TreeIsLeast
<1>12. /\ SumFunctionOnSet(c, D) \in Nat /\ SumFunctionOnSet(e, D) \in Nat
       /\ SumFunctionOnSet(e, D) = SumFunctionOnSet(c, D) + (IF p \in D THEN 1 ELSE 0)
  <2>. HIDE DEF D, c, e
  <2>. DEFINE others == D \ {p}
  <2>1. \A r \in D : c[r] \in Nat /\ e[r] \in Nat
    BY <1>10, <1>11
  <2>2. IsFiniteSet(others) /\ \A r \in others : c[r] \in Nat /\ e[r] = c[r]
    BY <1>10, <1>11, FS_Subset
  <2>3. SumFunctionOnSet(c, others) = SumFunctionOnSet(e, others) /\ SumFunctionOnSet(c, others) \in Nat
    <3>. HIDE DEF others
    <3>. QED BY <2>2, SumSame, SumFacts
  <2>4. SumFunctionOnSet(c, D) \in Nat /\ SumFunctionOnSet(e, D) \in Nat
    BY <1>11, <2>1, SumFacts
  <2>5. CASE p \in D
    <3>1. SumFunctionOnSet(c, D) = c[p] + SumFunctionOnSet(c, others)
      BY <1>11, <2>1, <2>5, SumFacts
    <3>2. SumFunctionOnSet(e, D) = e[p] + SumFunctionOnSet(e, others)
      BY <1>11, <2>1, <2>5, SumFacts
    <3>. QED BY <1>10, <2>3, <2>4, <2>5, <3>1, <3>2
  <2>6. CASE p \notin D
    <3>1. others = D
      BY <2>6
    <3>. QED BY <2>3, <2>4, <2>6, <3>1
  <2>. QED BY <2>5, <2>6
<1>13. PICK same : Accounted(same)
  BY DEF LedgerInv
<1>14. SumFunctionOnSet(Cl!Seconds, DOMAIN live \ same) \in Nat /\ Cl!Seconds' = Cl!Seconds
  <2>. DEFINE rest == DOMAIN live \ same
  <2>1. IsFiniteSet(rest) /\ \A r \in rest : Cl!Seconds[r] \in Nat
    BY SumsAreNatural, FS_Subset
  <2>. HIDE DEF rest
  <2>2. SumFunctionOnSet(Cl!Seconds, rest) \in Nat
    BY <2>1, SumFacts
  <2>. QED BY <1>1, <2>2 DEF rest, Cl!Seconds
<1>15. Accounted(same)'
  <2>1. same \subseteq DOMAIN live' \cap Cl!Descendants'
    BY <1>1, <1>9, <1>13 DEF Accounted
  <2>2. ASSUME NEW r \in same PROVE proc'[r].comm = live'[r].comm /\ proc'[r].cpu >= live'[r].seconds
    <3>1. r \in Pids /\ r \in DOMAIN live /\ proc[r].comm = live[r].comm /\ proc[r].cpu >= live[r].seconds
      BY <1>11, <1>13 DEF Accounted
    <3>2. live[r].seconds \in Nat
      BY <3>1, SumsAreNatural
    <3>3. proc[r].cpu \in Nat /\ proc'[r].cpu >= proc[r].cpu
      BY <1>2, <1>3, <3>1 DEF Process
    <3>4. proc'[r].comm = proc[r].comm /\ proc'[r].cpu \in Nat
      BY <1>3, <3>1 DEF Process
    <3>. QED BY <1>1, <3>1, <3>2, <3>3, <3>4
  <2>3. base + SumFunctionOnSet(Cl!Seconds, DOMAIN live \ same) + SumFunctionOnSet(c, D) <= spent
    BY <1>13 DEF Accounted
  <2>4. base' + SumFunctionOnSet(Cl!Seconds', DOMAIN live' \ same) + SumFunctionOnSet(e, D) <= spent'
    <3>1. base' = base /\ Cl!Seconds' = Cl!Seconds /\ live' = live
      BY <1>1, <1>14
    <3>. HIDE DEF D, c, e
    <3>2. spent' = spent + (IF p \in D THEN 1 ELSE 0)
      BY <1>1, <1>2 DEF D
    <3>3. base + SumFunctionOnSet(Cl!Seconds, DOMAIN live \ same) + SumFunctionOnSet(e, D) <= spent'
      BY <1>2, <1>12, <1>14, <2>3, <3>2
    <3>. QED BY <3>1, <3>3
  <2>. QED BY <1>9, <2>1, <2>2, <2>4 DEF Accounted
<1>16. (\E s : Accounted(s))'
  BY <1>15
<1>17. total' = base' + SumFunctionOnSet(Cl!Seconds', DOMAIN live')
  BY <1>1, <1>14 DEF LedgerInv
<1>18. spent' \in Nat
  BY <1>1, <1>2
<1>. QED BY <1>1, <1>8, <1>16, <1>17, <1>18 DEF LedgerInv

(* A reading: nothing of the same process is retired, so what was retired  *)
(* fits the account, and what is left had no more than it has now.          *)
LEMMA ObserveKeepsLedger ==
  ASSUME LedgerInv, Cl!Observe
  PROVE  LedgerInv' /\ total' >= total
<1>. DEFINE D == Cl!Descendants
            c == Cl!Cpu
            sec == Cl!Seconds
            R == Cl!Retired
<1>1. /\ base' = base + SumFunctionOnSet(sec, R)
      /\ live' = [p \in D |-> [seconds |-> proc[p].cpu, comm |-> proc[p].comm]]
      /\ total' = base' + SumFunctionOnSet(c, D)
      /\ UNCHANGED <<proc, spent>>
  <2>1. Cl!SumFunctionOnSet(sec, R) = SumFunctionOnSet(sec, R) /\ Cl!SumFunctionOnSet(c, D) = SumFunctionOnSet(c, D)
    BY SameSum
  <2>. QED BY <2>1 DEF Cl!Observe, Cl!machine
<1>2. /\ base \in Nat /\ total \in Nat /\ spent \in Nat /\ MachineInv /\ DOMAIN live \subseteq Pids
      /\ total = base + SumFunctionOnSet(sec, DOMAIN live)
  BY DEF LedgerInv
<1>3. D \subseteq Pids /\ IsFiniteSet(D)
  BY <1>2, TreeIsLeast DEF Cl!Alive
<1>4. PICK same : Accounted(same)
  BY DEF LedgerInv
<1>5. /\ IsFiniteSet(DOMAIN live) /\ (\A p \in DOMAIN live : sec[p] = live[p].seconds /\ sec[p] \in Nat)
      /\ \A p \in Pids : c[p] = proc[p].cpu /\ c[p] \in Nat
  BY SumsAreNatural
<1>6. R \in SUBSET DOMAIN live /\ R \in SUBSET (DOMAIN live \ same)
  <2>1. ASSUME NEW p \in same PROVE p \notin R
    <3>1. p \in D /\ p \in DOMAIN live /\ proc[p].comm = live[p].comm /\ proc[p].cpu >= live[p].seconds
      BY <1>4 DEF Accounted
    <3>2. proc[p].cpu \in Nat /\ live[p].seconds \in Nat
      BY <1>3, <1>5, <3>1
    <3>. QED BY <3>1, <3>2 DEF Cl!Retired, Cl!Recycled
  <2>. QED BY <2>1 DEF Cl!Retired
<1>7. base + SumFunctionOnSet(sec, DOMAIN live \ same) + SumFunctionOnSet(c, D) <= spent
  BY <1>4 DEF Accounted
<1>. DEFINE K == DOMAIN live \ R
<1>8. /\ SumFunctionOnSet(sec, K) \in Nat /\ SumFunctionOnSet(c, D) \in Nat
      /\ SumFunctionOnSet(sec, K) <= SumFunctionOnSet(c, D)
  <2>1. ASSUME NEW p \in K PROVE p \in D /\ proc[p].cpu >= live[p].seconds
    <3>1. p \in DOMAIN live /\ p \in D /\ ~(proc[p].cpu < live[p].seconds)
      BY DEF Cl!Retired, Cl!Recycled
    <3>2. proc[p].cpu \in Nat /\ live[p].seconds \in Nat
      BY <1>3, <1>5, <3>1
    <3>. QED BY <3>1, <3>2
  <2>2. K \in SUBSET (DOMAIN live \cap D)
    BY <2>1
  <2>. HIDE DEF K
  <2>. QED BY <2>1, <2>2, KnownHaveUsed
<1>9. /\ SumFunctionOnSet(sec, R) \in Nat
      /\ SumFunctionOnSet(sec, DOMAIN live) = SumFunctionOnSet(sec, R) + SumFunctionOnSet(sec, K)
  <2>. HIDE DEF R, sec
  <2>. QED BY <1>5, <1>6, SumPart
<1>10. /\ SumFunctionOnSet(sec, DOMAIN live \ same) \in Nat
       /\ SumFunctionOnSet(sec, R) <= SumFunctionOnSet(sec, DOMAIN live \ same)
  <2>. DEFINE rest == DOMAIN live \ same
  <2>1. IsFiniteSet(rest) /\ \A p \in rest : sec[p] \in Nat
    BY <1>5, FS_Subset
  <2>2. R \in SUBSET rest
    BY <1>6
  <2>. HIDE DEF rest, R, sec
  <2>3. /\ SumFunctionOnSet(sec, R) \in Nat /\ SumFunctionOnSet(sec, rest) \in Nat /\ SumFunctionOnSet(sec, rest \ R) \in Nat
        /\ SumFunctionOnSet(sec, rest) = SumFunctionOnSet(sec, R) + SumFunctionOnSet(sec, rest \ R)
    BY <2>1, <2>2, SumPart
  <2>4. SumFunctionOnSet(sec, R) <= SumFunctionOnSet(sec, rest)
    BY <2>3
  <2>. QED BY <2>3, <2>4 DEF rest
<1>11. base' \in Nat /\ total' \in Nat /\ total' >= total /\ base' + SumFunctionOnSet(c, D) <= spent
  <2>. HIDE DEF R, sec, D, c, K
  <2>. QED BY <1>1, <1>2, <1>7, <1>8, <1>9, <1>10
<1>12. Cl!Descendants' = D /\ Cl!Cpu' = c /\ MachineInv'
  BY <1>1, <1>2 DEF Cl!Descendants, Cl!Alive, Cl!Cpu, MachineInv, Cl!Gone, Cl!Row, Cl!Elsewhere
<1>13. DOMAIN live' = D /\ \A p \in D : live'[p].seconds = c[p] /\ live'[p].comm = proc[p].comm
  BY <1>1, <1>3, <1>5
<1>14. SumFunctionOnSet(Cl!Seconds', DOMAIN live') = SumFunctionOnSet(c, D)
  <2>1. \A p \in D : c[p] \in Nat /\ Cl!Seconds'[p] = c[p]
    BY <1>3, <1>5, <1>13 DEF Cl!Seconds
  <2>. HIDE DEF D, c
  <2>. QED BY <1>3, <1>13, <2>1, SumSame
<1>15. live' \in [DOMAIN live' -> [seconds : Nat, comm : Comms \cup {"agent", "none"}]]
  <2>1. \A p \in D : proc[p].cpu \in Nat /\ proc[p].comm \in Comms \cup {"agent", "none"}
    BY <1>2, <1>3 DEF MachineInv, Process
  <2>2. \A p \in D : live'[p] \in [seconds : Nat, comm : Comms \cup {"agent", "none"}]
    BY <1>1, <2>1
  <2>. QED BY <1>1, <1>13, <2>2
<1>16. PICK st : st = D
  OBVIOUS
<1>17. Accounted(st)'
  <2>1. st \subseteq DOMAIN live' \cap Cl!Descendants'
    BY <1>12, <1>13, <1>16
  <2>2. \A p \in st : proc'[p].comm = live'[p].comm /\ proc'[p].cpu >= live'[p].seconds
    <3>1. ASSUME NEW p \in D PROVE proc'[p].comm = live'[p].comm /\ proc'[p].cpu >= live'[p].seconds
      BY <1>1, <1>3, <1>5, <1>13
    <3>. QED BY <1>16, <3>1
  <2>3. DOMAIN live' \ st = {}
    BY <1>13, <1>16
  <2>4. SumFunctionOnSet(Cl!Seconds', {}) = 0
    BY FS_EmptySet, SumFacts
  <2>5. base' + SumFunctionOnSet(Cl!Seconds', DOMAIN live' \ st) + SumFunctionOnSet(Cl!Cpu', Cl!Descendants') <= spent'
    <3>1. base' + 0 + SumFunctionOnSet(c, D) <= spent'
      <4>. HIDE DEF c, D
      <4>. QED BY <1>1, <1>8, <1>11
    <3>. QED BY <1>12, <2>3, <2>4, <3>1
  <2>. QED BY <2>1, <2>2, <2>5 DEF Accounted
<1>18. (\E q : Accounted(q))'
  BY <1>17
<1>19. total' = base' + SumFunctionOnSet(Cl!Seconds', DOMAIN live') /\ DOMAIN live' \subseteq Pids /\ spent' \in Nat
  BY <1>1, <1>2, <1>3, <1>13, <1>14
<1>. QED BY <1>11, <1>12, <1>15, <1>18, <1>19 DEF LedgerInv

LEMMA LedgerUnchanged ==
  ASSUME LedgerInv, UNCHANGED clVars
  PROVE  LedgerInv'
<1>1. /\ proc' = proc /\ base' = base /\ live' = live /\ total' = total /\ spent' = spent
  BY DEF clVars
<1>2. /\ Cl!Alive' = Cl!Alive /\ Cl!Descendants' = Cl!Descendants /\ Cl!Seconds' = Cl!Seconds /\ Cl!Cpu' = Cl!Cpu
      /\ Cl!Gone' = Cl!Gone
  BY <1>1 DEF Cl!Alive, Cl!Descendants, Cl!Seconds, Cl!Cpu, Cl!Gone, Cl!Row, Cl!Elsewhere
<1>3. MachineInv'
  BY <1>1, <1>2 DEF LedgerInv, MachineInv
<1>4. PICK same : Accounted(same)
  BY DEF LedgerInv
<1>5. Accounted(same)'
  BY <1>1, <1>2, <1>4 DEF Accounted
<1>6. (\E s : Accounted(s))'
  BY <1>5
<1>. QED BY <1>1, <1>2, <1>3, <1>6 DEF LedgerInv

LEMMA LedgerKept ==
  ASSUME LedgerInv, [PartsNext]_allVars
  PROVE  LedgerInv' /\ (total' >= total \/ UNCHANGED Cl!vars)
<1>0. total \in Nat
  BY DEF LedgerInv
<1>1. CASE UNCHANGED clVars
  BY <1>1, LedgerUnchanged DEF clVars, Cl!vars, Cl!machine, Cl!ledger
<1>2. ASSUME NEW p \in Pids, NEW m \in Comms, NEW q \in Cl!Alive \cup {Cl!Elsewhere}, Cl!Spawn(p, q, m)
      PROVE  LedgerInv' /\ total' >= total
  <2>1. q \in Cl!Alive \cup {0}
    BY DEF Cl!Elsewhere
  <2>2. LedgerInv'
    BY <1>2, <2>1, SpawnKeepsLedger
  <2>3. total' = total
    BY <1>2 DEF Cl!Spawn, Cl!ledger
  <2>. QED BY <1>0, <2>2, <2>3
<1>3. ASSUME NEW p \in Pids, Cl!Work(p) PROVE LedgerInv' /\ total' >= total
  <2>1. LedgerInv'
    BY <1>3, WorkKeepsLedger
  <2>2. total' = total
    BY <1>3 DEF Cl!Work, Cl!ledger
  <2>. QED BY <1>0, <2>1, <2>2
<1>4. ASSUME NEW p \in Pids, Cl!Die(p) PROVE LedgerInv' /\ total' >= total
  <2>1. LedgerInv'
    BY <1>4, DieKeepsLedger
  <2>2. total' = total
    BY <1>4 DEF Cl!Die, Cl!ledger
  <2>. QED BY <1>0, <2>1, <2>2
<1>5. CASE Cl!Observe
  BY <1>5, ObserveKeepsLedger
<1>. QED BY <1>1, <1>2, <1>3, <1>4, <1>5 DEF PartsNext, allVars, Cl!Next

LEMMA LedgerInit == PartsInit => LedgerInv
<1>. SUFFICES ASSUME PartsInit PROVE LedgerInv
  OBVIOUS
<1>1. /\ proc = [p \in Pids |-> IF p = Root THEN Cl!Row(0, "agent") ELSE Cl!Gone]
      /\ base = 0 /\ live = [p \in {} |-> 0] /\ total = 0 /\ spent = 0
  BY DEF PartsInit, Cl!Init, Cl!Elsewhere
<1>2. /\ Cl!Gone = [ppid |-> 0, cpu |-> 0, comm |-> "none"]
      /\ Cl!Row(0, "agent") = [ppid |-> 0, cpu |-> 0, comm |-> "agent"]
  BY DEF Cl!Gone, Cl!Row, Cl!Elsewhere
<1>3. proc \in [Pids -> Process]
  BY <1>1, <1>2 DEF Process
<1>4. \A p \in Pids : proc[p] = (IF p = Root THEN Cl!Row(0, "agent") ELSE Cl!Gone)
  BY <1>1
<1>5. MachineInv
  BY <1>2, <1>3, <1>4, PidsAssumption DEF MachineInv, Cl!Alive
<1>6. Cl!Descendants \subseteq Pids /\ IsFiniteSet(Cl!Descendants) /\ \A p \in Pids : Cl!Cpu[p] = 0
  BY <1>2, <1>4, <1>5, TreeIsLeast DEF Cl!Alive, Cl!Cpu
<1>7. DOMAIN live = {}
  BY <1>1
<1>8. SumFunctionOnSet(Cl!Seconds, {}) = 0
  BY FS_EmptySet, SumFacts
<1>9. SumFunctionOnSet(Cl!Cpu, Cl!Descendants) = 0
  <2>. DEFINE D == Cl!Descendants
              c == Cl!Cpu
  <2>1. /\ \A A \in SUBSET D : IsFiniteSet(A) /\ \A x \in A : c[x] \in Nat
        /\ \A x \in D : c[x] = 0
    BY <1>6, FS_Subset
  <2>2. IsFiniteSet(D)
    BY <1>6
  <2>. DEFINE Z == {A \in SUBSET D : SumFunctionOnSet(c, A) = 0}
  <2>. HIDE DEF D, c
  <2>3. {} \in Z
    BY <2>1, SumFacts
  <2>4. ASSUME NEW A \in SUBSET D, A # {}, \A x \in A : A \ {x} \in Z
        PROVE  A \in Z
    <3>1. PICK x \in A : TRUE
      BY <2>4
    <3>2. SumFunctionOnSet(c, A) = c[x] + SumFunctionOnSet(c, A \ {x})
      BY <2>1, SumFacts
    <3>3. c[x] = 0 /\ SumFunctionOnSet(c, A \ {x}) = 0
      BY <2>1, <2>4
    <3>. QED BY <3>2, <3>3
  <2>. HIDE DEF Z
  <2>5. SUBSET D \subseteq Z
    BY <2>2, <2>3, <2>4, SubsetInd
  <2>. QED BY <2>5 DEF Z, D, c
<1>10. Accounted({})
  <2>1. DOMAIN live \ {} = {}
    BY <1>7
  <2>. QED BY <1>1, <1>8, <1>9, <2>1 DEF Accounted
<1>11. live \in [DOMAIN live -> [seconds : Nat, comm : Comms \cup {"agent", "none"}]]
  BY <1>1, <1>7
<1>12. \E same : Accounted(same)
  BY <1>10
<1>. QED BY <1>1, <1>5, <1>7, <1>8, <1>11, <1>12 DEF LedgerInv

(* No time is charged that the agent's processes did not use, and the       *)
(* charge never falls, however pids come, go and are used again.            *)
LEMMA LedgerIsSafe == PartsSpec => Cl!LedgerSafety
<1>1. LedgerInv /\ [PartsNext]_allVars => LedgerInv' /\ [total' >= total]_(Cl!vars)
  BY LedgerKept
<1>. QED BY <1>1, LedgerInit, LedgerInvSuffices, PTL DEF PartsSpec, allVars, Cl!LedgerSafety, Cl!TotalNeverFalls

-----------------------------------------------------------------------------
(* The compaction of old logs *)

Turn(L, q) == Cm!TurnOf(L, q)
Ends(L) == Cm!TurnEnds(L)

(* The deltas of a row's stream in its turn, and those before it.           *)
Group(L, q) == Cm!Deltas(L, L[q].stream, Turn(L, q))
Earlier(L, q) == {w \in Group(L, q) : w < q}

Logged == [kind : {"delta", "final", "end"}, stream : Cm!Streams \cup {None}, text : SUBSET Nat]

(* Rows below n.                                                            *)
IsLog(L, n) ==
  /\ n \in Nat /\ 1 <= n /\ n <= MaxRows + 1
  /\ DOMAIN L \subseteq {q \in Nat : 1 <= q /\ q < n}
  /\ \A q \in DOMAIN L : L[q] \in Logged /\ (L[q].kind # "end" => L[q].stream \in Cm!Streams)

(* A final has what its stream said before it, but for a tool's without     *)
(* output; what a stream said after a final that closed it is known.        *)
FinalsHaveIt(L) ==
  \A f \in DOMAIN L : L[f].kind = "final" =>
    \A q \in Earlier(L, f) : L[q].text \subseteq L[f].text \/ (L[f].stream \in Tools /\ L[f].text = {})

LateIsKnown(L, said) ==
  \A f \in DOMAIN L : L[f].kind = "final" /\ Earlier(L, f) # {} =>
    \A q \in Group(L, f) : q > f => L[q].text \subseteq said

Closes(L, q) == Cm!Finished(L, L[q].stream, Turn(L, q))

(* What a plan does to a log: it takes whole groups of deltas, gives a final *)
(* that lacks them what came before it, and puts at the first delta of an    *)
(* unfinished group what the group says.                                    *)
FitsLog(p, L) ==
  /\ \A f \in DOMAIN p.rewrite :
        /\ f \in DOMAIN L /\ L[f].kind = "final" /\ L[f].stream \in Tools /\ L[f].text = {}
        /\ Earlier(L, f) # {} /\ p.rewrite[f] = Cm!Text(L, Earlier(L, f))
  /\ \A f \in DOMAIN L : L[f].kind = "final" /\ L[f].stream \in Tools /\ L[f].text = {} =>
        (Earlier(L, f) \cap p.remove # {} => f \in DOMAIN p.rewrite)
  /\ p.remove \subseteq {q \in DOMAIN L : L[q].kind = "delta"}
  /\ \A q \in p.remove : Group(L, q) \subseteq p.remove
  /\ \A q \in DOMAIN p.insert :
        /\ q \in p.remove /\ Earlier(L, q) = {} /\ ~Closes(L, q) /\ Cm!Text(L, Group(L, q)) # {}
        /\ p.insert[q] = Cm!Row(IF L[q].stream \in Messages THEN "final" ELSE "delta",
                                L[q].stream, Cm!Text(L, Group(L, q)))
  /\ \A r \in p.remove : ~Closes(L, r) /\ Cm!Text(L, Group(L, r)) # {} =>
        \E q \in DOMAIN p.insert : q \in Group(L, r)

(* A plan made beside a running daemon takes only from turns that ended.    *)
OfClosedTurns(p, L) == \A r \in p.remove : Turn(L, r) \in Ends(L)

CompactionInv ==
  /\ IsLog(history, nextSeq)
  /\ FinalsHaveIt(history) /\ LateIsKnown(history, late)
  /\ plan = None \/ (FitsLog(plan, history) /\ OfClosedTurns(plan, history))

(* The least of a set of numbers.                                           *)
LEMMA LeastOf ==
  ASSUME NEW S, S \subseteq Nat, S # {}
  PROVE  Cm!Min(S) \in S /\ \A x \in S : Cm!Min(S) <= x
<1>1. PICK x \in S : \A y \in S : ~(y < x)
  BY NatMin
<1>2. \A y \in S : x <= y
  BY <1>1
<1>. QED BY <1>2 DEF Cm!Min

(* A turn is named by the end that comes first, and MaxRows + 1 names the   *)
(* one that has not ended: two rows are of one turn if no end is between.    *)
LEMMA TurnFacts ==
  ASSUME NEW L, NEW n, IsLog(L, n), NEW q \in DOMAIN L
  PROVE  /\ Turn(L, q) \in Nat /\ Ends(L) \subseteq DOMAIN L /\ MaxRows + 1 \notin Ends(L) /\ q < MaxRows + 1
         /\ Turn(L, q) \in Ends(L) => q <= Turn(L, q) /\ \A e \in Ends(L) : e >= q => Turn(L, q) <= e
         /\ Turn(L, q) \notin Ends(L) => Turn(L, q) = MaxRows + 1 /\ \A e \in Ends(L) : ~(e >= q)
<1>. DEFINE later == {e \in Ends(L) : e >= q}
<1>1. Ends(L) \subseteq DOMAIN L /\ DOMAIN L \subseteq Nat /\ MaxRows \in Nat
      /\ \A e \in DOMAIN L : e \in Nat /\ e < MaxRows + 1
  BY RowsAssumption DEF IsLog, Ends, Cm!TurnEnds
<1>2. Turn(L, q) = IF later = {} THEN MaxRows + 1 ELSE Cm!Min(later)
  BY DEF Turn, Ends, Cm!TurnOf
<1>3. CASE later = {}
  BY <1>1, <1>2, <1>3
<1>4. CASE later # {}
  <2>1. later \subseteq Nat
    BY <1>1
  <2>. HIDE DEF later
  <2>2. Cm!Min(later) \in later /\ \A x \in later : Cm!Min(later) <= x
    BY <1>4, <2>1, LeastOf
  <2>. QED BY <1>1, <1>2, <1>4, <2>2 DEF later
<1>. QED BY <1>3, <1>4

LEMMA SameTurn ==
  ASSUME NEW L, NEW n, IsLog(L, n), NEW q \in DOMAIN L, NEW f \in DOMAIN L, q <= f
  PROVE  Turn(L, q) = Turn(L, f) <=> \A e \in Ends(L) : ~(q <= e /\ e < f)
<1>1. q \in Nat /\ f \in Nat /\ \A e \in Ends(L) : e \in Nat
  BY TurnFacts DEF IsLog
<1>2. /\ Turn(L, q) \in Nat /\ Ends(L) \subseteq DOMAIN L /\ MaxRows + 1 \notin Ends(L)
      /\ Turn(L, q) \in Ends(L) => q <= Turn(L, q) /\ \A e \in Ends(L) : e >= q => Turn(L, q) <= e
      /\ Turn(L, q) \notin Ends(L) => Turn(L, q) = MaxRows + 1 /\ \A e \in Ends(L) : ~(e >= q)
  BY TurnFacts
<1>3. /\ Turn(L, f) \in Nat
      /\ Turn(L, f) \in Ends(L) => f <= Turn(L, f) /\ \A e \in Ends(L) : e >= f => Turn(L, f) <= e
      /\ Turn(L, f) \notin Ends(L) => Turn(L, f) = MaxRows + 1 /\ \A e \in Ends(L) : ~(e >= f)
  BY TurnFacts
<1>4. ASSUME Turn(L, q) = Turn(L, f), NEW e \in Ends(L), q <= e, e < f PROVE FALSE
  BY <1>1, <1>2, <1>3, <1>4
<1>5. ASSUME \A e \in Ends(L) : ~(q <= e /\ e < f) PROVE Turn(L, q) = Turn(L, f)
  <2>1. \A e \in Ends(L) : e >= q <=> e >= f
    BY <1>1, <1>5
  <2>2. CASE Turn(L, q) \in Ends(L)
    <3>1. Turn(L, q) >= f /\ Turn(L, f) \in Ends(L)
      BY <1>1, <1>2, <1>3, <2>1, <2>2
    <3>2. Turn(L, f) <= Turn(L, q) /\ Turn(L, q) <= Turn(L, f)
      BY <1>1, <1>2, <1>3, <2>1, <2>2, <3>1
    <3>. QED BY <1>2, <1>3, <3>2
  <2>3. CASE Turn(L, q) \notin Ends(L)
    <3>1. Turn(L, f) \notin Ends(L)
      BY <1>1, <1>2, <1>3, <2>1, <2>3
    <3>. QED BY <1>2, <1>3, <2>3, <3>1
  <2>. QED BY <2>2, <2>3
<1>. QED BY <1>4, <1>5

(* What the operators of the module say, in these words.                    *)
LEMMA GroupFacts ==
  ASSUME NEW L
  PROVE  /\ \A q : Group(L, q) = {w \in DOMAIN L : /\ L[w].kind = "delta" /\ L[w].stream = L[q].stream
                                                    /\ Turn(L, w) = Turn(L, q)}
         /\ \A q : Cm!StreamIsOpen(L, q) <=> Earlier(L, q) # {}
         /\ \A q : {w \in Group(L, q) : w < q} = Earlier(L, q)
         /\ \A q : Closes(L, q) <=> \E f \in DOMAIN L : /\ L[f].kind = "final" /\ L[f].stream = L[q].stream
                                                        /\ Turn(L, f) = Turn(L, q) /\ Earlier(L, f) # {}
         /\ \A Q, x : x \in Cm!Text(L, Q) <=> \E w \in Q : x \in L[w].text
<1>1. \A q : Group(L, q) = {w \in DOMAIN L : /\ L[w].kind = "delta" /\ L[w].stream = L[q].stream
                                              /\ Turn(L, w) = Turn(L, q)}
  BY DEF Group, Turn, Cm!Deltas
<1>2. \A q : Cm!StreamIsOpen(L, q) <=> Earlier(L, q) # {}
  BY DEF Cm!StreamIsOpen, Earlier, Group, Turn
<1>3. \A q : Closes(L, q) <=> \E f \in DOMAIN L : /\ L[f].kind = "final" /\ L[f].stream = L[q].stream
                                                  /\ Turn(L, f) = Turn(L, q) /\ Earlier(L, f) # {}
  BY <1>2 DEF Closes, Cm!Finished, Turn
<1>4. \A Q, x : x \in Cm!Text(L, Q) <=> \E w \in Q : x \in L[w].text
  BY DEF Cm!Text
<1>. QED BY <1>1, <1>2, <1>3, <1>4 DEF Earlier

(* What is planned for a log fits it.                                       *)
LEMMA PlanFits ==
  ASSUME NEW L, NEW n, IsLog(L, n), NEW keepOpen \in BOOLEAN
  PROVE  /\ FitsLog(Cm!Plan(L, keepOpen), L)
         /\ keepOpen => OfClosedTurns(Cm!Plan(L, keepOpen), L)
         /\ ~keepOpen => Cm!Plan(L, keepOpen).remove = {q \in DOMAIN L : L[q].kind = "delta"}
<1>. DEFINE p == Cm!Plan(L, keepOpen)
            turns == Cm!ClosedTurns(L, keepOpen)
<1>1. p.rewrite = Cm!Rewritten(L) /\ p.remove = Cm!Removed(L, turns) /\ p.insert = Cm!Aggregates(L, turns)
  BY DEF Cm!Plan
<1>2. turns = Ends(L) \cup (IF keepOpen THEN {} ELSE {MaxRows + 1})
  BY DEF Cm!ClosedTurns, Ends
<1>3. \A q \in DOMAIN L : q \in Nat /\ (L[q].kind # "end" => L[q].stream \in Cm!Streams)
  BY DEF IsLog
<1>4. p.remove = {q \in DOMAIN L : L[q].kind = "delta" /\ Turn(L, q) \in turns}
  <2>1. ASSUME NEW q PROVE q \in Cm!Removed(L, turns) <=> q \in DOMAIN L /\ L[q].kind = "delta" /\ Turn(L, q) \in turns
    <3>1. q \in Cm!Removed(L, turns) <=> \E s \in Cm!Streams, t \in turns : q \in Cm!Deltas(L, s, t)
      BY DEF Cm!Removed
    <3>2. \A s, t : q \in Cm!Deltas(L, s, t) <=> q \in DOMAIN L /\ L[q].kind = "delta" /\ L[q].stream = s /\ Turn(L, q) = t
      BY DEF Cm!Deltas, Turn
    <3>. QED BY <1>3, <3>1, <3>2
  <2>. QED BY <1>1, <2>1
<1>5. \A f : f \in DOMAIN p.rewrite <=> /\ f \in DOMAIN L /\ L[f].kind = "final" /\ L[f].stream \in Tools
                                        /\ L[f].text = {} /\ Earlier(L, f) # {}
  BY <1>1, GroupFacts DEF Cm!Rewritten
<1>6. \A f \in DOMAIN p.rewrite : p.rewrite[f] = Cm!Text(L, Earlier(L, f))
  <2>1. \A f : {q \in Cm!Deltas(L, L[f].stream, Cm!TurnOf(L, f)) : q < f} = Earlier(L, f)
    BY DEF Earlier, Group, Turn
  <2>2. p.rewrite = [f \in DOMAIN p.rewrite |-> Cm!Text(L, {q \in Cm!Deltas(L, L[f].stream, Cm!TurnOf(L, f)) : q < f})]
    BY <1>1 DEF Cm!Rewritten
  <2>. QED BY <2>1, <2>2
<1>. DEFINE unended == {st \in Cm!Streams \X turns :
                       ~Cm!Finished(L, st[1], st[2]) /\ Cm!Text(L, Cm!Deltas(L, st[1], st[2])) # {}}
            slot(st) == Cm!Min(Cm!Deltas(L, st[1], st[2]))
            kind(s) == IF s \in Messages THEN "final" ELSE "delta"
<1>7. p.insert = [q \in {slot(st) : st \in unended} |->
                    LET st == CHOOSE x \in unended : slot(x) = q
                    IN  Cm!Row(kind(st[1]), st[1], Cm!Text(L, Cm!Deltas(L, st[1], st[2])))]
  BY <1>1 DEF Cm!Aggregates
<1>8. ASSUME NEW st \in unended
      PROVE  /\ slot(st) \in DOMAIN L /\ L[slot(st)].kind = "delta" /\ L[slot(st)].stream = st[1]
             /\ Turn(L, slot(st)) = st[2] /\ st = <<L[slot(st)].stream, Turn(L, slot(st))>>
             /\ Group(L, slot(st)) = Cm!Deltas(L, st[1], st[2])
             /\ Earlier(L, slot(st)) = {} /\ ~Closes(L, slot(st)) /\ Cm!Text(L, Group(L, slot(st))) # {}
             /\ st[2] \in turns
  <2>. DEFINE D == Cm!Deltas(L, st[1], st[2])
  <2>1. D \subseteq Nat /\ D # {}
    <3>1. Cm!Text(L, D) # {}
      OBVIOUS
    <3>2. D # {}
      BY <3>1, GroupFacts
    <3>. QED BY <1>3, <3>2 DEF Cm!Deltas
  <2>2. slot(st) \in D /\ \A x \in D : slot(st) <= x
    <3>. HIDE DEF D
    <3>1. Cm!Min(D) \in D /\ \A x \in D : Cm!Min(D) <= x
      BY <2>1, LeastOf
    <3>. QED BY <3>1 DEF D
  <2>3. slot(st) \in DOMAIN L /\ L[slot(st)].kind = "delta" /\ L[slot(st)].stream = st[1] /\ Turn(L, slot(st)) = st[2]
    BY <2>2 DEF Cm!Deltas, Turn
  <2>. HIDE DEF slot
  <2>4. Group(L, slot(st)) = D
    BY <2>3 DEF Group
  <2>5. Earlier(L, slot(st)) = {}
    BY <1>3, <2>1, <2>2, <2>3, <2>4 DEF Earlier
  <2>6. st = <<st[1], st[2]>> /\ st[2] \in turns
    OBVIOUS
  <2>7. ~Closes(L, slot(st)) /\ Cm!Text(L, Group(L, slot(st))) # {}
    BY <2>3, <2>4 DEF Closes
  <2>. QED BY <2>3, <2>4, <2>5, <2>6, <2>7
<1>. HIDE DEF slot
<1>9. ASSUME NEW q \in DOMAIN p.insert
      PROVE  /\ q \in p.remove /\ Earlier(L, q) = {} /\ ~Closes(L, q) /\ Cm!Text(L, Group(L, q)) # {}
             /\ p.insert[q] = Cm!Row(kind(L[q].stream), L[q].stream, Cm!Text(L, Group(L, q)))
  <2>. DEFINE st == CHOOSE x \in unended : slot(x) = q
  <2>1. st \in unended /\ slot(st) = q
    <3>1. q \in {slot(x) : x \in unended}
      BY <1>7
    <3>. HIDE DEF unended
    <3>2. \E x \in unended : slot(x) = q
      BY <3>1
    <3>. QED BY <3>2
  <2>2. p.insert[q] = Cm!Row(kind(st[1]), st[1], Cm!Text(L, Cm!Deltas(L, st[1], st[2])))
    <3>. HIDE DEF unended, kind
    <3>. QED BY <1>7
  <2>. HIDE DEF st, unended
  <2>3. /\ q \in DOMAIN L /\ L[q].kind = "delta" /\ L[q].stream = st[1] /\ Turn(L, q) = st[2]
        /\ Group(L, q) = Cm!Deltas(L, st[1], st[2])
        /\ Earlier(L, q) = {} /\ ~Closes(L, q) /\ Cm!Text(L, Group(L, q)) # {} /\ st[2] \in turns
    BY <1>8, <2>1
  <2>4. q \in p.remove
    <3>. HIDE DEF p, turns
    <3>. QED BY <1>4, <2>3
  <2>. QED BY <2>2, <2>3, <2>4
<1>10. ASSUME NEW r \in p.remove, ~Closes(L, r), Cm!Text(L, Group(L, r)) # {}
       PROVE  \E q \in DOMAIN p.insert : q \in Group(L, r)
  <2>. DEFINE st == <<L[r].stream, Turn(L, r)>>
  <2>1. r \in DOMAIN L /\ L[r].stream \in Cm!Streams /\ Turn(L, r) \in turns
    BY <1>3, <1>4
  <2>2. st \in unended
    BY <1>10, <2>1 DEF Closes, Group
  <2>3. slot(st) \in DOMAIN p.insert
    <3>. HIDE DEF unended, st
    <3>. QED BY <1>7, <2>2
  <2>4. slot(st) \in Group(L, r)
    <3>1. /\ slot(st) \in DOMAIN L /\ L[slot(st)].kind = "delta" /\ L[slot(st)].stream = st[1]
          /\ Turn(L, slot(st)) = st[2]
      <4>. HIDE DEF unended, st
      <4>. QED BY <1>8, <2>2
    <3>. QED BY <3>1, GroupFacts
  <2>. QED BY <2>3, <2>4
<1>11. p.remove \subseteq {q \in DOMAIN L : L[q].kind = "delta"} /\ \A q \in p.remove : Group(L, q) \subseteq p.remove
  BY <1>4, GroupFacts
<1>12. \A f \in DOMAIN L : L[f].kind = "final" /\ L[f].stream \in Tools /\ L[f].text = {} =>
         (Earlier(L, f) \cap p.remove # {} => f \in DOMAIN p.rewrite)
  BY <1>5
<1>13. FitsLog(p, L)
  <2>. HIDE DEF p
  <2>. QED BY <1>5, <1>6, <1>9, <1>10, <1>11, <1>12 DEF FitsLog
<1>14. keepOpen => OfClosedTurns(p, L)
  BY <1>2, <1>4 DEF OfClosedTurns
<1>15. ~keepOpen => p.remove = {q \in DOMAIN L : L[q].kind = "delta"}
  <2>1. \A q \in DOMAIN L : Turn(L, q) \in Ends(L) \cup {MaxRows + 1}
    BY TurnFacts
  <2>. QED BY <1>2, <1>4, <2>1
<1>. QED BY <1>13, <1>14, <1>15

IsApplied(M, L, n, p) == IsLog(L, n) /\ FitsLog(p, L) /\ M = Cm!Applied(L, p)

(* The rows after the writes of a plan.                                     *)
LEMMA AppliedDomain ==
  ASSUME NEW L, NEW n, NEW p, NEW M, IsApplied(M, L, n, p)
  PROVE  /\ DOMAIN M = (DOMAIN L \ p.remove) \cup DOMAIN p.insert
         /\ DOMAIN M \subseteq DOMAIN L /\ DOMAIN p.insert \subseteq DOMAIN L
<1>1. M = Cm!Applied(L, p) /\ DOMAIN p.insert \subseteq p.remove /\ p.remove \subseteq DOMAIN L
  BY DEF IsApplied, FitsLog
<1>. DEFINE R == Cm!Replaced(L, p)
            W == Cm!Without(R, p.remove)
<1>2. DOMAIN R = DOMAIN L
  BY DEF Cm!Replaced
<1>3. DOMAIN W = DOMAIN L \ p.remove
  <2>. HIDE DEF R
  <2>. QED BY <1>2 DEF Cm!Without
<1>4. DOMAIN M = DOMAIN W \cup DOMAIN p.insert
  BY <1>1 DEF Cm!Applied, Cm!With
<1>. HIDE DEF R, W
<1>. QED BY <1>1, <1>3, <1>4

(* The log after the writes of a plan: a row that is kept is as it was but   *)
(* for a final that was given its text.                                     *)
LEMMA AppliedRows ==
  ASSUME NEW L, NEW n, NEW p, NEW M, IsApplied(M, L, n, p)
  PROVE  /\ \A q \in DOMAIN M : M[q].stream = L[q].stream /\ (M[q].kind = "end" <=> L[q].kind = "end")
         /\ \A q \in DOMAIN M : M[q] \in Logged /\ (M[q].kind # "end" => M[q].stream \in Cm!Streams)
         /\ \A q \in DOMAIN p.insert : M[q] = p.insert[q]
         /\ \A q \in DOMAIN L \ p.remove : /\ M[q].kind = L[q].kind
                                           /\ q \notin DOMAIN p.rewrite => M[q] = L[q]
                                           /\ q \in DOMAIN p.rewrite => M[q].text = p.rewrite[q]
<1>0. IsLog(L, n) /\ FitsLog(p, L) /\ M = Cm!Applied(L, p)
  BY DEF IsApplied
<1>1. /\ DOMAIN p.insert \subseteq p.remove
      /\ p.remove \subseteq {q \in DOMAIN L : L[q].kind = "delta"}
      /\ \A f \in DOMAIN p.rewrite : f \in DOMAIN L /\ L[f].kind = "final"
  BY <1>0 DEF FitsLog
<1>. DEFINE R == Cm!Replaced(L, p)
            W == Cm!Without(R, p.remove)
<1>2. /\ DOMAIN R = DOMAIN L
      /\ \A q \in DOMAIN L : R[q] = IF q \in DOMAIN p.rewrite THEN [L[q] EXCEPT !.text = p.rewrite[q]] ELSE L[q]
  BY DEF Cm!Replaced
<1>3. DOMAIN W = DOMAIN L \ p.remove /\ \A q \in DOMAIN W : W[q] = R[q]
  <2>. HIDE DEF R
  <2>. QED BY <1>2 DEF Cm!Without
<1>4. M = [q \in DOMAIN W \cup DOMAIN p.insert |-> IF q \in DOMAIN p.insert THEN p.insert[q] ELSE W[q]]
  BY <1>0 DEF Cm!Applied, Cm!With
<1>. HIDE DEF R, W
<1>5. DOMAIN M = (DOMAIN L \ p.remove) \cup DOMAIN p.insert /\ DOMAIN M \subseteq DOMAIN L
  BY <1>1, <1>3, <1>4
<1>6. \A q \in DOMAIN p.insert : M[q] = p.insert[q]
  BY <1>4
<1>7. \A q \in DOMAIN L \ p.remove : M[q] = IF q \in DOMAIN p.rewrite THEN [L[q] EXCEPT !.text = p.rewrite[q]] ELSE L[q]
  BY <1>1, <1>2, <1>3, <1>4
<1>8. \A q \in DOMAIN L : L[q] \in Logged /\ (L[q].kind # "end" => L[q].stream \in Cm!Streams)
  BY <1>0 DEF IsLog
<1>9. ASSUME NEW q \in DOMAIN L \ p.remove
      PROVE  /\ M[q].kind = L[q].kind /\ M[q].stream = L[q].stream
             /\ q \notin DOMAIN p.rewrite => M[q] = L[q]
             /\ q \in DOMAIN p.rewrite => M[q].text = p.rewrite[q]
             /\ M[q] \in Logged
  <2>1. CASE q \notin DOMAIN p.rewrite
    BY <1>7, <1>8, <2>1
  <2>2. CASE q \in DOMAIN p.rewrite
    <3>1. M[q] = [L[q] EXCEPT !.text = p.rewrite[q]] /\ L[q] \in Logged
      BY <1>7, <1>8, <2>2
    <3>2. p.rewrite[q] \in SUBSET Nat
      <4>1. p.rewrite[q] = Cm!Text(L, Earlier(L, q)) /\ Earlier(L, q) \subseteq DOMAIN L
        <5>1. p.rewrite[q] = Cm!Text(L, Earlier(L, q))
          BY <1>0, <2>2 DEF FitsLog
        <5>2. Earlier(L, q) \subseteq Group(L, q) /\ Group(L, q) \subseteq DOMAIN L
          BY GroupFacts DEF Earlier
        <5>. QED BY <5>1, <5>2
      <4>2. \A w \in DOMAIN L : L[w].text \subseteq Nat
        BY <1>8 DEF Logged
      <4>3. \A x \in Cm!Text(L, Earlier(L, q)) : x \in Nat
        BY <4>1, <4>2, GroupFacts
      <4>. QED BY <4>1, <4>3
    <3>. QED BY <2>2, <3>1, <3>2 DEF Logged
  <2>. QED BY <2>1, <2>2
<1>10. ASSUME NEW q \in DOMAIN p.insert
       PROVE  /\ M[q].stream = L[q].stream /\ M[q] \in Logged /\ M[q].kind # "end" /\ L[q].kind = "delta"
              /\ L[q].stream \in Cm!Streams
  <2>1. /\ q \in DOMAIN L /\ L[q].kind = "delta"
        /\ M[q] = Cm!Row(IF L[q].stream \in Messages THEN "final" ELSE "delta",
                         L[q].stream, Cm!Text(L, Group(L, q)))
    BY <1>0, <1>1, <1>6 DEF FitsLog
  <2>2. L[q].stream \in Cm!Streams
    BY <1>8, <2>1
  <2>3. Cm!Text(L, Group(L, q)) \in SUBSET Nat
    <3>1. Group(L, q) \subseteq DOMAIN L
      BY GroupFacts
    <3>2. \A w \in DOMAIN L : L[w].text \subseteq Nat
      BY <1>8 DEF Logged
    <3>3. \A x \in Cm!Text(L, Group(L, q)) : x \in Nat
      BY <3>1, <3>2, GroupFacts
    <3>. QED BY <3>3
  <2>. QED BY <2>1, <2>2, <2>3 DEF Cm!Row, Logged
<1>11. \A q \in DOMAIN M : M[q].stream = L[q].stream /\ (M[q].kind = "end" <=> L[q].kind = "end")
  BY <1>5, <1>9, <1>10
<1>12. \A q \in DOMAIN M : M[q] \in Logged /\ (M[q].kind # "end" => M[q].stream \in Cm!Streams)
  BY <1>5, <1>8, <1>9, <1>10
<1>. QED BY <1>6, <1>9, <1>11, <1>12

(* It is a log still, and its turns are the same.                           *)
LEMMA AppliedLog ==
  ASSUME NEW L, NEW n, NEW p, NEW M, IsApplied(M, L, n, p)
  PROVE  Ends(M) = Ends(L) /\ IsLog(M, n) /\ \A q : Turn(M, q) = Turn(L, q)
<1>1. /\ DOMAIN M = (DOMAIN L \ p.remove) \cup DOMAIN p.insert /\ DOMAIN M \subseteq DOMAIN L
      /\ IsLog(L, n)
  BY AppliedDomain DEF IsApplied
<1>2. \A q \in DOMAIN M : M[q].stream = L[q].stream /\ (M[q].kind = "end" <=> L[q].kind = "end")
  BY AppliedRows
<1>3. \A q \in DOMAIN M : M[q] \in Logged /\ (M[q].kind # "end" => M[q].stream \in Cm!Streams)
  BY AppliedRows
<1>4. ASSUME NEW q \in DOMAIN L, L[q].kind = "end" PROVE q \in DOMAIN M
  BY <1>1, <1>4 DEF IsApplied, FitsLog
<1>5. Ends(M) = Ends(L)
  BY <1>1, <1>2, <1>4 DEF Ends, Cm!TurnEnds
<1>6. IsLog(M, n)
  BY <1>1, <1>3 DEF IsLog
<1>. QED BY <1>5, <1>6 DEF Turn, Ends, Cm!TurnOf

(* Whatever stays a delta was one, and the group it is of was in the log.   *)
LEMMA AppliedGroups ==
  ASSUME NEW L, NEW n, NEW p, NEW M, IsApplied(M, L, n, p)
  PROVE  /\ \A q : Turn(M, q) = Turn(L, q)
         /\ \A q \in DOMAIN M : Group(M, q) \subseteq Group(L, q) /\ Earlier(M, q) \subseteq Earlier(L, q)
         /\ \A q \in DOMAIN p.insert : /\ q \in p.remove /\ q \in DOMAIN L /\ L[q].kind = "delta"
                                       /\ Group(L, q) \subseteq p.remove
                                       /\ M[q].kind = IF L[q].stream \in Messages THEN "final" ELSE "delta"
                                       /\ M[q].text = Cm!Text(L, Group(L, q))
                                       /\ Earlier(L, q) = {} /\ ~Closes(L, q)
<1>0. DOMAIN M = (DOMAIN L \ p.remove) \cup DOMAIN p.insert /\ DOMAIN M \subseteq DOMAIN L
  BY AppliedDomain
<1>1. /\ \A q \in DOMAIN M : M[q].stream = L[q].stream
      /\ \A q \in DOMAIN p.insert : M[q] = p.insert[q]
      /\ \A q \in DOMAIN L \ p.remove : M[q].kind = L[q].kind
  BY AppliedRows
<1>2. \A q : Turn(M, q) = Turn(L, q)
  BY AppliedLog
<1>3. ASSUME NEW q \in DOMAIN p.insert
      PROVE  /\ q \in p.remove /\ q \in DOMAIN L /\ L[q].kind = "delta"
             /\ Group(L, q) \subseteq p.remove
             /\ M[q].kind = IF L[q].stream \in Messages THEN "final" ELSE "delta"
             /\ M[q].text = Cm!Text(L, Group(L, q))
             /\ Earlier(L, q) = {} /\ ~Closes(L, q)
  <2>1. /\ q \in p.remove /\ Earlier(L, q) = {} /\ ~Closes(L, q)
        /\ p.insert[q] = Cm!Row(IF L[q].stream \in Messages THEN "final" ELSE "delta",
                                L[q].stream, Cm!Text(L, Group(L, q)))
    BY DEF IsApplied, FitsLog
  <2>2. q \in DOMAIN L /\ L[q].kind = "delta" /\ Group(L, q) \subseteq p.remove
    BY <2>1 DEF IsApplied, FitsLog
  <2>. QED BY <1>1, <2>1, <2>2 DEF Cm!Row
<1>4. ASSUME NEW q \in DOMAIN M, NEW w \in Group(M, q) PROVE w \in Group(L, q)
  <2>1. w \in DOMAIN M /\ M[w].kind = "delta" /\ M[w].stream = M[q].stream /\ Turn(M, w) = Turn(M, q)
    BY <1>4, GroupFacts
  <2>2. w \in DOMAIN L /\ L[w].kind = "delta"
    BY <1>0, <1>1, <1>3, <2>1
  <2>3. L[w].stream = L[q].stream /\ Turn(L, w) = Turn(L, q)
    BY <1>0, <1>1, <1>2, <1>4, <2>1
  <2>. QED BY <2>2, <2>3, GroupFacts
<1>5. \A q \in DOMAIN M : Earlier(M, q) \subseteq Earlier(L, q)
  BY <1>4 DEF Earlier
<1>. QED BY <1>2, <1>3, <1>4, <1>5

LEMMA ApplyingKeepsFinals ==
  ASSUME NEW L, NEW n, NEW p, NEW M, IsApplied(M, L, n, p), FinalsHaveIt(L)
  PROVE  FinalsHaveIt(M)
<1>. SUFFICES ASSUME NEW f \in DOMAIN M, M[f].kind = "final", NEW q \in Earlier(M, f),
                     ~(M[f].stream \in Tools /\ M[f].text = {})
              PROVE  M[q].text \subseteq M[f].text
  BY DEF FinalsHaveIt
<1>0. DOMAIN M = (DOMAIN L \ p.remove) \cup DOMAIN p.insert /\ DOMAIN M \subseteq DOMAIN L
  BY AppliedDomain
<1>1. /\ \A r \in DOMAIN M : M[r].stream = L[r].stream
      /\ \A r \in DOMAIN L \ p.remove : /\ M[r].kind = L[r].kind
                                        /\ r \notin DOMAIN p.rewrite => M[r] = L[r]
                                        /\ r \in DOMAIN p.rewrite => M[r].text = p.rewrite[r]
  BY AppliedRows
<1>2. \A r \in DOMAIN p.insert : /\ r \in p.remove /\ r \in DOMAIN L /\ L[r].kind = "delta"
                                 /\ Group(L, r) \subseteq p.remove
                                 /\ M[r].kind = IF L[r].stream \in Messages THEN "final" ELSE "delta"
                                 /\ M[r].text = Cm!Text(L, Group(L, r))
                                 /\ Earlier(L, r) = {} /\ ~Closes(L, r)
  BY AppliedGroups
<1>3. /\ q \in Earlier(L, f) /\ f \in DOMAIN L /\ q \in DOMAIN M /\ q \in Group(L, f)
      /\ M[q].kind = "delta" /\ L[q].kind = "delta" /\ L[q].stream = L[f].stream /\ Turn(L, q) = Turn(L, f)
  <2>1. q \in Earlier(L, f) /\ f \in DOMAIN L
    BY <1>0, <1>1, AppliedGroups
  <2>2. q \in Group(M, f) /\ q \in Group(L, f)
    BY <2>1 DEF Earlier
  <2>. QED BY <2>1, <2>2, GroupFacts
<1>4. f \notin DOMAIN p.insert
  BY <1>2, <1>3
<1>5. f \in DOMAIN L \ p.remove /\ L[f].kind = "final"
  BY <1>0, <1>1, <1>4
<1>6. q \notin DOMAIN p.insert
  <2>1. Closes(L, q) \/ q \notin DOMAIN p.insert
    BY <1>3, <1>5, GroupFacts
  <2>. QED BY <1>2, <2>1
<1>7. q \in DOMAIN L \ p.remove /\ q \notin DOMAIN p.rewrite /\ M[q] = L[q]
  <2>1. \A r \in DOMAIN p.rewrite : L[r].kind = "final"
    BY DEF IsApplied, FitsLog
  <2>. QED BY <1>0, <1>1, <1>3, <1>6, <2>1
<1>8. CASE f \in DOMAIN p.rewrite
  <2>1. M[f].text = Cm!Text(L, Earlier(L, f))
    BY <1>0, <1>1, <1>5, <1>8 DEF IsApplied, FitsLog
  <2>2. \A x \in L[q].text : x \in Cm!Text(L, Earlier(L, f))
    BY <1>3, GroupFacts
  <2>. QED BY <1>7, <2>1, <2>2
<1>9. CASE f \notin DOMAIN p.rewrite
  <2>1. M[f] = L[f]
    BY <1>0, <1>1, <1>5, <1>9
  <2>2. L[q].text \subseteq L[f].text \/ (L[f].stream \in Tools /\ L[f].text = {})
    BY <1>3, <1>5 DEF FinalsHaveIt
  <2>. QED BY <1>7, <2>1, <2>2
<1>. QED BY <1>8, <1>9

LEMMA ApplyingKeepsLate ==
  ASSUME NEW L, NEW n, NEW p, NEW M, IsApplied(M, L, n, p),
         NEW said, LateIsKnown(L, said)
  PROVE  LateIsKnown(M, said)
<1>. SUFFICES ASSUME NEW f \in DOMAIN M, M[f].kind = "final", Earlier(M, f) # {},
                     NEW q \in Group(M, f), q > f
              PROVE  M[q].text \subseteq said
  BY DEF LateIsKnown
<1>0. DOMAIN M = (DOMAIN L \ p.remove) \cup DOMAIN p.insert /\ DOMAIN M \subseteq DOMAIN L
  BY AppliedDomain
<1>1. /\ \A r \in DOMAIN L \ p.remove : /\ M[r].kind = L[r].kind
                                        /\ r \notin DOMAIN p.rewrite => M[r] = L[r]
  BY AppliedRows
<1>2. \A r \in DOMAIN p.insert : Earlier(L, r) = {} /\ ~Closes(L, r)
  BY AppliedGroups
<1>3. /\ q \in Group(L, f) /\ f \in DOMAIN L /\ q \in DOMAIN M /\ Earlier(L, f) # {}
      /\ M[q].kind = "delta" /\ L[q].kind = "delta" /\ L[q].stream = L[f].stream /\ Turn(L, q) = Turn(L, f)
  <2>1. q \in Group(L, f) /\ f \in DOMAIN L /\ Earlier(L, f) # {}
    BY <1>0, <1>1, AppliedGroups
  <2>. QED BY <2>1, GroupFacts
<1>4. f \notin DOMAIN p.insert
  BY <1>2, <1>3
<1>5. f \in DOMAIN L \ p.remove /\ L[f].kind = "final"
  BY <1>0, <1>1, <1>4
<1>6. q \notin DOMAIN p.insert
  <2>1. Closes(L, q) \/ q \notin DOMAIN p.insert
    BY <1>3, <1>5, GroupFacts
  <2>. QED BY <1>2, <2>1
<1>7. M[q] = L[q]
  <2>1. \A r \in DOMAIN p.rewrite : L[r].kind = "final"
    BY DEF IsApplied, FitsLog
  <2>. QED BY <1>0, <1>1, <1>3, <1>6, <2>1
<1>8. L[q].text \subseteq said
  BY <1>3, <1>5 DEF LateIsKnown
<1>. QED BY <1>7, <1>8

(* What a row says is still said: a group that goes is in its final, in the  *)
(* final that is given it, or in the one row that stands for it.            *)
LEMMA ApplyingLosesNothing ==
  ASSUME NEW L, NEW n, NEW p, NEW M, IsApplied(M, L, n, p),
         FinalsHaveIt(L), NEW said, LateIsKnown(L, said),
         NEW r \in DOMAIN L, NEW x \in L[r].text, x \notin said
  PROVE  \E q \in DOMAIN M : x \in M[q].text
<1>0. DOMAIN M = (DOMAIN L \ p.remove) \cup DOMAIN p.insert /\ DOMAIN M \subseteq DOMAIN L
  BY AppliedDomain
<1>1. /\ \A q \in DOMAIN L \ p.remove : /\ q \notin DOMAIN p.rewrite => M[q] = L[q]
                                        /\ q \in DOMAIN p.rewrite => M[q].text = p.rewrite[q]
  BY AppliedRows
<1>2. \A q \in DOMAIN p.rewrite : L[q].text = {} /\ p.rewrite[q] = Cm!Text(L, Earlier(L, q))
  BY DEF IsApplied, FitsLog
<1>3. CASE r \notin p.remove
  <2>1. r \notin DOMAIN p.rewrite
    BY <1>2
  <2>2. r \in DOMAIN M /\ M[r] = L[r]
    BY <1>0, <1>1, <1>3, <2>1
  <2>. QED BY <2>2
<1>4. CASE r \in p.remove /\ ~Closes(L, r)
  <2>1. r \in Group(L, r)
    <3>1. L[r].kind = "delta"
      BY <1>4 DEF IsApplied, FitsLog
    <3>. QED BY <3>1, GroupFacts
  <2>2. Cm!Text(L, Group(L, r)) # {}
    BY <2>1, GroupFacts
  <2>3. PICK q \in DOMAIN p.insert : q \in Group(L, r)
    BY <1>4, <2>2 DEF IsApplied, FitsLog
  <2>4. M[q].text = Cm!Text(L, Group(L, q))
    BY <2>3, AppliedGroups
  <2>5. Group(L, q) = Group(L, r)
    <3>1. L[q].stream = L[r].stream /\ Turn(L, q) = Turn(L, r)
      BY <2>3, GroupFacts
    <3>. QED BY <3>1 DEF Group
  <2>6. x \in M[q].text
    BY <2>1, <2>4, <2>5, GroupFacts
  <2>. QED BY <1>0, <1>1, <2>6
<1>5. CASE r \in p.remove /\ Closes(L, r)
  <2>1. PICK f \in DOMAIN L : /\ L[f].kind = "final" /\ L[f].stream = L[r].stream
                              /\ Turn(L, f) = Turn(L, r) /\ Earlier(L, f) # {}
    BY <1>5, GroupFacts
  <2>2. L[r].kind = "delta" /\ r \in Nat /\ f \in Nat
    BY <1>5 DEF IsApplied, FitsLog, IsLog
  <2>3. r \in Group(L, f) /\ r # f
    BY <2>1, <2>2, GroupFacts
  <2>4. f \notin p.remove
    BY <2>1 DEF IsApplied, FitsLog
  <2>5. CASE r < f
    <3>1. r \in Earlier(L, f)
      BY <2>3, <2>5 DEF Earlier
    <3>2. L[r].text \subseteq L[f].text \/ (L[f].stream \in Tools /\ L[f].text = {})
      BY <2>1, <3>1 DEF FinalsHaveIt
    <3>3. CASE f \in DOMAIN p.rewrite
      <4>1. M[f].text = Cm!Text(L, Earlier(L, f)) /\ f \in DOMAIN M
        BY <1>0, <1>1, <1>2, <2>4, <3>3
      <4>2. x \in M[f].text
        BY <3>1, <4>1, GroupFacts
      <4>. QED BY <4>1, <4>2
    <3>4. CASE f \notin DOMAIN p.rewrite
      <4>1. ~(L[f].stream \in Tools /\ L[f].text = {})
        <5>1. Earlier(L, f) \cap p.remove # {}
          BY <1>5, <3>1
        <5>. QED BY <2>1, <3>4, <5>1 DEF IsApplied, FitsLog
      <4>2. M[f] = L[f] /\ f \in DOMAIN M
        BY <1>0, <1>1, <2>4, <3>4
      <4>. QED BY <3>2, <4>1, <4>2
    <3>. QED BY <3>3, <3>4
  <2>6. CASE r > f
    <3>1. L[r].text \subseteq said
      BY <2>1, <2>3, <2>6 DEF LateIsKnown
    <3>. QED BY <3>1
  <2>. QED BY <2>2, <2>3, <2>5, <2>6
<1>. QED BY <1>3, <1>4, <1>5

(* A log compacted at rest: what is still a delta stands for an unfinished   *)
(* group of a tool, alone, and nothing of its stream came later in its turn, *)
(* so the next compaction puts there what is there.                         *)
LEMMA CompactsOnceOnly ==
  ASSUME NEW L, NEW n, IsLog(L, n)
  PROVE  Cm!Applied(Cm!Applied(L, Cm!Plan(L, FALSE)), Cm!Plan(Cm!Applied(L, Cm!Plan(L, FALSE)), FALSE))
           = Cm!Applied(L, Cm!Plan(L, FALSE))
<1>. DEFINE p == Cm!Plan(L, FALSE)
            once == Cm!Applied(L, p)
            again == Cm!Plan(once, FALSE)
            twice == Cm!Applied(once, again)
<1>1. FitsLog(p, L) /\ p.remove = {q \in DOMAIN L : L[q].kind = "delta"}
  BY PlanFits
<1>2. once = [q \in DOMAIN once |-> once[q]] /\ twice = [q \in DOMAIN twice |-> twice[q]]
  <2>1. once = [q \in DOMAIN Cm!Without(Cm!Replaced(L, p), p.remove) \cup DOMAIN p.insert |->
                  IF q \in DOMAIN p.insert THEN p.insert[q] ELSE Cm!Without(Cm!Replaced(L, p), p.remove)[q]]
    BY DEF Cm!Applied, Cm!With
  <2>2. twice = [q \in DOMAIN Cm!Without(Cm!Replaced(once, again), again.remove) \cup DOMAIN again.insert |->
                   IF q \in DOMAIN again.insert THEN again.insert[q]
                   ELSE Cm!Without(Cm!Replaced(once, again), again.remove)[q]]
    BY DEF Cm!Applied, Cm!With
  <2>. HIDE DEF p, once, again, twice
  <2>. QED BY <2>1, <2>2
<1>3. IsApplied(once, L, n, p)
  BY <1>1 DEF IsApplied
<1>. HIDE DEF p
<1>4. IsLog(once, n)
  <2>. HIDE DEF once
  <2>. QED BY <1>3, AppliedLog
<1>5. FitsLog(again, once) /\ again.remove = {q \in DOMAIN once : once[q].kind = "delta"}
  <2>. HIDE DEF once
  <2>. QED BY <1>4, PlanFits
<1>6. IsApplied(twice, once, n, again)
  BY <1>4, <1>5 DEF IsApplied
<1>. HIDE DEF again, once, twice
<1>7. /\ DOMAIN once = (DOMAIN L \ p.remove) \cup DOMAIN p.insert
      /\ DOMAIN once \subseteq DOMAIN L /\ DOMAIN p.insert \subseteq DOMAIN L
  BY <1>3, AppliedDomain
<1>8. /\ \A q \in DOMAIN once : once[q].stream = L[q].stream
      /\ \A q \in DOMAIN p.insert : once[q] = p.insert[q]
      /\ \A q \in DOMAIN L \ p.remove : once[q].kind = L[q].kind
  BY <1>3, AppliedRows
<1>9. \A q : Turn(once, q) = Turn(L, q)
  BY <1>3, AppliedLog
<1>10. /\ \A q \in DOMAIN once : Group(once, q) \subseteq Group(L, q)
       /\ \A q \in DOMAIN p.insert : /\ once[q].kind = IF L[q].stream \in Messages THEN "final" ELSE "delta"
                                     /\ once[q].text = Cm!Text(L, Group(L, q))
                                     /\ Earlier(L, q) = {} /\ ~Closes(L, q)
  BY <1>3, AppliedGroups
<1>11. ASSUME NEW d \in DOMAIN once, once[d].kind = "delta"
       PROVE  /\ d \in DOMAIN p.insert /\ L[d].stream \notin Messages /\ L[d].kind = "delta" /\ d \in Nat
              /\ once[d] = Cm!Row("delta", once[d].stream, once[d].text) /\ once[d].text # {}
  <2>1. d \in DOMAIN p.insert
    BY <1>1, <1>7, <1>8, <1>11
  <2>2. L[d].stream \notin Messages
    BY <1>10, <1>11, <2>1
  <2>3. L[d].kind = "delta" /\ d \in Nat
    BY <1>1, <1>7, <2>1 DEF FitsLog, IsLog
  <2>4. /\ p.insert[d] = Cm!Row(IF L[d].stream \in Messages THEN "final" ELSE "delta",
                               L[d].stream, Cm!Text(L, Group(L, d)))
        /\ Cm!Text(L, Group(L, d)) # {}
    BY <1>1, <2>1 DEF FitsLog
  <2>5. once[d] = Cm!Row("delta", L[d].stream, Cm!Text(L, Group(L, d)))
    BY <1>8, <2>1, <2>2, <2>4
  <2>. QED BY <1>8, <1>10, <2>1, <2>2, <2>3, <2>4, <2>5
<1>12. ASSUME NEW d \in DOMAIN once, once[d].kind = "delta",
              NEW f \in DOMAIN once, once[f].kind = "final", once[f].stream = once[d].stream,
              Turn(once, f) = Turn(once, d), d < f
       PROVE  FALSE
  <2>1. d \in DOMAIN p.insert /\ L[d].stream \notin Messages /\ L[d].kind = "delta"
    BY <1>11, <1>12
  <2>2. L[f].stream = L[d].stream /\ Turn(L, f) = Turn(L, d) /\ d \in DOMAIN L /\ f \in DOMAIN L
    BY <1>7, <1>8, <1>9, <1>12
  <2>3. f \notin DOMAIN p.insert
    BY <1>10, <1>12, <2>1, <2>2
  <2>4. L[f].kind = "final"
    BY <1>7, <1>8, <1>12, <2>3
  <2>5. d \in Earlier(L, f)
    <3>1. d \in Group(L, f)
      BY <2>1, <2>2, GroupFacts
    <3>. QED BY <1>12, <3>1 DEF Earlier
  <2>6. Closes(L, d)
    BY <2>2, <2>4, <2>5, GroupFacts
  <2>. QED BY <1>10, <2>1, <2>6
<1>13. ASSUME NEW f \in DOMAIN once, once[f].kind = "final" PROVE Earlier(once, f) = {}
  <2>1. SUFFICES ASSUME NEW d \in Earlier(once, f) PROVE FALSE
    OBVIOUS
  <2>2. d \in Group(once, f) /\ d < f
    BY <2>1 DEF Earlier
  <2>3. d \in DOMAIN once /\ once[d].kind = "delta" /\ once[d].stream = once[f].stream /\ Turn(once, d) = Turn(once, f)
    BY <2>2, GroupFacts
  <2>. QED BY <1>12, <1>13, <2>2, <2>3
<1>14. DOMAIN again.rewrite = {}
  <2>1. \A f \in DOMAIN again.rewrite : f \in DOMAIN once /\ once[f].kind = "final" /\ Earlier(once, f) # {}
    BY <1>5 DEF FitsLog
  <2>. QED BY <1>13, <2>1
<1>15. ASSUME NEW d \in DOMAIN once, once[d].kind = "delta"
       PROVE  d \in DOMAIN again.insert /\ again.insert[d] = once[d]
  <2>1. /\ d \in DOMAIN p.insert /\ d \in Nat /\ L[d].stream \notin Messages /\ L[d].kind = "delta"
        /\ once[d] = Cm!Row("delta", once[d].stream, once[d].text) /\ once[d].text # {}
    BY <1>11, <1>15
  <2>2. ASSUME NEW e \in Group(once, d) PROVE e = d
    <3>1. e \in DOMAIN once /\ once[e].kind = "delta"
      BY <2>2, GroupFacts
    <3>2. e \in DOMAIN p.insert /\ e \in Nat /\ L[e].kind = "delta" /\ e \in Group(L, d)
      BY <1>10, <1>11, <2>2, <3>1
    <3>3. d \in Group(L, e)
      BY <1>7, <2>1, <3>2, GroupFacts
    <3>4. Earlier(L, e) = {} /\ Earlier(L, d) = {}
      BY <1>10, <2>1, <3>2
    <3>5. ~(e < d) /\ ~(d < e)
      BY <3>2, <3>3, <3>4 DEF Earlier
    <3>. QED BY <2>1, <3>2, <3>5
  <2>3. d \in Group(once, d)
    BY <1>15, GroupFacts
  <2>4. Cm!Text(once, Group(once, d)) = once[d].text
    <3>1. \A x : x \in Cm!Text(once, Group(once, d)) <=> \E w \in Group(once, d) : x \in once[w].text
      BY GroupFacts
    <3>2. \A x : x \in Cm!Text(once, Group(once, d)) <=> x \in once[d].text
      BY <2>2, <2>3, <3>1
    <3>3. Group(once, d) = {d}
      BY <2>2, <2>3
    <3>4. Cm!Text(once, {d}) = once[d].text
      BY DEF Cm!Text
    <3>. QED BY <3>3, <3>4
  <2>5. ~Closes(once, d)
    BY <1>13, GroupFacts
  <2>6. d \in again.remove
    BY <1>5, <1>15
  <2>7. d \in DOMAIN again.insert
    <3>1. \E q \in DOMAIN again.insert : q \in Group(once, d)
      BY <1>5, <2>1, <2>4, <2>5, <2>6 DEF FitsLog
    <3>. QED BY <2>2, <3>1
  <2>8. again.insert[d] = Cm!Row(IF once[d].stream \in Messages THEN "final" ELSE "delta",
                                 once[d].stream, Cm!Text(once, Group(once, d)))
    BY <1>5, <2>7 DEF FitsLog
  <2>9. once[d].stream \notin Messages
    BY <1>8, <2>1
  <2>. QED BY <2>1, <2>4, <2>7, <2>8, <2>9
<1>16. DOMAIN twice = (DOMAIN once \ again.remove) \cup DOMAIN again.insert /\ DOMAIN again.insert \subseteq DOMAIN once
  BY <1>6, AppliedDomain
<1>17. /\ \A q \in DOMAIN again.insert : twice[q] = again.insert[q]
       /\ \A q \in DOMAIN once \ again.remove : q \notin DOMAIN again.rewrite => twice[q] = once[q]
  BY <1>6, AppliedRows
<1>18. DOMAIN twice = DOMAIN once
  BY <1>5, <1>15, <1>16
<1>19. ASSUME NEW q \in DOMAIN once PROVE twice[q] = once[q]
  <2>1. CASE q \in again.remove
    BY <1>5, <1>15, <1>17, <2>1
  <2>2. CASE q \notin again.remove
    BY <1>14, <1>17, <2>2
  <2>. QED BY <2>1, <2>2
<1>20. twice = once
  BY <1>2, <1>18, <1>19
<1>. QED BY <1>20 DEF twice, once, again, p

(* A daemon that appends.                                                   *)
IsAppended(M, L, n, row) ==
  /\ IsLog(L, n) /\ n <= MaxRows
  /\ row \in Logged /\ (row.kind # "end" => row.stream \in Cm!Streams)
  /\ M = [q \in DOMAIN L \cup {n} |-> IF q = n THEN row ELSE L[q]]

LEMMA AppendedDomain ==
  ASSUME NEW L, NEW n, NEW row, NEW M, IsAppended(M, L, n, row)
  PROVE  DOMAIN M = DOMAIN L \cup {n} /\ n \notin DOMAIN L /\ n \in Nat /\ n \in DOMAIN M
<1>1. n \in Nat /\ \A q \in DOMAIN L : q \in Nat /\ q < n
  BY DEF IsAppended, IsLog
<1>2. DOMAIN M = DOMAIN L \cup {n}
  BY DEF IsAppended
<1>. QED BY <1>1, <1>2

(* The rows before are as they were.                                        *)
LEMMA AppendedRows ==
  ASSUME NEW L, NEW n, NEW row, NEW M, IsAppended(M, L, n, row)
  PROVE  /\ \A q \in DOMAIN L : M[q] = L[q] /\ q \in Nat /\ q < n /\ q \in DOMAIN M
         /\ M[n] = row /\ IsLog(M, n + 1) /\ IsLog(L, n)
         /\ Ends(L) \subseteq Ends(M) /\ Ends(M) \subseteq Ends(L) \cup {n}
<1>0. IsLog(L, n)
  BY DEF IsAppended
<1>1. /\ n \in Nat /\ 1 <= n /\ n <= MaxRows /\ MaxRows \in Nat
      /\ \A q \in DOMAIN L : q \in Nat /\ 1 <= q /\ q < n
      /\ \A q \in DOMAIN L : L[q] \in Logged /\ (L[q].kind # "end" => L[q].stream \in Cm!Streams)
  BY RowsAssumption DEF IsAppended, IsLog
<1>2. n \notin DOMAIN L
  BY <1>1
<1>3. DOMAIN M = DOMAIN L \cup {n} /\ M[n] = row
  BY DEF IsAppended
<1>4. \A q \in DOMAIN L : M[q] = L[q] /\ q \in Nat /\ q < n
  BY <1>1, <1>2 DEF IsAppended
<1>5. IsLog(M, n + 1)
  <2>1. \A q \in DOMAIN M : M[q] \in Logged /\ (M[q].kind # "end" => M[q].stream \in Cm!Streams)
    <3>1. row \in Logged /\ (row.kind # "end" => row.stream \in Cm!Streams)
      BY DEF IsAppended
    <3>. QED BY <1>1, <1>3, <1>4, <3>1
  <2>2. \A q \in DOMAIN M : q \in Nat /\ 1 <= q /\ q < n + 1
    BY <1>1, <1>3
  <2>3. n + 1 \in Nat /\ 1 <= n + 1 /\ n + 1 <= MaxRows + 1
    BY <1>1
  <2>. QED BY <2>1, <2>2, <2>3 DEF IsLog
<1>6. Ends(L) \subseteq Ends(M) /\ Ends(M) \subseteq Ends(L) \cup {n}
  BY <1>3, <1>4 DEF Ends, Cm!TurnEnds
<1>. QED BY <1>0, <1>3, <1>4, <1>5, <1>6

(* The turns of the rows before, and which of them is that of the new row.  *)
LEMMA AppendedTurns ==
  ASSUME NEW L, NEW n, NEW row, NEW M, IsAppended(M, L, n, row)
  PROVE  /\ \A q, w \in DOMAIN L : Turn(M, q) = Turn(M, w) <=> Turn(L, q) = Turn(L, w)
         /\ \A q \in DOMAIN L : Turn(L, q) \in Ends(L) =>
              Turn(M, q) = Turn(L, q) /\ Turn(M, q) \in Ends(M) /\ Turn(M, q) # Turn(M, n)
         /\ \A q \in DOMAIN L : Turn(M, q) = Turn(M, n) => Turn(L, q) = MaxRows + 1
<1>1. /\ DOMAIN M = DOMAIN L \cup {n} /\ n \notin DOMAIN L /\ n \in Nat
      /\ \A q \in DOMAIN L : q \in Nat /\ q < n
      /\ IsLog(M, n + 1) /\ IsLog(L, n)
      /\ Ends(L) \subseteq Ends(M) /\ Ends(M) \subseteq Ends(L) \cup {n}
  <2>1. DOMAIN M = DOMAIN L \cup {n} /\ n \notin DOMAIN L /\ n \in Nat
    BY AppendedDomain
  <2>2. /\ \A q \in DOMAIN L : q \in Nat /\ q < n
        /\ IsLog(M, n + 1) /\ IsLog(L, n)
        /\ Ends(L) \subseteq Ends(M) /\ Ends(M) \subseteq Ends(L) \cup {n}
    BY AppendedRows
  <2>. QED BY <2>1, <2>2
<1>2. Ends(L) \subseteq DOMAIN L /\ Ends(M) \subseteq DOMAIN M
  BY DEF Ends, Cm!TurnEnds
<1>3. ASSUME NEW q \in DOMAIN L, NEW w \in DOMAIN L, q <= w
      PROVE  Turn(M, q) = Turn(M, w) <=> Turn(L, q) = Turn(L, w)
  <2>1. Turn(L, q) = Turn(L, w) <=> \A e \in Ends(L) : ~(q <= e /\ e < w)
    BY <1>1, <1>3, SameTurn
  <2>2. q \in DOMAIN M /\ w \in DOMAIN M
    BY <1>1
  <2>3. Turn(M, q) = Turn(M, w) <=> \A e \in Ends(M) : ~(q <= e /\ e < w)
    BY <1>1, <1>3, <2>2, SameTurn
  <2>4. ~(n < w)
    BY <1>1
  <2>. QED BY <1>1, <2>1, <2>3, <2>4
<1>4. \A q, w \in DOMAIN L : Turn(M, q) = Turn(M, w) <=> Turn(L, q) = Turn(L, w)
  <2>1. \A q, w \in DOMAIN L : q <= w \/ w <= q
    BY <1>1
  <2>. QED BY <1>3, <2>1
<1>5. ASSUME NEW q \in DOMAIN L, Turn(L, q) \in Ends(L)
      PROVE  Turn(M, q) = Turn(L, q) /\ Turn(M, q) \in Ends(M) /\ Turn(M, q) # Turn(M, n)
  <2>1. q <= Turn(L, q) /\ \A e \in Ends(L) : e >= q => Turn(L, q) <= e
    BY <1>1, <1>5, TurnFacts
  <2>2. q \in DOMAIN M /\ n \in DOMAIN M /\ Turn(L, q) \in Nat /\ q \in Nat /\ Turn(L, q) < n /\ Turn(L, q) \in Ends(M)
    BY <1>1, <1>2, <1>5
  <2>3. /\ Turn(M, q) \in Ends(M) => q <= Turn(M, q) /\ \A e \in Ends(M) : e >= q => Turn(M, q) <= e
        /\ Turn(M, q) \notin Ends(M) => Turn(M, q) = MaxRows + 1 /\ \A e \in Ends(M) : ~(e >= q)
    BY <1>1, <2>2, TurnFacts
  <2>4. Turn(M, q) \in Ends(M)
    BY <2>1, <2>2, <2>3
  <2>5. Turn(M, q) <= Turn(L, q) /\ q <= Turn(M, q) /\ Turn(M, q) \in Nat
    BY <1>1, <1>2, <2>1, <2>2, <2>3, <2>4
  <2>6. Turn(M, q) \in Ends(L)
    BY <1>1, <2>2, <2>4, <2>5
  <2>7. Turn(L, q) <= Turn(M, q)
    BY <2>1, <2>2, <2>5, <2>6
  <2>8. Turn(M, q) = Turn(L, q)
    BY <2>2, <2>5, <2>7
  <2>9. Turn(M, n) # Turn(L, q)
    <3>1. /\ Turn(M, n) \in Ends(M) => n <= Turn(M, n)
          /\ Turn(M, n) \notin Ends(M) => Turn(M, n) = MaxRows + 1
          /\ n < MaxRows + 1
      BY <1>1, <2>2, TurnFacts
    <3>2. MaxRows \in Nat
      BY RowsAssumption
    <3>. QED BY <1>1, <2>2, <3>1, <3>2
  <2>. QED BY <2>4, <2>8, <2>9
<1>6. ASSUME NEW q \in DOMAIN L, Turn(M, q) = Turn(M, n) PROVE Turn(L, q) = MaxRows + 1
  <2>1. Turn(L, q) \notin Ends(L)
    BY <1>5, <1>6
  <2>. QED BY <1>1, <2>1, TurnFacts
<1>. QED BY <1>4, <1>5, <1>6

LEMMA AppendedGroups ==
  ASSUME NEW L, NEW n, NEW row, NEW M, IsAppended(M, L, n, row)
  PROVE  /\ \A f \in DOMAIN L : Earlier(M, f) = Earlier(L, f) /\ Group(M, f) \subseteq Group(L, f) \cup {n}
         /\ \A f \in DOMAIN L : Turn(L, f) \in Ends(L) =>
              Group(M, f) = Group(L, f) /\ (Closes(M, f) <=> Closes(L, f))
<1>1. /\ DOMAIN M = DOMAIN L \cup {n} /\ n \notin DOMAIN L /\ n \in Nat
      /\ \A q \in DOMAIN L : M[q] = L[q] /\ q \in Nat /\ q < n
      /\ M[n] = row
  <2>1. DOMAIN M = DOMAIN L \cup {n} /\ n \notin DOMAIN L /\ n \in Nat
    BY AppendedDomain
  <2>2. /\ \A q \in DOMAIN L : M[q] = L[q] /\ q \in Nat /\ q < n
        /\ M[n] = row
    BY AppendedRows
  <2>. QED BY <2>1, <2>2
<1>2. ASSUME NEW f \in DOMAIN L, NEW w PROVE w \in Group(M, f) /\ w # n <=> w \in Group(L, f)
  <2>1. w \in Group(M, f) <=> /\ w \in DOMAIN M /\ M[w].kind = "delta" /\ M[w].stream = M[f].stream
                              /\ Turn(M, w) = Turn(M, f)
    BY GroupFacts
  <2>2. w \in Group(L, f) <=> /\ w \in DOMAIN L /\ L[w].kind = "delta" /\ L[w].stream = L[f].stream
                              /\ Turn(L, w) = Turn(L, f)
    BY GroupFacts
  <2>3. w \in DOMAIN L => (Turn(M, w) = Turn(M, f) <=> Turn(L, w) = Turn(L, f))
    BY <1>2, AppendedTurns
  <2>. QED BY <1>1, <2>1, <2>2, <2>3
<1>3. ASSUME NEW f \in DOMAIN L
      PROVE  Earlier(M, f) = Earlier(L, f) /\ Group(M, f) \subseteq Group(L, f) \cup {n}
  <2>1. \A w : w \in Group(M, f) /\ w # n <=> w \in Group(L, f)
    BY <1>2
  <2>2. ~(n < f)
    BY <1>1
  <2>. QED BY <2>1, <2>2 DEF Earlier
<1>4. ASSUME NEW f \in DOMAIN L, Turn(L, f) \in Ends(L)
      PROVE  Group(M, f) = Group(L, f) /\ (Closes(M, f) <=> Closes(L, f))
  <2>1. Turn(M, f) # Turn(M, n)
    BY <1>4, AppendedTurns
  <2>2. n \notin Group(M, f)
    <3>1. Group(M, f) = {w \in DOMAIN M : /\ M[w].kind = "delta" /\ M[w].stream = M[f].stream
                                          /\ Turn(M, w) = Turn(M, f)}
      BY GroupFacts
    <3>. QED BY <2>1, <3>1
  <2>3. Group(M, f) = Group(L, f)
    BY <1>2, <2>2
  <2>4. Closes(M, f) <=> \E g \in DOMAIN M : /\ M[g].kind = "final" /\ M[g].stream = M[f].stream
                                             /\ Turn(M, g) = Turn(M, f) /\ Earlier(M, g) # {}
    BY GroupFacts
  <2>5. Closes(L, f) <=> \E g \in DOMAIN L : /\ L[g].kind = "final" /\ L[g].stream = L[f].stream
                                             /\ Turn(L, g) = Turn(L, f) /\ Earlier(L, g) # {}
    BY GroupFacts
  <2>6. ASSUME NEW g \in DOMAIN L
        PROVE  (Turn(M, g) = Turn(M, f) <=> Turn(L, g) = Turn(L, f)) /\ Earlier(M, g) = Earlier(L, g) /\ M[g] = L[g]
    BY <1>1, <1>3, AppendedTurns
  <2>7. ASSUME NEW g \in DOMAIN M, Turn(M, g) = Turn(M, f) PROVE g \in DOMAIN L
    BY <1>1, <2>1, <2>7
  <2>. QED BY <1>1, <2>3, <2>4, <2>5, <2>6, <2>7
<1>. QED BY <1>3, <1>4

LEMMA AppendingKeepsPlan ==
  ASSUME NEW L, NEW n, NEW row, NEW M, IsAppended(M, L, n, row), NEW p, FitsLog(p, L), OfClosedTurns(p, L)
  PROVE  FitsLog(p, M) /\ OfClosedTurns(p, M)
<1>1. /\ DOMAIN M = DOMAIN L \cup {n} /\ n \notin DOMAIN L /\ n \in Nat
      /\ \A q \in DOMAIN L : M[q] = L[q] /\ q \in Nat /\ q < n
      /\ M[n] = row
  <2>1. DOMAIN M = DOMAIN L \cup {n} /\ n \notin DOMAIN L /\ n \in Nat
    BY AppendedDomain
  <2>2. /\ \A q \in DOMAIN L : M[q] = L[q] /\ q \in Nat /\ q < n
        /\ M[n] = row
    BY AppendedRows
  <2>. QED BY <2>1, <2>2
<1>2. p.remove \subseteq DOMAIN L /\ \A q \in p.remove : L[q].kind = "delta" /\ Turn(L, q) \in Ends(L)
  BY DEF FitsLog, OfClosedTurns
<1>3. ASSUME NEW Q, Q \subseteq DOMAIN L PROVE Cm!Text(M, Q) = Cm!Text(L, Q)
  <2>1. \A x : x \in Cm!Text(M, Q) <=> x \in Cm!Text(L, Q)
    BY <1>1, <1>3, GroupFacts
  <2>2. ASSUME NEW w \in Q PROVE M[w].text = L[w].text
    BY <1>1, <1>3
  <2>3. {M[w].text : w \in Q} = {L[w].text : w \in Q}
    BY <2>2
  <2>. QED BY <2>3 DEF Cm!Text
<1>4. \A f \in DOMAIN L : Group(L, f) \subseteq DOMAIN L /\ Earlier(L, f) \subseteq DOMAIN L
  <2>1. \A f : Group(L, f) \subseteq DOMAIN L
    BY GroupFacts
  <2>. QED BY <2>1 DEF Earlier
<1>5. ASSUME NEW f \in DOMAIN p.rewrite
      PROVE  /\ f \in DOMAIN M /\ M[f].kind = "final" /\ M[f].stream \in Tools /\ M[f].text = {}
             /\ Earlier(M, f) # {} /\ p.rewrite[f] = Cm!Text(M, Earlier(M, f))
  <2>1. /\ f \in DOMAIN L /\ L[f].kind = "final" /\ L[f].stream \in Tools /\ L[f].text = {}
        /\ Earlier(L, f) # {} /\ p.rewrite[f] = Cm!Text(L, Earlier(L, f))
    BY DEF FitsLog
  <2>2. Earlier(M, f) = Earlier(L, f) /\ Cm!Text(M, Earlier(L, f)) = Cm!Text(L, Earlier(L, f))
    BY <1>3, <1>4, <2>1, AppendedGroups
  <2>. QED BY <1>1, <2>1, <2>2
<1>6. ASSUME NEW f \in DOMAIN M, M[f].kind = "final", M[f].stream \in Tools, M[f].text = {},
             Earlier(M, f) \cap p.remove # {}
      PROVE  f \in DOMAIN p.rewrite
  <2>1. PICK w \in p.remove : w \in Earlier(M, f)
    BY <1>6
  <2>2. w \in DOMAIN L /\ Turn(L, w) \in Ends(L) /\ Turn(M, w) = Turn(M, f)
    <3>1. w \in Group(M, f)
      BY <2>1 DEF Earlier
    <3>. QED BY <1>2, <2>1, <3>1, GroupFacts
  <2>3. f \in DOMAIN L
    <3>1. Turn(M, w) # Turn(M, n)
      BY <2>2, AppendedTurns
    <3>. QED BY <1>1, <2>2, <3>1
  <2>4. Earlier(M, f) = Earlier(L, f) /\ M[f] = L[f]
    BY <1>1, <2>3, AppendedGroups
  <2>5. L[f].kind = "final" /\ L[f].stream \in Tools /\ L[f].text = {} /\ Earlier(L, f) \cap p.remove # {}
    BY <1>6, <2>4
  <2>. QED BY <2>3, <2>5 DEF FitsLog
<1>7. ASSUME NEW q \in p.remove
      PROVE  /\ q \in DOMAIN L /\ q \in DOMAIN M /\ M[q] = L[q] /\ M[q].kind = "delta"
             /\ Group(M, q) = Group(L, q) /\ (Closes(M, q) <=> Closes(L, q)) /\ Earlier(M, q) = Earlier(L, q)
             /\ Cm!Text(M, Group(M, q)) = Cm!Text(L, Group(L, q)) /\ Turn(M, q) \in Ends(M)
  <2>1. q \in DOMAIN L /\ L[q].kind = "delta" /\ Turn(L, q) \in Ends(L)
    BY <1>2
  <2>2. Group(M, q) = Group(L, q) /\ (Closes(M, q) <=> Closes(L, q)) /\ Earlier(M, q) = Earlier(L, q)
    BY <2>1, AppendedGroups
  <2>3. Cm!Text(M, Group(L, q)) = Cm!Text(L, Group(L, q))
    BY <1>3, <1>4, <2>1
  <2>4. Turn(M, q) \in Ends(M)
    BY <2>1, AppendedTurns
  <2>. QED BY <1>1, <2>1, <2>2, <2>3, <2>4
<1>8. p.remove \subseteq {q \in DOMAIN M : M[q].kind = "delta"} /\ \A q \in p.remove : Group(M, q) \subseteq p.remove
  <2>1. \A q \in p.remove : Group(L, q) \subseteq p.remove
    BY DEF FitsLog
  <2>. QED BY <1>7, <2>1
<1>9. ASSUME NEW q \in DOMAIN p.insert
      PROVE  /\ q \in p.remove /\ Earlier(M, q) = {} /\ ~Closes(M, q) /\ Cm!Text(M, Group(M, q)) # {}
             /\ p.insert[q] = Cm!Row(IF M[q].stream \in Messages THEN "final" ELSE "delta",
                                     M[q].stream, Cm!Text(M, Group(M, q)))
  <2>1. /\ q \in p.remove /\ Earlier(L, q) = {} /\ ~Closes(L, q) /\ Cm!Text(L, Group(L, q)) # {}
        /\ p.insert[q] = Cm!Row(IF L[q].stream \in Messages THEN "final" ELSE "delta",
                                L[q].stream, Cm!Text(L, Group(L, q)))
    BY DEF FitsLog
  <2>. QED BY <1>7, <2>1
<1>10. ASSUME NEW r \in p.remove, ~Closes(M, r), Cm!Text(M, Group(M, r)) # {}
       PROVE  \E q \in DOMAIN p.insert : q \in Group(M, r)
  <2>1. ~Closes(L, r) /\ Cm!Text(L, Group(L, r)) # {}
    BY <1>7, <1>10
  <2>2. \E q \in DOMAIN p.insert : q \in Group(L, r)
    BY <2>1 DEF FitsLog
  <2>. QED BY <1>7, <2>2
<1>11. FitsLog(p, M)
  BY <1>5, <1>6, <1>8, <1>9, <1>10 DEF FitsLog
<1>. QED BY <1>7, <1>11 DEF OfClosedTurns

LEMMA AppendingKeepsFinals ==
  ASSUME NEW L, NEW n, NEW row, NEW M, IsAppended(M, L, n, row), FinalsHaveIt(L),
         row.kind = "final" => \/ row.stream \in Tools /\ row.text = {}
                               \/ \A q \in DOMAIN L : L[q].stream = row.stream => L[q].text \subseteq row.text
  PROVE  FinalsHaveIt(M)
<1>1. /\ DOMAIN M = DOMAIN L \cup {n} /\ n \notin DOMAIN L /\ n \in Nat
      /\ \A q \in DOMAIN L : M[q] = L[q] /\ q \in Nat /\ q < n
      /\ M[n] = row
  <2>1. DOMAIN M = DOMAIN L \cup {n} /\ n \notin DOMAIN L /\ n \in Nat
    BY AppendedDomain
  <2>2. /\ \A q \in DOMAIN L : M[q] = L[q] /\ q \in Nat /\ q < n
        /\ M[n] = row
    BY AppendedRows
  <2>. QED BY <2>1, <2>2
<1>. SUFFICES ASSUME NEW f \in DOMAIN M, M[f].kind = "final", NEW q \in Earlier(M, f)
              PROVE  M[q].text \subseteq M[f].text \/ (M[f].stream \in Tools /\ M[f].text = {})
  BY DEF FinalsHaveIt
<1>2. q \in Group(M, f) /\ q < f
  BY DEF Earlier
<1>3. q \in DOMAIN M /\ M[q].stream = M[f].stream
  BY <1>2, GroupFacts
<1>4. CASE f = n
  <2>1. q \in DOMAIN L /\ M[q] = L[q]
    BY <1>1, <1>2, <1>3, <1>4
  <2>. QED BY <1>1, <1>3, <1>4, <2>1
<1>5. CASE f \in DOMAIN L
  <2>1. q \in Earlier(L, f) /\ M[f] = L[f]
    BY <1>1, <1>5, AppendedGroups
  <2>2. q \in DOMAIN L /\ M[q] = L[q]
    <3>1. q \in Group(L, f)
      BY <2>1 DEF Earlier
    <3>2. q \in DOMAIN L
      BY <3>1, GroupFacts
    <3>. QED BY <1>1, <3>2
  <2>. QED BY <2>1, <2>2, <1>5 DEF FinalsHaveIt
<1>. QED BY <1>1, <1>4, <1>5

LEMMA AppendingKeepsLate ==
  ASSUME NEW L, NEW n, NEW row, NEW M, IsAppended(M, L, n, row), NEW said, NEW known, LateIsKnown(L, said),
         said \subseteq known,
         row.kind = "delta" /\ Cm!Finished(L, row.stream, MaxRows + 1) => row.text \subseteq known
  PROVE  LateIsKnown(M, known)
<1>1. /\ DOMAIN M = DOMAIN L \cup {n} /\ n \notin DOMAIN L /\ n \in Nat
      /\ \A q \in DOMAIN L : M[q] = L[q] /\ q \in Nat /\ q < n
      /\ M[n] = row
  <2>1. DOMAIN M = DOMAIN L \cup {n} /\ n \notin DOMAIN L /\ n \in Nat
    BY AppendedDomain
  <2>2. /\ \A q \in DOMAIN L : M[q] = L[q] /\ q \in Nat /\ q < n
        /\ M[n] = row
    BY AppendedRows
  <2>. QED BY <2>1, <2>2
<1>. SUFFICES ASSUME NEW f \in DOMAIN M, M[f].kind = "final", Earlier(M, f) # {}, NEW q \in Group(M, f), q > f
              PROVE  M[q].text \subseteq known
  BY DEF LateIsKnown
<1>2. q \in DOMAIN M /\ M[q].kind = "delta" /\ M[q].stream = M[f].stream /\ Turn(M, q) = Turn(M, f)
  BY GroupFacts
<1>3. f \in DOMAIN L /\ M[f] = L[f] /\ L[f].kind = "final" /\ Earlier(L, f) # {}
  <2>1. f # n
    BY <1>1, <1>2
  <2>2. f \in DOMAIN L /\ M[f] = L[f]
    BY <1>1, <2>1
  <2>. QED BY <2>2, AppendedGroups
<1>4. CASE q = n
  <2>1. Turn(L, f) = MaxRows + 1
    BY <1>2, <1>3, <1>4, AppendedTurns
  <2>2. row.kind = "delta" /\ L[f].stream = row.stream
    BY <1>1, <1>2, <1>3, <1>4
  <2>3. Cm!Finished(L, row.stream, MaxRows + 1)
    <3>1. Closes(L, f)
      BY <1>3, GroupFacts
    <3>. QED BY <2>1, <2>2, <3>1 DEF Closes
  <2>. QED BY <1>1, <1>4, <2>2, <2>3
<1>5. CASE q # n
  <2>1. q \in Group(L, f) /\ q \in DOMAIN L
    BY <1>1, <1>2, <1>3, <1>5, AppendedGroups
  <2>2. L[q].text \subseteq said
    BY <1>3, <2>1 DEF LateIsKnown
  <2>. QED BY <1>1, <2>1, <2>2
<1>. QED BY <1>4, <1>5

(* What was said is still in the log, and rows keep their stream.           *)
SaidStays == \A q \in (UNION {history[r].text : r \in DOMAIN history}) \ late :
               q \in UNION {history'[r].text : r \in DOMAIN history'}
SeqsStay == \A q \in DOMAIN history' :
              q < nextSeq => q \in DOMAIN history /\ history'[q].stream = history[q].stream

LEMMA RowIsAppended ==
  ASSUME CompactionInv, NEW row, Cm!Append(row), row \in Logged, row.kind # "end" => row.stream \in Cm!Streams,
         row.kind = "final" => \/ row.stream \in Tools /\ row.text = {}
                               \/ \A q \in DOMAIN history : history[q].stream = row.stream =>
                                                              history[q].text \subseteq row.text,
         late \subseteq late',
         row.kind = "delta" /\ Cm!Finished(history, row.stream, MaxRows + 1) => row.text \subseteq late'
  PROVE  CompactionInv' /\ SaidStays /\ SeqsStay
<1>1. /\ nextSeq <= MaxRows /\ nextSeq' = nextSeq + 1 /\ plan' = plan
      /\ history' = [q \in DOMAIN history \cup {nextSeq} |-> IF q = nextSeq THEN row ELSE history[q]]
  BY DEF Cm!Append
<1>2. IsLog(history, nextSeq) /\ FinalsHaveIt(history) /\ LateIsKnown(history, late)
  BY DEF CompactionInv
<1>3. IsAppended(history', history, nextSeq, row)
  BY <1>1, <1>2 DEF IsAppended
<1>4. IsLog(history', nextSeq')
  <2>1. IsLog(history', nextSeq + 1)
    BY <1>3, AppendedRows
  <2>. QED BY <1>1, <2>1
<1>5. FinalsHaveIt(history')
  BY <1>2, <1>3, AppendingKeepsFinals
<1>6. LateIsKnown(history', late')
  BY <1>2, <1>3, AppendingKeepsLate
<1>7. plan' = None \/ (FitsLog(plan', history') /\ OfClosedTurns(plan', history'))
  <2>1. CASE plan = None
    BY <1>1, <2>1
  <2>2. CASE FitsLog(plan, history) /\ OfClosedTurns(plan, history)
    <3>1. FitsLog(plan, history') /\ OfClosedTurns(plan, history')
      BY <1>3, <2>2, AppendingKeepsPlan
    <3>. QED BY <1>1, <3>1
  <2>. QED BY <2>1, <2>2 DEF CompactionInv
<1>8. /\ \A q \in DOMAIN history : history'[q] = history[q] /\ q \in DOMAIN history'
      /\ DOMAIN history' = DOMAIN history \cup {nextSeq} /\ nextSeq \in Nat
  <2>1. \A q \in DOMAIN history : history'[q] = history[q] /\ q \in DOMAIN history'
    BY <1>3, AppendedRows
  <2>2. DOMAIN history' = DOMAIN history \cup {nextSeq} /\ nextSeq \in Nat
    BY <1>3, AppendedDomain
  <2>. QED BY <2>1, <2>2
<1>9. SaidStays
  BY <1>8 DEF SaidStays
<1>10. SeqsStay
  BY <1>8 DEF SeqsStay
<1>11. CompactionInv'
  BY <1>4, <1>5, <1>6, <1>7 DEF CompactionInv, IsLog, FinalsHaveIt, LateIsKnown
<1>. QED BY <1>9, <1>10, <1>11

(* A plan is applied, or nothing of it is.                                  *)
LEMMA PlanIsApplied ==
  ASSUME CompactionInv, NEW p, FitsLog(p, history), history' \in Cm!Outcomes(p),
         plan' = None, UNCHANGED <<nextSeq, late>>
  PROVE  CompactionInv' /\ SaidStays /\ SeqsStay
<1>1. IsLog(history, nextSeq) /\ FinalsHaveIt(history) /\ LateIsKnown(history, late)
  BY DEF CompactionInv
<1>2. history' = history \/ history' = Cm!Applied(history, p)
  BY DEF Cm!Outcomes
<1>3. CASE history' = history
  <2>1. SaidStays /\ SeqsStay
    BY <1>3 DEF SaidStays, SeqsStay
  <2>2. IsLog(history', nextSeq') /\ FinalsHaveIt(history') /\ LateIsKnown(history', late')
    BY <1>1, <1>3
  <2>3. CompactionInv'
    BY <2>2 DEF CompactionInv, IsLog, FinalsHaveIt, LateIsKnown
  <2>. QED BY <2>1, <2>3
<1>4. CASE history' = Cm!Applied(history, p)
  <2>1. IsApplied(history', history, nextSeq, p)
    BY <1>1, <1>4 DEF IsApplied
  <2>2. IsLog(history', nextSeq)
    BY <2>1, AppliedLog
  <2>3. FinalsHaveIt(history')
    BY <1>1, <2>1, ApplyingKeepsFinals
  <2>4. LateIsKnown(history', late)
    BY <1>1, <2>1, ApplyingKeepsLate
  <2>5. SaidStays
    <3>1. SUFFICES ASSUME NEW r \in DOMAIN history, NEW x \in history[r].text, x \notin late
                   PROVE  \E q \in DOMAIN history' : x \in history'[q].text
      BY DEF SaidStays
    <3>. QED BY <1>1, <2>1, <3>1, ApplyingLosesNothing
  <2>6. SeqsStay
    <3>1. DOMAIN history' \subseteq DOMAIN history
      BY <2>1, AppliedDomain
    <3>2. \A q \in DOMAIN history' : history'[q].stream = history[q].stream
      BY <2>1, AppliedRows
    <3>. QED BY <3>1, <3>2 DEF SeqsStay
  <2>7. CompactionInv'
    <3>1. IsLog(history', nextSeq') /\ FinalsHaveIt(history') /\ LateIsKnown(history', late')
      BY <2>2, <2>3, <2>4
    <3>. QED BY <3>1 DEF CompactionInv, IsLog, FinalsHaveIt, LateIsKnown
  <2>. QED BY <2>5, <2>6, <2>7
<1>. QED BY <1>2, <1>3, <1>4

LEMMA CompactionKept ==
  ASSUME CompactionInv, [PartsNext]_allVars
  PROVE  CompactionInv' /\ ((SaidStays /\ SeqsStay) \/ UNCHANGED Cm!vars)
<1>0. /\ IsLog(history, nextSeq) /\ nextSeq \in Nat
      /\ \A q \in DOMAIN history : history[q].text \subseteq Nat
  <2>1. IsLog(history, nextSeq)
    BY DEF CompactionInv
  <2>. QED BY <2>1 DEF IsLog, Logged
<1>1. CASE UNCHANGED cmVars
  <2>1. UNCHANGED <<history, nextSeq, plan, late, compactions>>
    BY <1>1 DEF cmVars
  <2>2. IsLog(history', nextSeq') /\ FinalsHaveIt(history') /\ LateIsKnown(history', late')
        /\ (plan' = None \/ (FitsLog(plan', history') /\ OfClosedTurns(plan', history')))
    BY <2>1 DEF CompactionInv
  <2>3. CompactionInv'
    BY <2>2 DEF CompactionInv, IsLog, FinalsHaveIt, LateIsKnown
  <2>. QED BY <2>1, <2>3 DEF Cm!vars
<1>2. ASSUME NEW s \in Cm!Streams, NEW chunk \in BOOLEAN, Cm!Delta(s, chunk)
      PROVE  CompactionInv' /\ SaidStays /\ SeqsStay
  <2>. DEFINE row == Cm!Row("delta", s, IF chunk THEN {nextSeq} ELSE {})
  <2>1. Cm!Append(row) /\ late' = (IF chunk /\ Cm!Finished(history, s, MaxRows + 1) THEN late \cup {nextSeq} ELSE late)
    BY <1>2 DEF Cm!Delta
  <2>2. /\ row \in Logged /\ row.kind = "delta" /\ row.stream = s
        /\ row.text = IF chunk THEN {nextSeq} ELSE {}
    BY <1>0 DEF Cm!Row, Logged
  <2>3. late \subseteq late' /\ (Cm!Finished(history, s, MaxRows + 1) => row.text \subseteq late')
    BY <2>1, <2>2
  <2>. HIDE DEF row
  <2>. QED BY <2>1, <2>2, <2>3, RowIsAppended
<1>3. ASSUME NEW s \in Cm!Streams, Cm!Final(s) PROVE CompactionInv' /\ SaidStays /\ SeqsStay
  <2>. DEFINE row == Cm!Row("final", s, Cm!Said(s))
  <2>1. Cm!Append(row) /\ late' = late
    BY <1>3 DEF Cm!Final
  <2>2. Cm!Said(s) \in SUBSET Nat
    BY <1>0 DEF Cm!Said
  <2>3. row \in Logged /\ row.kind = "final" /\ row.stream = s /\ row.text = Cm!Said(s)
    BY <2>2 DEF Cm!Row, Logged
  <2>4. \A q \in DOMAIN history : history[q].stream = s => history[q].text \subseteq Cm!Said(s)
    BY DEF Cm!Said
  <2>. HIDE DEF row
  <2>. QED BY <2>1, <2>3, <2>4, RowIsAppended
<1>4. ASSUME NEW s \in Cm!Streams, Cm!EndWithoutOutput(s) PROVE CompactionInv' /\ SaidStays /\ SeqsStay
  <2>. DEFINE row == Cm!Row("final", s, {})
  <2>1. Cm!Append(row) /\ late' = late /\ s \in Tools
    BY <1>4 DEF Cm!EndWithoutOutput
  <2>2. row \in Logged /\ row.kind = "final" /\ row.stream = s /\ row.text = {}
    BY DEF Cm!Row, Logged
  <2>. HIDE DEF row
  <2>. QED BY <2>1, <2>2, RowIsAppended
<1>5. CASE Cm!TurnEnd
  <2>. DEFINE row == Cm!Row("end", None, {})
  <2>1. Cm!Append(row) /\ late' = late
    BY <1>5 DEF Cm!TurnEnd
  <2>2. row \in Logged /\ row.kind = "end"
    BY DEF Cm!Row, Logged
  <2>. HIDE DEF row
  <2>. QED BY <2>1, <2>2, RowIsAppended
<1>6. CASE Cm!ReadLog
  <2>1. plan' = Cm!Plan(history, TRUE) /\ UNCHANGED <<history, nextSeq, late>>
    BY <1>6 DEF Cm!ReadLog
  <2>2. FitsLog(plan', history) /\ OfClosedTurns(plan', history)
    <3>1. FitsLog(Cm!Plan(history, TRUE), history) /\ OfClosedTurns(Cm!Plan(history, TRUE), history)
      BY <1>0, PlanFits
    <3>. QED BY <2>1, <3>1
  <2>3. IsLog(history', nextSeq') /\ FinalsHaveIt(history') /\ LateIsKnown(history', late')
        /\ FitsLog(plan', history') /\ OfClosedTurns(plan', history')
    BY <2>1, <2>2 DEF CompactionInv
  <2>4. CompactionInv'
    BY <2>3 DEF CompactionInv, IsLog, FinalsHaveIt, LateIsKnown
  <2>5. SaidStays /\ SeqsStay
    BY <2>1 DEF SaidStays, SeqsStay
  <2>. QED BY <2>4, <2>5
<1>7. CASE Cm!Apply
  <2>1. plan # None /\ history' \in Cm!Outcomes(plan) /\ plan' = None /\ UNCHANGED <<nextSeq, late>>
    BY <1>7 DEF Cm!Apply
  <2>2. FitsLog(plan, history)
    BY <2>1 DEF CompactionInv
  <2>. QED BY <2>1, <2>2, PlanIsApplied
<1>8. CASE Cm!CompactAtRest
  <2>1. history' \in Cm!Outcomes(Cm!Plan(history, FALSE)) /\ plan' = None /\ UNCHANGED <<nextSeq, late>>
    BY <1>8 DEF Cm!CompactAtRest
  <2>2. FitsLog(Cm!Plan(history, FALSE), history)
    BY <1>0, PlanFits
  <2>. QED BY <2>1, <2>2, PlanIsApplied
<1>9. CASE Cm!Next
  BY <1>2, <1>3, <1>4, <1>5, <1>6, <1>7, <1>8, <1>9 DEF Cm!Next
<1>. QED BY <1>1, <1>9 DEF PartsNext, allVars

LEMMA CompactionInit == PartsInit => CompactionInv
<1>. SUFFICES ASSUME PartsInit PROVE CompactionInv
  OBVIOUS
<1>1. history = <<>> /\ nextSeq = 1 /\ plan = None
  BY DEF PartsInit, Cm!Init
<1>2. DOMAIN history = {}
  <2>1. \A q : q \notin 1 .. 0
    OBVIOUS
  <2>2. DOMAIN history = 1 .. Len(history) /\ Len(history) = 0
    BY <1>1
  <2>. QED BY <2>1, <2>2
<1>3. IsLog(history, nextSeq)
  BY <1>1, <1>2, RowsAssumption DEF IsLog
<1>4. FinalsHaveIt(history) /\ LateIsKnown(history, late)
  BY <1>2 DEF FinalsHaveIt, LateIsKnown
<1>. QED BY <1>1, <1>3, <1>4 DEF CompactionInv

(* Text stays in the log, a second compaction at rest changes nothing, and  *)
(* a seq keeps its stream, whatever a daemon writes in between.             *)
LEMMA CompactionLosesNone == PartsSpec => Cm!CompactionLosesNothing
<1>1. CompactionInv /\ [PartsNext]_allVars => CompactionInv'
  BY CompactionKept
<1>2. CompactionInv /\ [PartsNext]_allVars =>
        [\A q \in (UNION {history[r].text : r \in DOMAIN history}) \ late :
           q \in UNION {history'[r].text : r \in DOMAIN history'}]_(Cm!vars)
  <2>1. CompactionInv /\ [PartsNext]_allVars => SaidStays \/ UNCHANGED Cm!vars
    BY CompactionKept
  <2>. QED BY <2>1 DEF SaidStays
<1>3. CompactionInv /\ [PartsNext]_allVars =>
        [\A q \in DOMAIN history' :
           q < nextSeq => q \in DOMAIN history /\ history'[q].stream = history[q].stream]_(Cm!vars)
  <2>1. CompactionInv /\ [PartsNext]_allVars => SeqsStay \/ UNCHANGED Cm!vars
    BY CompactionKept
  <2>. QED BY <2>1 DEF SeqsStay
<1>4. CompactionInv => Cm!CompactsOnce
  <2>1. CompactionInv => IsLog(history, nextSeq)
    BY DEF CompactionInv
  <2>. QED BY <2>1, CompactsOnceOnly DEF Cm!CompactsOnce
<1>. QED BY <1>1, <1>2, <1>3, <1>4, CompactionInit, PTL
         DEF PartsSpec, allVars, Cm!CompactionLosesNothing, Cm!NoTextLost, Cm!SeqsKeepTheirPlace

(* Time is charged to the agent that used it, once, and what was said stays *)
(* in the log that is compacted (metrics/ledger.ts, storage/compact.ts).    *)
THEOREM NothingIsEverLostOrMisplaced == PartsSpec => NothingLostOrMisplaced
BY LedgerIsSafe, CompactionLosesNone DEF NothingLostOrMisplaced

-----------------------------------------------------------------------------
(* Delivery: what is on its way *)

EventFrame == [type : {"live", "replay"}, event : Event]
Frame == EventFrame \cup {Ack}
Request == [type : {"sub"}, from : 0..MaxSeq] \cup {Hello}

(* An ack carries no event: it stands for one that no seq is below. *)
NoEvent == [seq |-> 0, covers |-> {}]
Item(f) == IF f = Ack THEN NoEvent ELSE f.event
Items(s) == [i \in DOMAIN s |-> Item(s[i])]
SomeEvent == [seq : 0..MaxSeq, covers : SUBSET (1..MaxSeq)]

(* Beyond the cursor c, s has each of the events es before what is above it. *)
Follows(c, s, es) ==
  \A i \in DOMAIN s : \A h \in es :
    c < h.seq /\ h.seq <= s[i].seq => \E j \in DOMAIN s : j <= i /\ s[j] = h

(* Beyond the cursor c, s has all of the events es. *)
Complete(c, s, es) == \A h \in es : c < h.seq => \E j \in DOMAIN s : s[j] = h

HeldUpTo(v, es) == \A h \in es : h.seq <= v.cursor => h \in v.held

View == [cursor : 0..MaxSeq, held : SUBSET Event]

(* Frames are told apart. *)
LEMMA FramesDiffer ==
  /\ \A f \in EventFrame : f # Ack /\ f.event \in Event /\ Item(f) = f.event
  /\ \A e \in Event : Live(e) \in EventFrame /\ Replay(e) \in EventFrame
  /\ \A e \in Event : Live(e).type = "live" /\ Live(e).event = e /\ Replay(e).type = "replay" /\ Replay(e).event = e
  /\ Item(Ack) = NoEvent /\ Ack \in Frame /\ EventFrame \subseteq Frame
  /\ \A f \in Frame : f # Ack => f \in EventFrame
  /\ \A f \in Frame : Item(f) \in SomeEvent
  /\ Event \subseteq SomeEvent
<1>. USE BoundsAssumption
<1>1. \A f \in EventFrame : f.type \in {"live", "replay"} /\ f.event \in Event
  BY DEF EventFrame
<1>2. Ack.type = "ack"
  BY DEF Ack
<1>3. \A f \in EventFrame : f # Ack
  BY <1>1, <1>2
<1>4. \A f \in EventFrame : Item(f) = f.event
  BY <1>3 DEF Item
<1>5. NoEvent \in SomeEvent /\ Event \subseteq SomeEvent
  BY DEF NoEvent, SomeEvent, Event
<1>6. Item(Ack) = NoEvent
  BY DEF Item
<1>7. /\ \A e \in Event : Live(e) \in EventFrame /\ Replay(e) \in EventFrame
      /\ \A e \in Event : /\ Live(e).type = "live" /\ Live(e).event = e
                          /\ Replay(e).type = "replay" /\ Replay(e).event = e
  BY DEF Live, Replay, EventFrame
<1>8. Ack \in Frame /\ EventFrame \subseteq Frame /\ \A f \in Frame : f # Ack => f \in EventFrame
  BY DEF Frame
<1>9. \A f \in Frame : Item(f) \in SomeEvent
  BY <1>1, <1>4, <1>5, <1>6, <1>8
<1>. QED BY <1>1, <1>3, <1>4, <1>5, <1>6, <1>7, <1>8, <1>9

(* The events of a sequence of frames are a sequence of events. *)
LEMMA ItemsType ==
  ASSUME NEW s, s \in Seq(Frame)
  PROVE  Items(s) \in Seq(SomeEvent) /\ Len(Items(s)) = Len(s) /\ DOMAIN Items(s) = 1..Len(s)
         /\ \A i \in 1..Len(s) : Items(s)[i] = Item(s[i])
<1>1. \A i \in 1..Len(s) : s[i] \in Frame
  OBVIOUS
<1>2. \A i \in 1..Len(s) : Item(s[i]) \in SomeEvent
  BY <1>1, FramesDiffer
<1>3. Len(s) \in Nat /\ DOMAIN s = 1..Len(s)
  OBVIOUS
<1>4. Items(s) = [i \in 1..Len(s) |-> Item(s[i])]
  BY <1>3 DEF Items
<1>. QED BY <1>2, <1>3, <1>4

(* The events of frames put together are those of each, put together. *)
LEMMA ItemsOfConcat ==
  ASSUME NEW s, NEW t, s \in Seq(Frame), t \in Seq(Frame)
  PROVE  Items(s \o t) = Items(s) \o Items(t)
<1>1. s \o t \in Seq(Frame) /\ Len(s \o t) = Len(s) + Len(t)
  BY ConcatProperties
<1>2. /\ Items(s) \in Seq(SomeEvent) /\ Len(Items(s)) = Len(s)
      /\ Items(t) \in Seq(SomeEvent) /\ Len(Items(t)) = Len(t)
      /\ Items(s \o t) \in Seq(SomeEvent) /\ Len(Items(s \o t)) = Len(s) + Len(t)
  BY <1>1, ItemsType
<1>3. Items(s) \o Items(t) \in Seq(SomeEvent) /\ Len(Items(s) \o Items(t)) = Len(s) + Len(t)
  BY <1>2, ConcatProperties
<1>4. ASSUME NEW i \in 1 .. Len(s) + Len(t) PROVE Items(s \o t)[i] = (Items(s) \o Items(t))[i]
  <2>1. Items(s \o t)[i] = Item((s \o t)[i])
    BY <1>1, ItemsType
  <2>2. CASE i <= Len(s)
    <3>1. i \in 1..Len(s)
      BY <2>2
    <3>2. (s \o t)[i] = s[i] /\ (Items(s) \o Items(t))[i] = Items(s)[i]
      BY <1>2, <2>2, ConcatProperties
    <3>3. Items(s)[i] = Item(s[i])
      BY <3>1, ItemsType
    <3>. QED BY <2>1, <3>2, <3>3
  <2>3. CASE ~(i <= Len(s))
    <3>1. i - Len(s) \in 1..Len(t)
      BY <2>3
    <3>2. (s \o t)[i] = t[i - Len(s)] /\ (Items(s) \o Items(t))[i] = Items(t)[i - Len(s)]
      BY <1>2, <2>3, ConcatProperties
    <3>3. Items(t)[i - Len(s)] = Item(t[i - Len(s)])
      BY <3>1, ItemsType
    <3>. QED BY <2>1, <3>2, <3>3
  <2>. QED BY <2>2, <2>3
<1>. HIDE DEF Items
<1>. QED BY <1>2, <1>3, <1>4, SeqEqual

-----------------------------------------------------------------------------
(* Sequences put together *)

(* Which element is where when two sequences are put together. *)
LEMMA ConcatAt ==
  ASSUME NEW S, NEW s, NEW t, s \in Seq(S), t \in Seq(S)
  PROVE  /\ s \o t \in Seq(S) /\ Len(s) \in Nat /\ Len(t) \in Nat
         /\ DOMAIN s = 1..Len(s) /\ DOMAIN t = 1..Len(t) /\ DOMAIN (s \o t) = 1..Len(s) + Len(t)
         /\ \A i \in DOMAIN s : i \in DOMAIN (s \o t) /\ (s \o t)[i] = s[i]
         /\ \A i \in DOMAIN t : Len(s) + i \in DOMAIN (s \o t) /\ (s \o t)[Len(s) + i] = t[i]
         /\ \A i \in DOMAIN (s \o t) :
              \/ i \in DOMAIN s /\ (s \o t)[i] = s[i]
              \/ i > Len(s) /\ i - Len(s) \in DOMAIN t /\ (s \o t)[i] = t[i - Len(s)]
<1>1. /\ s \o t \in Seq(S) /\ Len(s \o t) = Len(s) + Len(t)
      /\ \A i \in 1..Len(s) + Len(t) : (s \o t)[i] = IF i <= Len(s) THEN s[i] ELSE t[i - Len(s)]
  BY ConcatProperties
<1>2. /\ Len(s) \in Nat /\ Len(t) \in Nat /\ DOMAIN s = 1..Len(s) /\ DOMAIN t = 1..Len(t)
      /\ DOMAIN (s \o t) = 1..Len(s) + Len(t)
  BY <1>1
<1>. DEFINE m == Len(s)
            n == Len(t)
            p == s \o t
<1>3. m \in Nat /\ n \in Nat /\ \A i \in 1..m + n : p[i] = IF i <= m THEN s[i] ELSE t[i - m]
  BY <1>1, <1>2
<1>. HIDE DEF m, n, p
<1>4. \A i \in 1..m : i \in 1..m + n /\ p[i] = s[i]
  BY <1>3
<1>5. \A i \in 1..n : m + i \in 1..m + n /\ p[m + i] = t[i]
  <2>1. \A i \in 1..n : m + i \in 1..m + n /\ ~(m + i <= m) /\ (m + i) - m = i
    BY <1>3
  <2>. QED BY <1>3, <2>1
<1>6. \A i \in 1..m + n : (i \in 1..m /\ p[i] = s[i]) \/ (i > m /\ i - m \in 1..n /\ p[i] = t[i - m])
  <2>1. \A i \in 1..m + n : i \in 1..m \/ (i > m /\ i - m \in 1..n /\ ~(i <= m))
    BY <1>3
  <2>. QED BY <1>3, <1>4, <2>1
<1>. QED BY <1>1, <1>2, <1>4, <1>5, <1>6 DEF m, n, p

(* They have the elements of both. *)
LEMMA ElementsOfConcat ==
  ASSUME NEW S, NEW s, NEW t, s \in Seq(S), t \in Seq(S)
  PROVE  ToSet(s \o t) = ToSet(s) \cup ToSet(t)
<1>1. /\ \A i \in DOMAIN s : i \in DOMAIN (s \o t) /\ (s \o t)[i] = s[i]
      /\ \A i \in DOMAIN t : Len(s) + i \in DOMAIN (s \o t) /\ (s \o t)[Len(s) + i] = t[i]
      /\ \A i \in DOMAIN (s \o t) :
           \/ i \in DOMAIN s /\ (s \o t)[i] = s[i]
           \/ i - Len(s) \in DOMAIN t /\ (s \o t)[i] = t[i - Len(s)]
  BY ConcatAt
<1>2. \A x \in ToSet(s) : x \in ToSet(s \o t)
  BY <1>1 DEF ToSet
<1>3. ASSUME NEW i \in DOMAIN t PROVE t[i] \in ToSet(s \o t)
  <2>1. Len(s) + i \in DOMAIN (s \o t) /\ (s \o t)[Len(s) + i] = t[i]
    BY <1>1
  <2>2. (s \o t)[Len(s) + i] \in ToSet(s \o t)
    BY <2>1 DEF ToSet
  <2>. QED BY <2>1, <2>2
<1>5. \A x \in ToSet(t) : x \in ToSet(s \o t)
  BY <1>3 DEF ToSet
<1>4. \A x \in ToSet(s \o t) : x \in ToSet(s) \/ x \in ToSet(t)
  BY <1>1 DEF ToSet
<1>. QED BY <1>2, <1>4, <1>5

(* A sequence is its head and then its tail. *)
LEMMA HeadThenTail ==
  ASSUME NEW S, NEW s, s \in Seq(S), s # <<>>
  PROVE  /\ Head(s) \in S /\ Head(s) = s[1] /\ 1 \in DOMAIN s /\ Tail(s) \in Seq(S)
         /\ s = <<Head(s)>> \o Tail(s) /\ <<Head(s)>> \in Seq(S)
         /\ \A i \in DOMAIN Tail(s) : i + 1 \in DOMAIN s /\ i + 1 > 1 /\ Tail(s)[i] = s[i + 1]
         /\ \A i \in DOMAIN s : i = 1 \/ (i > 1 /\ i - 1 \in DOMAIN Tail(s) /\ Tail(s)[i - 1] = s[i])
<1>1. /\ Head(s) \in S /\ Tail(s) \in Seq(S) /\ Len(Tail(s)) = Len(s) - 1
      /\ \A i \in 1..Len(Tail(s)) : Tail(s)[i] = s[i + 1]
  BY HeadTailProperties
<1>2. Head(s) = s[1] /\ Len(s) \in Nat \ {0} /\ DOMAIN s = 1..Len(s) /\ DOMAIN Tail(s) = 1..Len(s) - 1
  BY <1>1
<1>. DEFINE n == Len(s)
            t == Tail(s)
<1>3. /\ n \in Nat \ {0} /\ DOMAIN s = 1..n /\ DOMAIN t = 1..n - 1
      /\ \A i \in 1..n - 1 : t[i] = s[i + 1]
  BY <1>1, <1>2
<1>. HIDE DEF n, t
<1>4. /\ 1 \in 1..n
      /\ \A i \in 1..n - 1 : i + 1 \in 1..n /\ i + 1 > 1
      /\ \A i \in 1..n : i = 1 \/ (i > 1 /\ i - 1 \in 1..n - 1 /\ (i - 1) + 1 = i)
  BY <1>3
<1>5. \A i \in 1..n : i = 1 \/ (i > 1 /\ i - 1 \in 1..n - 1 /\ t[i - 1] = s[i])
  <2>1. \A i \in 1..n : i - 1 \in 1..n - 1 => t[i - 1] = s[(i - 1) + 1]
    BY <1>3
  <2>. QED BY <1>4, <2>1
<1>6. <<Head(s)>> \in Seq(S) /\ s = <<Head(s)>> \o Tail(s)
  <2>1. <<Head(s)>> \in Seq(S) /\ Len(<<Head(s)>>) = 1 /\ <<Head(s)>>[1] = s[1]
    BY <1>1, <1>2
  <2>. DEFINE h == <<Head(s)>>
  <2>2. /\ h \o Tail(s) \in Seq(S) /\ Len(h \o Tail(s)) = 1 + (Len(s) - 1)
        /\ \A i \in 1..1 + (Len(s) - 1) : (h \o Tail(s))[i] = IF i <= 1 THEN h[i] ELSE Tail(s)[i - 1]
    BY <1>1, <2>1, ConcatProperties
  <2>3. \A i \in 1..Len(s) : (h \o Tail(s))[i] = s[i]
    BY <1>2, <1>5, <2>1, <2>2 DEF n, t
  <2>4. Len(h \o Tail(s)) = Len(s)
    BY <1>2, <2>2
  <2>5. s = h \o Tail(s)
    BY <2>2, <2>3, <2>4, SeqEqual
  <2>. QED BY <2>1, <2>5
<1>. QED BY <1>1, <1>2, <1>3, <1>4, <1>5, <1>6 DEF n, t

(* Where the parts of a sequence of events are cut does not matter. *)
LEMMA EventsAssociate ==
  \A s, t, u \in Seq(SomeEvent) : (s \o t) \o u = s \o (t \o u)
BY ConcatAssociative

(* Where the parts of a sequence are cut does not matter. *)
LEMMA CutElsewhere ==
  ASSUME NEW S, NEW s, NEW t, NEW u, NEW w, s \in Seq(S), t \in Seq(S), u \in Seq(S), w \in Seq(S)
  PROVE  /\ (s \o (t \o u)) \o <<>> = (s \o t) \o u
         /\ ((s \o t) \o u) \o w = (s \o (t \o u)) \o w
         /\ (s \o t) \o u = s \o (t \o u)
         /\ <<>> \o s = s /\ s \o <<>> = s
<1>1. s \o t \in Seq(S) /\ t \o u \in Seq(S) /\ s \o (t \o u) \in Seq(S) /\ (s \o t) \o u \in Seq(S)
  BY ConcatProperties
<1>2. (s \o t) \o u = s \o (t \o u)
  BY ConcatAssociative
<1>3. (s \o (t \o u)) \o <<>> = s \o (t \o u)
  BY <1>1, ConcatEmptySeq
<1>. QED BY <1>2, <1>3, ConcatEmptySeq

(* What has been reached after the first n events of s: everything at or    *)
(* below the cursor was looked at, and none of es was passed over.          *)
Reached(v, s, es, n, w) ==
  /\ w \in View /\ v.cursor <= w.cursor
  /\ \A i \in 1..n : s[i].seq <= w.cursor
  /\ w.cursor = v.cursor \/ \E i \in 1..n : w.cursor = s[i].seq
  /\ HeldUpTo(v, es) /\ Follows(v.cursor, s, es) => HeldUpTo(w, es)

ReduceOne(w, e) ==
  IF w.cursor >= e.seq THEN w ELSE [cursor |-> e.seq, held |-> w.held \cup {e}]

(* One event more is looked at. *)
LEMMA ReachedStep ==
  ASSUME NEW v, v \in View, NEW s, s \in Seq(Event), NEW es, es \subseteq Event,
         NEW n \in Nat, n + 1 \in 1..Len(s), NEW w, Reached(v, s, es, n, w)
  PROVE  Reached(v, s, es, n + 1, ReduceOne(w, s[n + 1]))
<1>. DEFINE e == s[n + 1]
            x == ReduceOne(w, e)
<1>. USE BoundsAssumption
<1>1. /\ s[n + 1] \in Event /\ DOMAIN s = 1..Len(s) /\ Len(s) \in Nat
      /\ \A i \in 1..n + 1 : i \in 1..n \/ i = n + 1
      /\ \A i \in 1..n : i \in 1..n + 1 /\ i \in DOMAIN s
      /\ \A i \in DOMAIN s : i <= n + 1 => i \in 1..n \/ i = n + 1
  OBVIOUS
<1>2. e \in Event /\ e.seq \in 1..MaxSeq /\ \A i \in DOMAIN s : s[i].seq \in 1..MaxSeq
  <2>1. \A i \in 1..Len(s) : s[i] \in Event
    OBVIOUS
  <2>2. \A d \in Event : d.seq \in 1..MaxSeq
    BY DEF Event
  <2>. QED BY <1>1, <2>1, <2>2
<1>3. /\ w \in View /\ v.cursor <= w.cursor
      /\ \A i \in 1..n : s[i].seq <= w.cursor
      /\ w.cursor = v.cursor \/ \E i \in 1..n : w.cursor = s[i].seq
      /\ w.cursor \in 0..MaxSeq /\ v.cursor \in 0..MaxSeq /\ w.held \subseteq Event
  BY DEF Reached, View
<1>4. CASE w.cursor >= e.seq
  <2>1. x = w
    BY <1>4 DEF ReduceOne
  <2>2. \A i \in 1..n + 1 : s[i].seq <= w.cursor
    BY <1>1, <1>2, <1>3, <1>4
  <2>3. w.cursor = v.cursor \/ \E i \in 1..n + 1 : w.cursor = s[i].seq
    BY <1>1, <1>3
  <2>4. HeldUpTo(v, es) /\ Follows(v.cursor, s, es) => HeldUpTo(w, es)
    BY DEF Reached
  <2>. QED BY <1>3, <2>1, <2>2, <2>3, <2>4 DEF Reached
<1>5. CASE ~(w.cursor >= e.seq)
  <2>1. x = [cursor |-> e.seq, held |-> w.held \cup {e}]
    BY <1>5 DEF ReduceOne
  <2>2. x \in View /\ x.cursor = e.seq /\ x.held = w.held \cup {e} /\ w.cursor < e.seq
    BY <1>2, <1>3, <1>5, <2>1 DEF View
  <2>. HIDE DEF x
  <2>3. v.cursor <= x.cursor
    BY <1>2, <1>3, <2>2
  <2>4. \A i \in 1..n + 1 : s[i].seq <= x.cursor
    BY <1>1, <1>2, <1>3, <2>2
  <2>5. n + 1 \in 1..n + 1 /\ x.cursor = s[n + 1].seq
    BY <2>2
  <2>6. ASSUME HeldUpTo(v, es), Follows(v.cursor, s, es), NEW h \in es, h.seq <= x.cursor
        PROVE  h \in x.held
    <3>1. h.seq \in 1..MaxSeq
      BY DEF Event
    <3>2. \A g \in es : g.seq <= w.cursor => g \in w.held
      BY <2>6 DEF Reached, HeldUpTo
    <3>3. CASE h.seq <= w.cursor
      BY <2>2, <3>2, <3>3
    <3>4. CASE ~(h.seq <= w.cursor)
      <4>1. v.cursor < h.seq /\ h.seq <= s[n + 1].seq /\ n + 1 \in DOMAIN s
        BY <1>1, <1>2, <1>3, <2>2, <2>6, <3>1, <3>4
      <4>2. PICK j \in DOMAIN s : j <= n + 1 /\ s[j] = h
        BY <2>6, <4>1 DEF Follows
      <4>3. j = n + 1
        BY <1>1, <1>3, <3>4, <4>2
      <4>. QED BY <2>2, <4>2, <4>3
    <3>. QED BY <3>3, <3>4
  <2>7. HeldUpTo(v, es) /\ Follows(v.cursor, s, es) => HeldUpTo(x, es)
    BY <2>6 DEF HeldUpTo
  <2>8. Reached(v, s, es, n + 1, x)
    BY <2>2, <2>3, <2>4, <2>5, <2>7 DEF Reached
  <2>. QED BY <2>8 DEF x
<1>. QED BY <1>4, <1>5

(* reduceEvents looks at all the events, by induction over their number. *)
LEMMA ReduceReaches ==
  ASSUME NEW v, v \in View, NEW s, s \in Seq(Event), NEW es, es \subseteq Event
  PROVE  Reached(v, s, es, Len(s), Reduce(v, s))
<1>. DEFINE N == Len(s)
            Body(f, n) == IF n = 0 THEN v
                          ELSE IF f[n - 1].cursor >= s[n].seq THEN f[n - 1]
                          ELSE [cursor |-> s[n].seq, held |-> f[n - 1].held \cup {s[n]}]
            all == CHOOSE f : f = [n \in 0..N |-> Body(f, n)]
            G == [p \in View \X (1..N) |-> ReduceOne(p[1], s[p[2]])]
<1>1. Reduce(v, s) = all[N]
  BY DEF Reduce
<1>2. N \in Nat /\ \A n \in 1..N : s[n] \in Event
  OBVIOUS
<1>3. \A w \in View, e \in Event : ReduceOne(w, e) \in View
  <2>. SUFFICES ASSUME NEW w \in View, NEW e \in Event PROVE ReduceOne(w, e) \in View
    OBVIOUS
  <2>1. w.cursor \in 0..MaxSeq /\ w.held \subseteq Event /\ e.seq \in 1..MaxSeq
    BY DEF View, Event
  <2>2. [cursor |-> e.seq, held |-> w.held \cup {e}] \in View
    BY <2>1, BoundsAssumption DEF View
  <2>. QED BY <2>2 DEF ReduceOne
<1>4. G \in [View \X (1..N) -> View]
  <2>1. \A p \in View \X (1..N) : p[1] \in View /\ s[p[2]] \in Event
    BY <1>2
  <2>. QED BY <1>3, <2>1
<1>5. \A w \in View, n \in 1..N : G[<<w, n>>] = ReduceOne(w, s[n])
  OBVIOUS
<1>. HIDE DEF G, N
<1>6. PICK f : IsRun(f, G, View, v, N)
  BY <1>2, <1>4, RunExists DEF Computes
<1>7. ASSUME NEW n \in 0..N PROVE f[n] = Body(f, n)
  <2>1. CASE n = 0
    BY <1>6, <2>1 DEF IsRun
  <2>2. CASE n # 0
    <3>1. n \in 1..N /\ n - 1 \in 0..N
      BY <1>2, <2>2
    <3>2. f[n - 1] \in View
      BY <1>6, <3>1 DEF IsRun
    <3>3. f[n] = ReduceOne(f[n - 1], s[n])
      BY <1>5, <1>6, <3>1, <3>2 DEF IsRun
    <3>. QED BY <2>2, <3>3 DEF ReduceOne
  <2>. QED BY <2>1, <2>2
<1>8. f = [n \in 0..N |-> Body(f, n)]
  BY <1>6, <1>7 DEF IsRun
<1>9. all = [n \in 0..N |-> Body(all, n)]
  BY <1>8
<1>. HIDE DEF all
<1>10. all[0] = v /\ \A n \in 1..N : all[n] = ReduceOne(all[n - 1], s[n])
  <2>1. \A n \in 0..N : all[n] = Body(all, n)
    BY <1>9
  <2>2. 0 \in 0..N /\ \A n \in 1..N : n \in 0..N /\ n # 0
    BY <1>2
  <2>. QED BY <2>1, <2>2 DEF ReduceOne
<1>. DEFINE S == {n \in Nat : n <= N => Reached(v, s, es, n, all[n])}
<1>11. 0 \in S
  <2>1. v.cursor \in 0..MaxSeq
    BY DEF View
  <2>2. Reached(v, s, es, 0, v)
    BY <2>1, BoundsAssumption DEF Reached
  <2>. QED BY <1>10, <2>2
<1>12. ASSUME NEW n \in Nat, n \in S PROVE n + 1 \in S
  <2>. SUFFICES ASSUME n + 1 <= N PROVE Reached(v, s, es, n + 1, all[n + 1])
    OBVIOUS
  <2>1. Reached(v, s, es, n, all[n]) /\ n + 1 \in 1..Len(s)
    BY <1>2, <1>12 DEF N
  <2>2. all[n + 1] = ReduceOne(all[n], s[n + 1])
    BY <1>10, <2>1 DEF N
  <2>. QED BY <2>1, <2>2, ReachedStep
<1>. HIDE DEF S
<1>13. N \in S
  BY <1>2, <1>11, <1>12, NatInd
<1>. QED BY <1>1, <1>2, <1>13 DEF S, N

(* What was applied off the front leaves the rest as it was promised.       *)
LEMMA FrontApplied ==
  ASSUME NEW a, NEW b, a \in Seq(SomeEvent), b \in Seq(SomeEvent), NEW es, es \subseteq Event,
         NEW c, NEW d, c \in 0..MaxSeq, d \in 0..MaxSeq, c <= d,
         Follows(c, a \o b, es)
  PROVE  /\ Follows(c, a, es)
         /\ (\A i \in DOMAIN a : a[i].seq <= d) => Follows(d, b, es)
         /\ (\A i \in DOMAIN a : a[i].seq <= d) /\ Complete(c, a \o b, es) => Complete(d, b, es)
<1>. USE BoundsAssumption
<1>1. /\ a \o b \in Seq(SomeEvent) /\ Len(a \o b) = Len(a) + Len(b)
      /\ \A i \in 1..Len(a) + Len(b) : (a \o b)[i] = IF i <= Len(a) THEN a[i] ELSE b[i - Len(a)]
  BY ConcatProperties
<1>2. /\ Len(a) \in Nat /\ Len(b) \in Nat /\ DOMAIN a = 1..Len(a) /\ DOMAIN b = 1..Len(b)
      /\ DOMAIN (a \o b) = 1..Len(a) + Len(b)
  BY <1>1
<1>. DEFINE p == a \o b
            m == Len(a)
            n == Len(b)
<1>3. /\ m \in Nat /\ n \in Nat /\ DOMAIN p = 1..m + n /\ DOMAIN a = 1..m /\ DOMAIN b = 1..n
      /\ \A i \in 1..m : p[i] = a[i] /\ i \in 1..m + n
      /\ \A i \in 1..n : p[m + i] = b[i] /\ m + i \in 1..m + n
      /\ \A i \in 1..m + n : i \in 1..m \/ (i - m \in 1..n /\ p[i] = b[i - m])
  <2>1. \A i \in 1..m : p[i] = a[i] /\ i \in 1..m + n
    BY <1>1, <1>2
  <2>2. \A i \in 1..n : m + i \in 1..m + n /\ ~(m + i <= m) /\ (m + i) - m = i
    BY <1>2
  <2>3. \A i \in 1..n : p[m + i] = b[i]
    BY <1>1, <2>2
  <2>4. \A i \in 1..m + n : ~(i <= m) => i - m \in 1..n
    BY <1>2
  <2>5. \A i \in 1..m + n : i <= m => i \in 1..m
    BY <1>2
  <2>. QED BY <1>1, <1>2, <2>1, <2>2, <2>3, <2>4, <2>5
<1>4. \A h \in es : h.seq \in 1..MaxSeq
  BY DEF Event
<1>5. /\ \A i \in 1..m : a[i].seq \in 0..MaxSeq
      /\ \A i \in 1..n : b[i].seq \in 0..MaxSeq
  <2>1. \A e \in SomeEvent : e.seq \in 0..MaxSeq
    BY DEF SomeEvent
  <2>2. \A i \in 1..Len(a) : a[i] \in SomeEvent
    OBVIOUS
  <2>3. \A i \in 1..Len(b) : b[i] \in SomeEvent
    OBVIOUS
  <2>. QED BY <2>1, <2>2, <2>3
<1>6. Follows(c, p, es)
  OBVIOUS
<1>11. DOMAIN a = 1..m /\ DOMAIN b = 1..n
  BY <1>3
<1>. HIDE DEF p, m, n
<1>7. Follows(c, a, es)
  <2>. SUFFICES ASSUME NEW i \in 1..m, NEW h \in es, c < h.seq, h.seq <= a[i].seq
                PROVE  \E j \in 1..m : j <= i /\ a[j] = h
    BY <1>11 DEF Follows
  <2>1. PICK j \in 1..m + n : j <= i /\ p[j] = h
    BY <1>3, <1>6 DEF Follows
  <2>2. j \in 1..m
    BY <1>3, <2>1
  <2>. QED BY <1>3, <2>1, <2>2
<1>8. ASSUME \A i \in DOMAIN a : a[i].seq <= d, NEW h \in es, d < h.seq, NEW j \in 1..m + n, p[j] = h
      PROVE  j - m \in 1..n /\ b[j - m] = h
  <2>1. ASSUME j \in 1..m PROVE FALSE
    <3>1. a[j] = h
      BY <1>3, <1>8, <2>1
    <3>2. a[j].seq <= d
      BY <1>8, <1>11, <2>1
    <3>3. h.seq \in 1..MaxSeq
      BY <1>4
    <3>. QED BY <1>8, <3>1, <3>2, <3>3
  <2>. QED BY <1>3, <1>8, <2>1
<1>9. ASSUME \A i \in DOMAIN a : a[i].seq <= d PROVE Follows(d, b, es)
  <2>. SUFFICES ASSUME NEW i \in 1..n, NEW h \in es, d < h.seq, h.seq <= b[i].seq
                PROVE  \E j \in 1..n : j <= i /\ b[j] = h
    BY <1>11 DEF Follows
  <2>1. m + i \in 1..m + n /\ h.seq <= p[m + i].seq /\ c < h.seq
    BY <1>3, <1>4
  <2>2. PICK j \in 1..m + n : j <= m + i /\ p[j] = h
    BY <1>3, <1>6, <2>1 DEF Follows
  <2>3. j - m \in 1..n /\ b[j - m] = h
    BY <1>8, <1>9, <2>2
  <2>4. j - m <= i
    BY <1>3, <2>2
  <2>. QED BY <2>3, <2>4
<1>10. ASSUME \A i \in DOMAIN a : a[i].seq <= d, Complete(c, p, es) PROVE Complete(d, b, es)
  <2>. SUFFICES ASSUME NEW h \in es, d < h.seq PROVE \E j \in 1..n : b[j] = h
    BY <1>3 DEF Complete
  <2>1. c < h.seq
    BY <1>4
  <2>2. PICK j \in 1..m + n : p[j] = h
    BY <1>3, <1>10, <2>1 DEF Complete
  <2>. QED BY <1>8, <1>10, <2>2
<1>. QED BY <1>7, <1>9, <1>10 DEF p

(* A new event is above all that is on its way.                             *)
LEMMA NewEventIsAbove ==
  ASSUME NEW s, s \in Seq(SomeEvent), NEW e, e \in Event, NEW es, es \subseteq Event,
         NEW new, new \subseteq es \cup {e}, NEW c, c \in 0..MaxSeq,
         \A i \in DOMAIN s : s[i].seq < e.seq,
         Follows(c, s, es)
  PROVE  /\ Follows(c, s, new)
         /\ Complete(c, s, es) => Follows(c, Append(s, e), new) /\ Complete(c, Append(s, e), new)
<1>. USE BoundsAssumption
<1>. DEFINE t == Append(s, e)
            n == Len(s)
<1>1. /\ n \in Nat /\ DOMAIN s = 1..n /\ DOMAIN t = 1..n + 1
      /\ \A i \in 1..n : t[i] = s[i] /\ i \in 1..n + 1
      /\ n + 1 \in 1..n + 1 /\ t[n + 1] = e
      /\ \A i \in 1..n + 1 : i \in 1..n \/ i = n + 1
  <2>1. e \in SomeEvent
    BY FramesDiffer
  <2>2. /\ t \in Seq(SomeEvent) /\ Len(t) = n + 1
        /\ \A i \in 1..n : t[i] = s[i]
        /\ t[n + 1] = e
    BY <2>1, AppendProperties
  <2>3. n \in Nat /\ DOMAIN s = 1..n /\ DOMAIN t = 1..n + 1
    BY <2>2
  <2>4. n + 1 \in 1..n + 1 /\ \A i \in 1..n + 1 : i \in 1..n \/ i = n + 1
    BY <2>3
  <2>5. \A i \in 1..n : i \in 1..n + 1
    BY <2>3
  <2>. QED BY <2>2, <2>3, <2>4, <2>5
<1>2. /\ \A h \in es \cup {e} : h.seq \in 1..MaxSeq
      /\ \A i \in 1..n : s[i].seq \in 0..MaxSeq
  <2>1. \A x \in SomeEvent : x.seq \in 0..MaxSeq
    BY DEF SomeEvent
  <2>2. \A i \in 1..n : s[i] \in SomeEvent
    OBVIOUS
  <2>. QED BY <2>1, <2>2 DEF Event
<1>. HIDE DEF t, n
<1>3. \A i \in 1..n : \A h \in new : h.seq <= s[i].seq => h \in es
  BY <1>1, <1>2
<1>4. Follows(c, s, new)
  BY <1>1, <1>3 DEF Follows
<1>5. ASSUME Complete(c, s, es) PROVE Complete(c, t, new)
  <2>. SUFFICES ASSUME NEW h \in new, c < h.seq PROVE \E j \in 1..n + 1 : t[j] = h
    BY <1>1 DEF Complete
  <2>1. CASE h = e
    BY <1>1, <2>1
  <2>2. CASE h # e
    <3>1. PICK j \in 1..n : s[j] = h
      BY <1>1, <1>5, <2>2 DEF Complete
    <3>. QED BY <1>1, <3>1
  <2>. QED BY <2>1, <2>2
<1>6. ASSUME Complete(c, s, es) PROVE Follows(c, t, new)
  <2>. SUFFICES ASSUME NEW i \in 1..n + 1, NEW h \in new, c < h.seq, h.seq <= t[i].seq
                PROVE  \E j \in 1..n + 1 : j <= i /\ t[j] = h
    BY <1>1 DEF Follows
  <2>1. CASE i \in 1..n
    <3>1. PICK j \in 1..n : j <= i /\ s[j] = h
      BY <1>1, <1>4, <2>1 DEF Follows
    <3>. QED BY <1>1, <3>1
  <2>2. CASE i = n + 1
    <3>1. PICK j \in 1..n + 1 : t[j] = h
      BY <1>1, <1>5, <1>6 DEF Complete
    <3>2. j <= i
      BY <1>1, <2>2
    <3>. QED BY <3>1, <3>2
  <2>. QED BY <1>1, <2>1, <2>2
<1>. QED BY <1>4, <1>5, <1>6 DEF t

(* A replay from f has all of the history beyond f, and of the events es    *)
(* what a client with the cursor c lacks.                                   *)
ReplayFits(s, f, c, es) ==
  /\ s \in Seq(Event)
  /\ Follows(c, s, es) /\ Complete(c, s, es)
  /\ \A e \in hist : f < e.seq => \E i \in DOMAIN s : s[i] = e
  /\ \A i \in DOMAIN s : s[i] \in hist

(* A replay has all the events above the cursor it starts from. *)
LEMMA HistoryFollows ==
  ASSUME hist \subseteq Event, IsFiniteSet(hist), NEW f, f \in 0..MaxSeq, NEW c, c \in 0..MaxSeq, f <= c,
         NEW s, s \in EventsSince(f), NEW es, es \subseteq hist
  PROVE  ReplayFits(s, f, c, es)
<1>. USE BoundsAssumption
<1>. DEFINE S == {e \in hist : e.seq > f}
            N == Cardinality(S)
<1>1. IsFiniteSet(S)
  BY FS_Subset
<1>2. N \in Nat
  BY <1>1, FS_CardinalityType
<1>3. /\ s \in [1..N -> S] /\ ToSet(s) = S
      /\ \A i, j \in DOMAIN s : i < j => s[i].seq < s[j].seq
  BY DEF EventsSince, BySeq
<1>4. \A e \in S : e \in hist /\ e \in Event /\ e.seq \in 1..MaxSeq /\ e.seq > f
  BY DEF Event
<1>5. \A e \in hist : e.seq \in 1..MaxSeq /\ (f < e.seq => e \in S)
  BY DEF Event
<1>. HIDE DEF S, N
<1>6. DOMAIN s = 1..N /\ \A i \in 1..N : s[i] \in S
  BY <1>3
<1>7. s \in Seq(Event)
  <2>1. s \in [1..N -> Event]
    BY <1>3, <1>4, <1>6
  <2>. QED BY <1>2, <2>1
<1>8. \A e \in S : \E i \in 1..N : s[i] = e
  BY <1>3, <1>6 DEF ToSet
<1>9. ASSUME NEW h \in es, c < h.seq PROVE h \in S
  BY <1>5, <1>9
<1>10. Complete(c, s, es)
  BY <1>6, <1>8, <1>9 DEF Complete
<1>11. Follows(c, s, es)
  <2>. SUFFICES ASSUME NEW i \in 1..N, NEW h \in es, c < h.seq, h.seq <= s[i].seq
                PROVE  \E j \in 1..N : j <= i /\ s[j] = h
    BY <1>6 DEF Follows
  <2>1. PICK j \in 1..N : s[j] = h
    BY <1>8, <1>9
  <2>2. ~(i < j)
    <3>1. i < j => s[i].seq < s[j].seq
      BY <1>3, <1>6
    <3>2. s[i].seq \in 1..MaxSeq /\ s[j].seq \in 1..MaxSeq
      BY <1>4, <1>6
    <3>. QED BY <2>1, <3>1, <3>2
  <2>3. j <= i
    BY <1>2, <2>2
  <2>. QED BY <2>1, <2>3
<1>. QED BY <1>4, <1>5, <1>6, <1>7, <1>8, <1>10, <1>11 DEF ReplayFits

-----------------------------------------------------------------------------
(* The invariant *)

(* What the app took off the socket and has not applied. *)
Taken == IF awaiting THEN Items(buffer) ELSE window

(* Everything on its way to the view, in the order in which it gets there.  *)
Pipe == (Taken \o Items(s2c)) \o Items(pending)

(* The events whose seqs are above all that was recorded before.            *)
Lasting == {e \in hist : ~IsAggregate(e)}

Asking == \E i \in DOMAIN c2s : c2s[i] # Hello
Acking == \E i \in DOMAIN s2c : s2c[i] = Ack

TypesOk == TypeOK /\ IsFiniteSet(hist)

(* Nothing is seen that was not issued, and the last event issued is there. *)
Issued ==
  /\ \A e \in hist : e.seq <= last
  /\ \A x \in ToSet(Pipe) : x.seq <= last
  /\ view.cursor <= last
  /\ \A q \in open : [seq |-> q, covers |-> {q}] \in hist
  /\ last # 0 => \E e \in hist : e.seq = last

Modes ==
  /\ full <=> (awaiting /\ ~loaded)
  /\ awaiting => window = <<>> /\ subscribed
  /\ ~awaiting => buffer = <<>>
  /\ ~subscribed => ~loaded
  /\ subscribed => awaiting \/ loaded

(* The app asks from no further than it has applied. *)
Asked ==
  \A i \in DOMAIN c2s :
    c2s[i] # Hello => c2s[i].from <= ReplayBase.cursor /\ (~loaded => c2s[i].from = 0)

(* A client is greeted first. *)
Wire ==
  /\ ~connected => c2s = <<>> /\ s2c = <<>> /\ pending = <<>> /\ ~authed
  /\ connected => \A i \in DOMAIN c2s : c2s[i] = Hello <=> (~authed /\ i = 1)
  /\ connected /\ ~authed => c2s # <<>> /\ s2c = <<>> /\ pending = <<>> /\ (subscribed => Asking)
  /\ Asking => subscribed
  /\ Asked

(* The last event was applied, is on its way or will be asked for.          *)
Tip ==
  connected /\ subscribed =>
    \/ ReplayBase.cursor = last
    \/ Asking
    \/ \E x \in ToSet(Pipe) : x.seq = last

(* A replay ends with its ack. *)
Acked ==
  \A i \in DOMAIN s2c : s2c[i].type = "replay" => \E j \in DOMAIN s2c : i < j /\ s2c[j] = Ack

(* One sub at a time: it is on its way, or its ack is, while one is awaited. *)
Phases ==
  connected =>
    /\ \A i, j \in DOMAIN c2s : c2s[i] # Hello /\ c2s[j] # Hello => i = j
    /\ \A i, j \in DOMAIN s2c : s2c[i] = Ack /\ s2c[j] = Ack => i = j
    /\ awaiting => (Asking <=> ~Acking)
    /\ ~awaiting => ~Asking /\ ~Acking
    /\ Acked
    /\ Asking => /\ \A i \in DOMAIN s2c : s2c[i].type = "live"
                 /\ \A i \in DOMAIN buffer : buffer[i].type = "live"

(* No live event is taken ahead of a replay.                                *)
Clean ==
  /\ \A i \in DOMAIN buffer : buffer[i].type # "live"
  /\ \A i, j \in DOMAIN s2c : i < j /\ s2c[j] = Ack => s2c[i].type # "live"

(* What was applied is held, and what is on its way fits what was applied.  *)
Flow ==
  /\ loaded => HeldUpTo(view, Lasting)
  /\ subscribed /\ (awaiting => connected /\ ~Asking /\ Clean) =>
       /\ Follows(ReplayBase.cursor, Pipe, Lasting)
       /\ connected => Complete(ReplayBase.cursor, Pipe, Lasting)

DeliveryInv ==
  /\ TypesOk /\ Issued /\ Modes /\ Wire /\ Tip
  /\ ~rearmed => Phases
  /\ ~rearmed /\ ~raced => Flow

(* What the parts of the pipe are made of. *)
LEMMA PipeParts ==
  ASSUME TypesOk
  PROVE  /\ pending \in Seq(Frame) /\ s2c \in Seq(Frame) /\ buffer \in Seq(Frame) /\ window \in Seq(SomeEvent)
         /\ buffer \in Seq(EventFrame) /\ pending \in Seq(EventFrame)
         /\ Taken \in Seq(SomeEvent) /\ Items(s2c) \in Seq(SomeEvent) /\ Items(pending) \in Seq(SomeEvent)
         /\ Items(buffer) \in Seq(SomeEvent)
         /\ Taken \o Items(s2c) \in Seq(SomeEvent) /\ Pipe \in Seq(SomeEvent)
         /\ view \in View /\ Lasting \subseteq Event /\ ReplayBase \in View
<1>. USE BoundsAssumption
<1>1. /\ pending \in Seq([type : {"live"}, event : Event])
      /\ buffer \in Seq(EventFrame)
      /\ s2c \in Seq(Frame) /\ window \in Seq(Event) /\ view \in View /\ hist \subseteq Event
  BY DEF TypesOk, TypeOK, EventFrame, Frame, View
<1>2. [type : {"live"}, event : Event] \subseteq EventFrame
  BY DEF EventFrame
<1>3. EventFrame \subseteq Frame /\ Event \subseteq SomeEvent
  BY FramesDiffer
<1>4. pending \in Seq(EventFrame)
  BY <1>1, <1>2, SeqMonotonic
<1>5. pending \in Seq(Frame) /\ buffer \in Seq(Frame) /\ window \in Seq(SomeEvent)
  BY <1>1, <1>3, <1>4, SeqMonotonic
<1>6. Items(s2c) \in Seq(SomeEvent) /\ Items(pending) \in Seq(SomeEvent) /\ Items(buffer) \in Seq(SomeEvent)
  BY <1>1, <1>5, ItemsType
<1>7. Taken \in Seq(SomeEvent)
  BY <1>5, <1>6 DEF Taken
<1>8. Taken \o Items(s2c) \in Seq(SomeEvent)
  BY <1>6, <1>7, ConcatProperties
<1>9. Pipe \in Seq(SomeEvent)
  BY <1>6, <1>8, ConcatProperties DEF Pipe
<1>10. Lasting \subseteq Event
  BY <1>1 DEF Lasting
<1>11. NothingSeen \in View
  BY DEF NothingSeen, View
<1>12. ReplayBase \in View
  BY <1>1, <1>11 DEF ReplayBase
<1>. QED BY <1>1, <1>4, <1>5, <1>6, <1>7, <1>8, <1>9, <1>10, <1>12

-----------------------------------------------------------------------------
(* The session records *)

(* The session recorded e, which the hub fans out. *)
Recorded(e) ==
  /\ e \in Event /\ e.seq = last + 1 /\ last < MaxSeq /\ last' = last + 1
  /\ hist' \subseteq Event /\ IsFiniteSet(hist') /\ e \in hist'
  /\ \A h \in hist' : h.seq <= last + 1
  /\ Lasting' \subseteq Lasting \cup {e}
  /\ open' \subseteq 1..MaxSeq
  /\ \A q \in open' : [seq |-> q, covers |-> {q}] \in hist'
  /\ Fanout(e)
  /\ UNCHANGED <<authed, c2s, s2c, connected, app, drops, opens>>

(* Whatever the session does, it records an event. *)
LEMMA Recording ==
  ASSUME TypesOk, Issued, Note \/ Delta \/ Final \/ EndUnfinished
  PROVE  \E e : Recorded(e)
<1>. USE BoundsAssumption
<1>1. /\ hist \subseteq Event /\ IsFiniteSet(hist) /\ open \subseteq 1..MaxSeq /\ last \in 0..MaxSeq
      /\ \A e \in hist : e.seq \in 1..MaxSeq /\ e.seq <= last
      /\ \A q \in open : [seq |-> q, covers |-> {q}] \in hist
  BY DEF TypesOk, TypeOK, Issued, Event
<1>2. \A q \in open : q \in 1..MaxSeq /\ q <= last
  <2>. SUFFICES ASSUME NEW q \in open PROVE q \in 1..MaxSeq /\ q <= last
    OBVIOUS
  <2>1. [seq |-> q, covers |-> {q}].seq <= last
    BY <1>1
  <2>. QED BY <1>1, <2>1
<1>3. ASSUME NEW covers, covers \subseteq open \cup {last + 1}, last < MaxSeq,
             NEW kept, kept \subseteq Event, IsFiniteSet(kept), \A h \in kept : h.seq <= last,
             {h \in kept : ~IsAggregate(h)} \subseteq Lasting,
             Record([seq |-> last + 1, covers |-> covers], kept),
             open' \subseteq 1..MaxSeq,
             \A q \in open' : [seq |-> q, covers |-> {q}] \in kept \cup {[seq |-> last + 1, covers |-> covers]}
      PROVE  Recorded([seq |-> last + 1, covers |-> covers])
  <2>. DEFINE e == [seq |-> last + 1, covers |-> covers]
  <2>1. covers \subseteq 1..MaxSeq /\ last + 1 \in 1..MaxSeq
    BY <1>1, <1>2, <1>3
  <2>2. e \in Event /\ e.seq = last + 1
    BY <2>1 DEF Event
  <2>3. /\ last' = last + 1 /\ hist' = kept \cup {e} /\ Fanout(e)
        /\ UNCHANGED <<authed, c2s, s2c, connected, app, drops, opens>>
    BY <1>3 DEF Record
  <2>. HIDE DEF e
  <2>4. hist' \subseteq Event /\ e \in hist' /\ IsFiniteSet(hist')
    BY <1>3, <2>2, <2>3, FS_AddElement
  <2>5. \A h \in hist' : h.seq <= last + 1
    <3>1. \A h \in kept : h.seq \in 1..MaxSeq /\ h.seq <= last
      BY <1>3 DEF Event
    <3>2. \A h \in kept : h.seq <= last + 1
      BY <1>1, <3>1
    <3>. QED BY <1>1, <2>2, <2>3, <3>2
  <2>6. Lasting' \subseteq Lasting \cup {e}
    <3>1. Lasting' = {h \in kept \cup {e} : ~IsAggregate(h)}
      BY <2>3 DEF Lasting, IsAggregate
    <3>. QED BY <1>3, <3>1
  <2>7. \A q \in open' : [seq |-> q, covers |-> {q}] \in hist'
    BY <1>3, <2>3 DEF e
  <2>8. Recorded(e)
    BY <1>3, <2>2, <2>3, <2>4, <2>5, <2>6, <2>7 DEF Recorded
  <2>. QED BY <2>8 DEF e
<1>4. /\ Undelta \subseteq hist /\ Undelta \subseteq Event /\ IsFiniteSet(Undelta)
      /\ \A h \in Undelta : h.seq <= last
      /\ {h \in Undelta : ~IsAggregate(h)} \subseteq Lasting
  BY <1>1, FS_Subset DEF Undelta, Lasting
<1>5. {h \in hist : ~IsAggregate(h)} \subseteq Lasting
  BY DEF Lasting
<1>6. CASE Note
  <2>1. last < MaxSeq /\ open' = open /\ Record([seq |-> last + 1, covers |-> {last + 1}], hist)
    BY <1>6 DEF Note, Record
  <2>2. Recorded([seq |-> last + 1, covers |-> {last + 1}])
    BY <1>1, <1>3, <1>5, <2>1
  <2>. QED BY <2>2
<1>7. CASE Delta
  <2>1. last < MaxSeq /\ open' = open \cup {last + 1} /\ Record([seq |-> last + 1, covers |-> {last + 1}], hist)
    BY <1>7 DEF Delta, Record
  <2>2. open' \subseteq 1..MaxSeq
    BY <1>1, <2>1
  <2>3. Recorded([seq |-> last + 1, covers |-> {last + 1}])
    BY <1>1, <1>3, <1>5, <2>1, <2>2
  <2>. QED BY <2>3
<1>8. CASE Final
  <2>1. last < MaxSeq /\ open' = {} /\ Record([seq |-> last + 1, covers |-> open \cup {last + 1}], Undelta)
    BY <1>8 DEF Final, Record
  <2>2. Recorded([seq |-> last + 1, covers |-> open \cup {last + 1}])
    BY <1>1, <1>3, <1>4, <2>1
  <2>. QED BY <2>2
<1>9. CASE EndUnfinished
  <2>. DEFINE first == CHOOSE q \in open : \A r \in open : q <= r
              whole == [seq |-> first, covers |-> open]
  <2>1. /\ last < MaxSeq /\ open' = {} /\ open # {}
        /\ Record([seq |-> last + 1, covers |-> {last + 1}], Undelta \cup {whole})
    BY <1>9 DEF EndUnfinished, Record
  <2>2. first \in open /\ \A r \in open : first <= r
    <3>1. open \subseteq Nat
      BY <1>2
    <3>2. PICK q \in open : \A r \in open : ~(r < q)
      BY <2>1, <3>1, NatMin
    <3>3. \A r \in open : q <= r
      BY <3>1, <3>2
    <3>. QED BY <3>3
  <2>. HIDE DEF first
  <2>3. whole \in Event /\ whole.seq = first /\ whole.seq <= last
    BY <1>1, <1>2, <2>2 DEF Event
  <2>4. ~IsAggregate(whole) => whole \in Lasting
    <3>. SUFFICES ASSUME ~IsAggregate(whole) PROVE whole \in Lasting
      OBVIOUS
    <3>1. \A q \in open : ~(q > first)
      BY DEF IsAggregate
    <3>2. open = {first}
      BY <1>2, <2>2, <3>1
    <3>3. whole \in hist
      BY <1>1, <2>2, <3>2
    <3>. QED BY <3>3 DEF Lasting
  <2>. HIDE DEF whole
  <2>5. /\ Undelta \cup {whole} \subseteq Event /\ IsFiniteSet(Undelta \cup {whole})
        /\ \A h \in Undelta \cup {whole} : h.seq <= last
        /\ {h \in Undelta \cup {whole} : ~IsAggregate(h)} \subseteq Lasting
    BY <1>4, <2>3, <2>4, FS_AddElement
  <2>6. Recorded([seq |-> last + 1, covers |-> {last + 1}])
    BY <1>1, <1>3, <2>1, <2>5
  <2>. QED BY <2>6
<1>. QED BY <1>6, <1>7, <1>8, <1>9

(* A recorded event keeps the invariant. *)
LEMMA RecordedKeeps ==
  ASSUME DeliveryInv, NEW e, Recorded(e)
  PROVE  DeliveryInv'
<1>. USE BoundsAssumption
<1>1. /\ TypesOk /\ Issued /\ Modes /\ Wire /\ Tip
      /\ ~rearmed => Phases
      /\ ~rearmed /\ ~raced => Flow
  BY DEF DeliveryInv
<1>2. /\ e \in Event /\ e.seq = last + 1 /\ last < MaxSeq /\ last' = last + 1 /\ last \in 0..MaxSeq
      /\ e \in hist' /\ Lasting' \subseteq Lasting \cup {e}
      /\ UNCHANGED <<authed, c2s, s2c, connected, drops, opens>>
      /\ UNCHANGED <<subscribed, awaiting, full, loaded, buffer, window, view, raced, rearmed>>
  BY <1>1 DEF Recorded, TypesOk, TypeOK, app
<1>3. pending' = IF authed THEN Append(pending, Live(e)) ELSE pending
  BY DEF Recorded, Fanout
<1>4. /\ pending \in Seq(Frame) /\ s2c \in Seq(Frame) /\ Items(pending) \in Seq(SomeEvent)
      /\ Taken \o Items(s2c) \in Seq(SomeEvent) /\ Pipe \in Seq(SomeEvent)
      /\ Lasting \subseteq Event /\ ReplayBase \in View /\ view \in View
  BY <1>1, PipeParts
<1>5. TypesOk'
  <2>1. pending' \in Seq([type : {"live"}, event : Event])
    <3>1. Live(e) \in [type : {"live"}, event : Event]
      BY <1>2 DEF Live
    <3>2. pending \in Seq([type : {"live"}, event : Event])
      BY <1>1 DEF TypesOk, TypeOK
    <3>3. Append(pending, Live(e)) \in Seq([type : {"live"}, event : Event])
      BY <3>1, <3>2, AppendProperties
    <3>. QED BY <1>3, <3>2, <3>3
  <2>2. hist' \subseteq Event /\ IsFiniteSet(hist') /\ open' \subseteq 1..MaxSeq
    BY DEF Recorded
  <2>3. last' \in 0..MaxSeq
    BY <1>2
  <2>. QED BY <1>1, <1>2, <2>1, <2>2, <2>3 DEF TypesOk, TypeOK
<1>6. Taken' = Taken /\ Items(s2c)' = Items(s2c) /\ ReplayBase' = ReplayBase /\ (Asking' <=> Asking)
      /\ (Acking' <=> Acking)
  BY <1>2 DEF Taken, ReplayBase, Asking, Acking
<1>7. Pipe' = IF authed THEN Append(Pipe, e) ELSE Pipe
  <2>1. CASE ~authed
    BY <1>3, <1>6, <2>1 DEF Pipe
  <2>2. CASE authed
    <3>1. Live(e) \in Frame /\ Item(Live(e)) = e /\ e \in SomeEvent
      BY <1>2, FramesDiffer
    <3>2. pending' = pending \o <<Live(e)>>
      BY <1>3, <1>4, <2>2, <3>1, AppendIsConcat
    <3>3. <<Live(e)>> \in Seq(Frame) /\ Items(<<Live(e)>>) = <<e>> /\ <<e>> \in Seq(SomeEvent)
      BY <3>1 DEF Items
    <3>4. Items(pending)' = Items(pending) \o <<e>>
      BY <1>4, <3>2, <3>3, ItemsOfConcat
    <3>5. Pipe' = (Taken \o Items(s2c)) \o (Items(pending) \o <<e>>)
      BY <1>6, <3>4 DEF Pipe
    <3>6. Pipe' = Pipe \o <<e>>
      BY <1>4, <3>3, <3>5, ConcatAssociative DEF Pipe
    <3>. QED BY <1>4, <2>2, <3>1, <3>6, AppendIsConcat
  <2>. QED BY <2>1, <2>2
<1>8. /\ \A i \in DOMAIN Pipe : Pipe[i].seq \in 0..MaxSeq /\ Pipe[i].seq <= last /\ Pipe[i].seq < e.seq
      /\ DOMAIN Pipe = 1..Len(Pipe) /\ Len(Pipe) \in Nat
  <2>1. \A i \in DOMAIN Pipe : Pipe[i] \in SomeEvent
    BY <1>4
  <2>2. \A x \in SomeEvent : x.seq \in 0..MaxSeq
    BY DEF SomeEvent
  <2>3. \A i \in DOMAIN Pipe : Pipe[i].seq <= last
    BY <1>1 DEF Issued, ToSet
  <2>4. DOMAIN Pipe = 1..Len(Pipe) /\ Len(Pipe) \in Nat
    BY <1>4
  <2>. QED BY <1>2, <2>1, <2>2, <2>3, <2>4
<1>9. authed => /\ DOMAIN Pipe' = 1..Len(Pipe) + 1 /\ Pipe'[Len(Pipe) + 1] = e
                /\ \A i \in 1..Len(Pipe) : Pipe'[i] = Pipe[i]
  <2>1. e \in SomeEvent
    BY <1>2, FramesDiffer
  <2>. QED BY <1>4, <1>7, <2>1, AppendProperties
<1>10. Issued'
  <2>1. ASSUME NEW i \in DOMAIN Pipe' PROVE Pipe'[i].seq <= last + 1
    <3>1. CASE ~authed
      BY <1>2, <1>7, <1>8, <2>1, <3>1
    <3>2. CASE authed
      <4>1. i \in DOMAIN Pipe \/ i = Len(Pipe) + 1
        BY <1>8, <1>9, <2>1, <3>2
      <4>2. CASE i \in DOMAIN Pipe
        BY <1>2, <1>8, <1>9, <3>2, <4>2
      <4>3. CASE i = Len(Pipe) + 1
        BY <1>2, <1>9, <3>2, <4>3
      <4>. QED BY <4>1, <4>2, <4>3
    <3>. QED BY <3>1, <3>2
  <2>2. view.cursor \in 0..MaxSeq /\ view.cursor <= last
    BY <1>1, <1>4 DEF Issued, View
  <2>3. /\ \A h \in hist' : h.seq <= last + 1
        /\ \A q \in open' : [seq |-> q, covers |-> {q}] \in hist'
    BY DEF Recorded
  <2>4. \A x \in ToSet(Pipe') : x.seq <= last + 1
    BY <2>1 DEF ToSet
  <2>. QED BY <1>2, <2>2, <2>3, <2>4 DEF Issued
<1>11. Modes'
  BY <1>1, <1>2 DEF Modes
<1>12. Wire'
  <2>1. (connected /\ ~authed) \/ ~connected => pending' = pending
    BY <1>1, <1>3 DEF Wire
  <2>2. Asked'
    BY <1>1, <1>2, <1>6 DEF Wire, Asked
  <2>. QED BY <1>1, <1>2, <1>6, <2>1, <2>2 DEF Wire
<1>13. Tip'
  <2>. SUFFICES ASSUME connected, subscribed, ~Asking PROVE \E x \in ToSet(Pipe') : x.seq = last + 1
    BY <1>2, <1>6 DEF Tip
  <2>1. authed
    BY <1>1 DEF Wire
  <2>2. Len(Pipe) + 1 \in DOMAIN Pipe'
    BY <1>8, <1>9, <2>1
  <2>3. e \in ToSet(Pipe')
    BY <1>9, <2>1, <2>2 DEF ToSet
  <2>. QED BY <1>2, <2>3
<1>14. Phases => Phases'
  BY <1>2, <1>6 DEF Phases, Acked
<1>15. ASSUME Phases, Flow PROVE Flow'
  <2>1. Clean' <=> Clean
    BY <1>2 DEF Clean
  <2>2. ASSUME loaded PROVE HeldUpTo(view, Lasting)'
    <3>1. HeldUpTo(view, Lasting)
      BY <1>15, <2>2 DEF Flow
    <3>2. ~(e.seq <= view.cursor)
      <4>1. view.cursor \in 0..MaxSeq /\ view.cursor <= last
        BY <1>1, <1>4 DEF Issued, View
      <4>. QED BY <1>2, <4>1
    <3>3. \A h \in Lasting' : h.seq <= view.cursor => h \in view.held
      BY <1>2, <3>1, <3>2 DEF HeldUpTo
    <3>. QED BY <1>2, <3>3 DEF HeldUpTo
  <2>3. ASSUME subscribed, awaiting => connected /\ ~Asking /\ Clean
        PROVE  /\ Follows(ReplayBase.cursor, Pipe, Lasting)'
               /\ connected' => Complete(ReplayBase.cursor, Pipe, Lasting)'
    <3>. DEFINE c == ReplayBase.cursor
    <3>1. c \in 0..MaxSeq
      BY <1>4 DEF View
    <3>2. Follows(c, Pipe, Lasting) /\ (connected => Complete(c, Pipe, Lasting))
      BY <1>15, <2>3 DEF Flow
    <3>3. ReplayBase.cursor' = c
      BY <1>6
    <3>. HIDE DEF c
    <3>4. /\ Follows(c, Pipe, Lasting')
          /\ Complete(c, Pipe, Lasting) =>
               Follows(c, Append(Pipe, e), Lasting') /\ Complete(c, Append(Pipe, e), Lasting')
      BY <1>2, <1>4, <1>8, <3>1, <3>2, NewEventIsAbove
    <3>5. connected => authed
      <4>1. connected => ~Asking
        BY <1>15, <2>3 DEF Phases
      <4>. QED BY <1>1, <2>3, <4>1 DEF Wire
    <3>6. authed => connected
      BY <1>1 DEF Wire
    <3>7. CASE authed
      <4>1. Follows(c, Pipe', Lasting') /\ Complete(c, Pipe', Lasting')
        BY <1>7, <3>2, <3>4, <3>6, <3>7
      <4>. QED BY <3>3, <4>1
    <3>8. CASE ~authed
      <4>1. Follows(c, Pipe', Lasting') /\ ~connected'
        BY <1>2, <1>7, <3>4, <3>5, <3>8
      <4>. QED BY <3>3, <4>1
    <3>. QED BY <3>7, <3>8
  <2>4. UNCHANGED <<loaded, subscribed, awaiting, connected>>
    BY <1>2
  <2>. QED BY <1>6, <2>1, <2>2, <2>3, <2>4 DEF Flow
<1>. QED BY <1>1, <1>2, <1>5, <1>10, <1>11, <1>12, <1>13, <1>14, <1>15 DEF DeliveryInv

-----------------------------------------------------------------------------
(* What is on its way moves on *)

(* A step that applies nothing and moves along what is on its way keeps     *)
(* what the invariant says of it.                                           *)
LEMMA PipeMoves ==
  ASSUME DeliveryInv, Pipe' = Pipe, awaiting /\ Clean' => Clean, Asking' <=> Asking,
         UNCHANGED <<session, connected, subscribed, awaiting, full, loaded, view, raced, rearmed>>
  PROVE  /\ Issued' /\ Tip'
         /\ ~rearmed' /\ ~raced' => Flow'
<1>1. UNCHANGED <<hist, open, last>>
  BY DEF session
<1>2. ReplayBase' = ReplayBase /\ Lasting' = Lasting
  BY <1>1 DEF ReplayBase, Lasting
<1>3. Issued'
  BY <1>1 DEF DeliveryInv, Issued
<1>4. Tip'
  BY <1>1, <1>2 DEF DeliveryInv, Tip
<1>5. ASSUME Flow PROVE Flow'
  BY <1>2, <1>5 DEF Flow
<1>. QED BY <1>3, <1>4, <1>5 DEF DeliveryInv

(* The hub's window closes. *)
LEMMA HubFlushKeeps ==
  ASSUME DeliveryInv, HubFlush
  PROVE  DeliveryInv'
<1>1. /\ TypesOk /\ Issued /\ Modes /\ Wire /\ Tip
      /\ ~rearmed => Phases
  BY DEF DeliveryInv
<1>2. /\ pending # <<>> /\ s2c' = s2c \o pending /\ pending' = <<>>
      /\ UNCHANGED <<hist, open, last, authed, c2s, connected, drops, opens>>
      /\ UNCHANGED <<subscribed, awaiting, full, loaded, buffer, window, view, raced, rearmed>>
  BY DEF HubFlush, session, app
<1>3. /\ pending \in Seq(Frame) /\ s2c \in Seq(Frame)
      /\ Taken \in Seq(SomeEvent) /\ Items(s2c) \in Seq(SomeEvent) /\ Items(pending) \in Seq(SomeEvent)
  BY <1>1, PipeParts
<1>4. \A i \in DOMAIN pending : pending[i] # Ack /\ pending[i].type = "live"
  <2>1. pending \in Seq([type : {"live"}, event : Event])
    BY <1>1 DEF TypesOk, TypeOK
  <2>2. \A f \in [type : {"live"}, event : Event] : f \in EventFrame /\ f.type = "live"
    BY DEF EventFrame
  <2>3. \A i \in DOMAIN pending : pending[i] \in [type : {"live"}, event : Event]
    BY <2>1, ElementOfSeq, LenProperties
  <2>. QED BY <2>2, <2>3, FramesDiffer
<1>5. /\ s2c' \in Seq(Frame)
      /\ \A i \in DOMAIN s2c : i \in DOMAIN s2c' /\ s2c'[i] = s2c[i]
      /\ \A i \in DOMAIN s2c' : \/ i \in DOMAIN s2c /\ s2c'[i] = s2c[i]
                                \/ s2c'[i] # Ack /\ s2c'[i].type = "live"
  <2>1. /\ s2c \o pending \in Seq(Frame)
        /\ \A i \in DOMAIN s2c : i \in DOMAIN (s2c \o pending) /\ (s2c \o pending)[i] = s2c[i]
        /\ \A i \in DOMAIN (s2c \o pending) :
             \/ i \in DOMAIN s2c /\ (s2c \o pending)[i] = s2c[i]
             \/ i - Len(s2c) \in DOMAIN pending /\ (s2c \o pending)[i] = pending[i - Len(s2c)]
    BY <1>3, ConcatAt
  <2>. QED BY <1>2, <1>4, <2>1
<1>6. Pipe' = Pipe
  <2>1. Taken' = Taken /\ Items(pending)' = <<>>
    BY <1>2 DEF Taken, Items
  <2>2. Items(s2c)' = Items(s2c) \o Items(pending)
    BY <1>2, <1>3, ItemsOfConcat
  <2>3. Pipe' = (Taken \o (Items(s2c) \o Items(pending))) \o <<>>
    BY <2>1, <2>2 DEF Pipe
  <2>4. (Taken \o (Items(s2c) \o Items(pending))) \o <<>> = (Taken \o Items(s2c)) \o Items(pending)
    <3>1. Taken \in Seq(SomeEvent) /\ Items(s2c) \in Seq(SomeEvent) /\ Items(pending) \in Seq(SomeEvent)
      BY <1>3
    <3>. QED BY <3>1, CutElsewhere
  <2>5. Pipe' = (Taken \o Items(s2c)) \o Items(pending)
    BY <2>3, <2>4
  <2>. QED BY <2>5 DEF Pipe
<1>7. connected /\ authed
  BY <1>1, <1>2 DEF Wire
<1>8. Asking' <=> Asking
  BY <1>2 DEF Asking
<1>9. Clean' => Clean
  BY <1>2, <1>5 DEF Clean
<1>10. Issued' /\ Tip' /\ (~rearmed' /\ ~raced' => Flow')
  BY <1>2, <1>6, <1>8, <1>9, PipeMoves DEF session
<1>11. TypesOk'
  <2>1. pending' \in Seq([type : {"live"}, event : Event])
    BY <1>2
  <2>2. s2c' \in Seq([type : {"live", "replay"}, event : Event] \cup {Ack})
    BY <1>5 DEF Frame, EventFrame
  <2>. QED BY <1>1, <1>2, <2>1, <2>2 DEF TypesOk, TypeOK
<1>12. Modes'
  BY <1>1, <1>2 DEF Modes
<1>13. Wire'
  <2>1. Asked'
    BY <1>1, <1>2 DEF Wire, Asked, ReplayBase
  <2>. QED BY <1>1, <1>2, <1>7, <1>8, <2>1 DEF Wire
<1>14. ASSUME Phases PROVE Phases'
  <2>1. Acking' <=> Acking
    BY <1>5 DEF Acking
  <2>2. \A i, j \in DOMAIN s2c' : s2c'[i] = Ack /\ s2c'[j] = Ack => i = j
    BY <1>5, <1>7, <1>14 DEF Phases
  <2>3. Asking => \A i \in DOMAIN s2c' : s2c'[i].type = "live"
    BY <1>5, <1>7, <1>14 DEF Phases
  <2>4. Acked'
    <3>1. Acked
      BY <1>7, <1>14 DEF Phases
    <3>2. ASSUME NEW i \in DOMAIN s2c', s2c'[i].type = "replay" PROVE \E j \in DOMAIN s2c' : i < j /\ s2c'[j] = Ack
      <4>1. i \in DOMAIN s2c /\ s2c[i].type = "replay"
        BY <1>5, <3>2
      <4>2. PICK j \in DOMAIN s2c : i < j /\ s2c[j] = Ack
        BY <3>1, <4>1 DEF Acked
      <4>. QED BY <1>5, <4>2
    <3>. QED BY <3>2 DEF Acked
  <2>. QED BY <1>2, <1>8, <1>14, <2>1, <2>2, <2>3, <2>4 DEF Phases
<1>. QED BY <1>1, <1>2, <1>10, <1>11, <1>12, <1>13, <1>14 DEF DeliveryInv

(* The hub learns of the client. *)
LEMMA HandleHelloKeeps ==
  ASSUME DeliveryInv, HandleHello
  PROVE  DeliveryInv'
<1>1. /\ TypesOk /\ Issued /\ Modes /\ Wire /\ Tip
      /\ ~rearmed => Phases
  BY DEF DeliveryInv
<1>2. /\ c2s # <<>> /\ Head(c2s) = Hello /\ authed' = TRUE /\ c2s' = Tail(c2s)
      /\ UNCHANGED <<hist, open, last, pending, s2c, connected, drops, opens>>
      /\ UNCHANGED <<subscribed, awaiting, full, loaded, buffer, window, view, raced, rearmed>>
  BY DEF HandleHello, session, app
<1>3. c2s \in Seq(Request)
  BY <1>1 DEF TypesOk, TypeOK, Request
<1>4. /\ Head(c2s) = c2s[1] /\ 1 \in DOMAIN c2s /\ c2s' \in Seq(Request)
      /\ \A i \in DOMAIN c2s' : i + 1 \in DOMAIN c2s /\ i + 1 > 1 /\ c2s'[i] = c2s[i + 1]
      /\ \A i \in DOMAIN c2s : i = 1 \/ (i - 1 \in DOMAIN c2s' /\ c2s'[i - 1] = c2s[i])
      /\ \A i \in DOMAIN c2s' : i \in Int
  <2>1. \A i \in DOMAIN Tail(c2s) : i \in Int
    BY <1>2, <1>3
  <2>. QED BY <1>2, <1>3, <2>1, HeadThenTail
<1>5. connected /\ ~authed
  BY <1>1, <1>2, <1>4 DEF Wire
<1>6. Asking' <=> Asking
  <2>1. ASSUME Asking PROVE Asking'
    <3>1. PICK i \in DOMAIN c2s : c2s[i] # Hello
      BY <2>1 DEF Asking
    <3>2. i - 1 \in DOMAIN c2s' /\ c2s'[i - 1] # Hello
      BY <1>2, <1>4, <3>1
    <3>. QED BY <3>2 DEF Asking
  <2>2. ASSUME Asking' PROVE Asking
    BY <1>4, <2>2 DEF Asking
  <2>. QED BY <2>1, <2>2
<1>7. Pipe' = Pipe
  BY <1>2 DEF Pipe, Taken
<1>8. Clean' => Clean
  BY <1>2 DEF Clean
<1>9. Issued' /\ Tip' /\ (~rearmed' /\ ~raced' => Flow')
  BY <1>2, <1>6, <1>7, <1>8, PipeMoves DEF session
<1>10. TypesOk'
  BY <1>1, <1>2, <1>4 DEF TypesOk, TypeOK, Request
<1>11. Modes'
  BY <1>1, <1>2 DEF Modes
<1>12. Wire'
  <2>1. \A i \in DOMAIN c2s' : c2s'[i] # Hello
    <3>. SUFFICES ASSUME NEW i \in DOMAIN c2s' PROVE c2s'[i] # Hello
      OBVIOUS
    <3>1. i + 1 \in DOMAIN c2s /\ i + 1 # 1 /\ c2s'[i] = c2s[i + 1]
      BY <1>4
    <3>. QED BY <1>1, <1>5, <3>1 DEF Wire
  <2>2. \A i \in DOMAIN c2s' : c2s'[i] # Hello => c2s'[i].from <= ReplayBase.cursor /\ (~loaded => c2s'[i].from = 0)
    <3>. SUFFICES ASSUME NEW i \in DOMAIN c2s', c2s'[i] # Hello
                  PROVE  c2s'[i].from <= ReplayBase.cursor /\ (~loaded => c2s'[i].from = 0)
      OBVIOUS
    <3>1. i + 1 \in DOMAIN c2s /\ c2s'[i] = c2s[i + 1]
      BY <1>4
    <3>2. Asked
      BY <1>1 DEF Wire
    <3>. QED BY <3>1, <3>2 DEF Asked
  <2>3. ReplayBase' = ReplayBase
    BY <1>2 DEF ReplayBase
  <2>4. Asking => subscribed
    BY <1>1 DEF Wire
  <2>5. Asked'
    BY <1>2, <2>2, <2>3 DEF Asked
  <2>. QED BY <1>2, <1>5, <1>6, <2>1, <2>4, <2>5 DEF Wire
<1>13. ASSUME Phases PROVE Phases'
  <2>1. ASSUME NEW i \in DOMAIN c2s', NEW j \in DOMAIN c2s', c2s'[i] # Hello, c2s'[j] # Hello PROVE i = j
    <3>1. i + 1 \in DOMAIN c2s /\ j + 1 \in DOMAIN c2s /\ c2s[i + 1] # Hello /\ c2s[j + 1] # Hello
      BY <1>4, <2>1
    <3>2. i + 1 = j + 1
      BY <1>5, <1>13, <3>1 DEF Phases
    <3>. QED BY <1>4, <3>2
  <2>2. (Acking' <=> Acking) /\ (Acked' <=> Acked)
    BY <1>2 DEF Acking, Acked
  <2>. QED BY <1>2, <1>6, <1>13, <2>1, <2>2 DEF Phases
<1>. QED BY <1>1, <1>2, <1>9, <1>10, <1>11, <1>12, <1>13 DEF DeliveryInv

(* A frame taken off the socket leaves each replay its ack. *)
LEMMA TailAcked ==
  ASSUME s2c \in Seq(Frame), s2c # <<>>, s2c' = Tail(s2c), Acked
  PROVE  Acked'
<1>1. /\ \A i \in DOMAIN s2c' : i + 1 \in DOMAIN s2c /\ s2c'[i] = s2c[i + 1]
      /\ \A i \in DOMAIN s2c : i = 1 \/ (i > 1 /\ i - 1 \in DOMAIN s2c' /\ s2c'[i - 1] = s2c[i])
  BY HeadThenTail
<1>2. (\A i \in DOMAIN s2c : i \in Int) /\ (\A i \in DOMAIN s2c' : i \in Int /\ i >= 1)
  OBVIOUS
<1>3. ASSUME NEW i \in DOMAIN s2c', s2c'[i].type = "replay" PROVE \E j \in DOMAIN s2c' : i < j /\ s2c'[j] = Ack
  <2>1. i + 1 \in DOMAIN s2c /\ s2c[i + 1].type = "replay"
    BY <1>1, <1>3
  <2>2. PICK j \in DOMAIN s2c : i + 1 < j /\ s2c[j] = Ack
    BY <2>1 DEF Acked
  <2>3. j # 1
    BY <1>2, <2>2
  <2>4. j - 1 \in DOMAIN s2c' /\ s2c'[j - 1] = Ack
    BY <1>1, <2>2, <2>3
  <2>5. i < j - 1
    BY <1>2, <2>2
  <2>. QED BY <2>4, <2>5
<1>. QED BY <1>3 DEF Acked

(* An event moves from the socket to what the app has taken. *)
LEMMA ReceiveEventKeeps ==
  ASSUME DeliveryInv, ReceiveEvent
  PROVE  DeliveryInv'
<1>. DEFINE f == Head(s2c)
<1>1. /\ TypesOk /\ Issued /\ Modes /\ Wire /\ Tip
      /\ ~rearmed => Phases
  BY DEF DeliveryInv
<1>2. /\ s2c # <<>> /\ f # Ack /\ s2c' = Tail(s2c)
      /\ UNCHANGED <<hist, open, last, authed, pending, c2s, connected, drops, opens>>
      /\ UNCHANGED <<subscribed, awaiting, full, loaded, view, raced, rearmed>>
  BY DEF ReceiveEvent, session, hub
<1>3. /\ awaiting => buffer' = Append(buffer, f) /\ window' = window
      /\ ~awaiting => window' = Append(window, f.event) /\ buffer' = buffer
  BY DEF ReceiveEvent
<1>4. /\ pending \in Seq(Frame) /\ s2c \in Seq(Frame) /\ buffer \in Seq(Frame) /\ buffer \in Seq(EventFrame)
      /\ Taken \in Seq(SomeEvent) /\ Items(s2c) \in Seq(SomeEvent) /\ Items(pending) \in Seq(SomeEvent)
      /\ window \in Seq(Event)
  BY <1>1, PipeParts DEF TypesOk, TypeOK
<1>5. /\ f \in Frame /\ f = s2c[1] /\ 1 \in DOMAIN s2c /\ s2c' \in Seq(Frame) /\ s2c = <<f>> \o s2c' /\ <<f>> \in Seq(Frame)
      /\ \A i \in DOMAIN s2c' : i + 1 \in DOMAIN s2c /\ s2c'[i] = s2c[i + 1]
      /\ \A i \in DOMAIN s2c : i = 1 \/ (i > 1 /\ i - 1 \in DOMAIN s2c' /\ s2c'[i - 1] = s2c[i])
  BY <1>2, <1>4, HeadThenTail
<1>6. \A i \in DOMAIN s2c : i \in Int
  BY <1>4
<1>7. \A i \in DOMAIN s2c' : i \in Int
  BY <1>5
<1>8. f \in EventFrame /\ f.event \in Event /\ Item(f) = f.event /\ f.event \in SomeEvent
  BY <1>2, <1>5, FramesDiffer
<1>. HIDE DEF f
<1>9. connected /\ authed
  BY <1>1, <1>2 DEF Wire
<1>21. <<f.event>> \in Seq(SomeEvent)
  BY <1>8
<1>10. Items(s2c) = <<f.event>> \o Items(s2c') /\ Items(s2c') \in Seq(SomeEvent)
  <2>1. Items(<<f>>) = <<f.event>>
    BY <1>8 DEF Items
  <2>2. Items(<<f>> \o s2c') = Items(<<f>>) \o Items(s2c')
    BY <1>5, ItemsOfConcat
  <2>3. Items(s2c') \in Seq(SomeEvent)
    BY <1>5, ItemsType
  <2>4. Items(s2c) = Items(<<f>> \o s2c')
    BY <1>5
  <2>. QED BY <2>1, <2>2, <2>3, <2>4
<1>11. Taken' = Taken \o <<f.event>>
  <2>1. CASE awaiting
    <3>1. buffer' = buffer \o <<f>>
      BY <1>3, <1>4, <1>5, <2>1, AppendIsConcat
    <3>2. Items(buffer') = Items(buffer) \o <<f.event>>
      <4>1. Items(<<f>>) = <<f.event>>
        BY <1>8 DEF Items
      <4>2. Items(buffer \o <<f>>) = Items(buffer) \o Items(<<f>>)
        BY <1>4, <1>5, ItemsOfConcat
      <4>. QED BY <3>1, <4>1, <4>2
    <3>. QED BY <1>2, <2>1, <3>2 DEF Taken
  <2>2. CASE ~awaiting
    <3>1. window' = window \o <<f.event>>
      BY <1>3, <1>4, <1>8, <2>2, AppendIsConcat
    <3>. QED BY <1>2, <2>2, <3>1 DEF Taken
  <2>. QED BY <2>1, <2>2
<1>12. Pipe' = Pipe
  <2>1. Pipe' = ((Taken \o <<f.event>>) \o Items(s2c')) \o Items(pending)
    BY <1>2, <1>11 DEF Pipe
  <2>2. Pipe = (Taken \o (<<f.event>> \o Items(s2c'))) \o Items(pending)
    BY <1>10 DEF Pipe
  <2>3. (Taken \o <<f.event>>) \o Items(s2c') = Taken \o (<<f.event>> \o Items(s2c'))
    BY <1>4, <1>10, <1>21, ConcatAssociative
  <2>. QED BY <2>1, <2>2, <2>3
<1>13. Asking' <=> Asking
  BY <1>2 DEF Asking
<1>14. awaiting => /\ \A i \in DOMAIN buffer : i \in DOMAIN buffer' /\ buffer'[i] = buffer[i]
                   /\ \A i \in DOMAIN buffer' : (i \in DOMAIN buffer /\ buffer'[i] = buffer[i]) \/ buffer'[i] = f
                   /\ \E i \in DOMAIN buffer' : buffer'[i] = f
  <2>. SUFFICES ASSUME awaiting
                PROVE  /\ \A i \in DOMAIN buffer : i \in DOMAIN buffer' /\ buffer'[i] = buffer[i]
                       /\ \A i \in DOMAIN buffer' : (i \in DOMAIN buffer /\ buffer'[i] = buffer[i]) \/ buffer'[i] = f
                       /\ \E i \in DOMAIN buffer' : buffer'[i] = f
    OBVIOUS
  <2>1. /\ Len(buffer') = Len(buffer) + 1 /\ Len(buffer) \in Nat
        /\ \A i \in 1..Len(buffer) : buffer'[i] = buffer[i]
        /\ buffer'[Len(buffer) + 1] = f
        /\ DOMAIN buffer = 1..Len(buffer) /\ DOMAIN buffer' = 1..Len(buffer) + 1
    <3>1. buffer' = Append(buffer, f)
      BY <1>3
    <3>2. /\ Append(buffer, f) \in Seq(Frame)
          /\ Len(Append(buffer, f)) = Len(buffer) + 1
          /\ \A i \in 1..Len(buffer) : Append(buffer, f)[i] = buffer[i]
          /\ Append(buffer, f)[Len(buffer) + 1] = f
      BY <1>4, <1>5, AppendProperties
    <3>. QED BY <1>4, <3>1, <3>2, LenProperties
  <2>2. /\ \A i \in 1..Len(buffer) : i \in 1..Len(buffer) + 1
        /\ \A i \in 1..Len(buffer) + 1 : i \in 1..Len(buffer) \/ i = Len(buffer) + 1
        /\ Len(buffer) + 1 \in 1..Len(buffer) + 1
    BY <2>1
  <2>. QED BY <2>1, <2>2
<1>15. ASSUME awaiting, Clean' PROVE Clean
  <2>1. f.type # "live" /\ \A i \in DOMAIN buffer : buffer[i].type # "live"
    BY <1>14, <1>15 DEF Clean
  <2>2. ASSUME NEW i \in DOMAIN s2c, NEW j \in DOMAIN s2c, i < j, s2c[j] = Ack PROVE s2c[i].type # "live"
    <3>1. CASE i = 1
      BY <1>5, <2>1, <3>1
    <3>2. CASE i # 1
      <4>1. /\ i - 1 \in DOMAIN s2c' /\ s2c'[i - 1] = s2c[i] /\ j - 1 \in DOMAIN s2c' /\ s2c'[j - 1] = Ack
            /\ i - 1 < j - 1
        BY <1>5, <1>6, <2>2, <3>2
      <4>. QED BY <1>15, <4>1 DEF Clean
    <3>. QED BY <3>1, <3>2
  <2>. QED BY <2>1, <2>2 DEF Clean
<1>16. Issued' /\ Tip' /\ (~rearmed' /\ ~raced' => Flow')
  BY <1>2, <1>12, <1>13, <1>15, PipeMoves DEF session
<1>17. TypesOk'
  <2>1. buffer' \in Seq([type : {"live", "replay"}, event : Event])
    <3>1. Append(buffer, f) \in Seq(EventFrame)
      BY <1>4, <1>8, AppendProperties
    <3>. QED BY <1>3, <1>4, <3>1 DEF EventFrame
  <2>2. window' \in Seq(Event)
    <3>1. Append(window, f.event) \in Seq(Event)
      BY <1>4, <1>8, AppendProperties
    <3>. QED BY <1>3, <1>4, <3>1
  <2>3. s2c' \in Seq([type : {"live", "replay"}, event : Event] \cup {Ack})
    BY <1>5 DEF Frame, EventFrame
  <2>. QED BY <1>1, <1>2, <2>1, <2>2, <2>3 DEF TypesOk, TypeOK
<1>18. Modes'
  BY <1>1, <1>2, <1>3 DEF Modes
<1>19. Wire'
  <2>1. Asked'
    BY <1>1, <1>2 DEF Wire, Asked, ReplayBase
  <2>. QED BY <1>1, <1>2, <1>9, <1>13, <2>1 DEF Wire
<1>20. ASSUME Phases PROVE Phases'
  <2>1. ASSUME Acking PROVE Acking'
    <3>1. PICK i \in DOMAIN s2c : s2c[i] = Ack
      BY <2>1 DEF Acking
    <3>2. i - 1 \in DOMAIN s2c' /\ s2c'[i - 1] = Ack
      BY <1>2, <1>5, <3>1 DEF f
    <3>. QED BY <3>2 DEF Acking
  <2>2. ASSUME Acking' PROVE Acking
    BY <1>5, <2>2 DEF Acking
  <2>3. ASSUME NEW i \in DOMAIN s2c', NEW j \in DOMAIN s2c', s2c'[i] = Ack, s2c'[j] = Ack PROVE i = j
    <3>1. i + 1 \in DOMAIN s2c /\ j + 1 \in DOMAIN s2c /\ s2c[i + 1] = Ack /\ s2c[j + 1] = Ack
      BY <1>5, <2>3
    <3>2. i + 1 = j + 1
      BY <1>9, <1>20, <3>1 DEF Phases
    <3>. QED BY <1>7, <3>2
  <2>4. ASSUME Asking
        PROVE  /\ \A i \in DOMAIN s2c' : s2c'[i].type = "live"
               /\ \A i \in DOMAIN buffer' : buffer'[i].type = "live"
    <3>1. /\ \A i \in DOMAIN s2c : s2c[i].type = "live"
          /\ \A i \in DOMAIN buffer : buffer[i].type = "live"
          /\ awaiting
      BY <1>9, <1>20, <2>4 DEF Phases
    <3>2. f.type = "live"
      BY <1>5, <3>1
    <3>3. ASSUME NEW i \in DOMAIN s2c' PROVE s2c'[i].type = "live"
      <4>1. i + 1 \in DOMAIN s2c /\ s2c'[i] = s2c[i + 1]
        BY <1>5
      <4>. QED BY <3>1, <4>1
    <3>4. \A i \in DOMAIN buffer' : buffer'[i].type = "live"
      BY <1>14, <3>1, <3>2
    <3>. QED BY <3>3, <3>4
  <2>5. Asking' => /\ \A i \in DOMAIN s2c' : s2c'[i].type = "live"
                   /\ \A i \in DOMAIN buffer' : buffer'[i].type = "live"
    BY <1>13, <2>4
  <2>6. Acked'
    <3>1. Acked
      BY <1>9, <1>20 DEF Phases
    <3>. QED BY <1>2, <1>4, <1>5, <1>7, <3>1, TailAcked DEF f
  <2>. QED BY <1>2, <1>13, <1>20, <2>1, <2>2, <2>3, <2>5, <2>6 DEF Phases
<1>. QED BY <1>1, <1>2, <1>16, <1>17, <1>18, <1>19, <1>20 DEF DeliveryInv

(* Requests are told apart. *)
LEMMA RequestsDiffer ==
  \A r \in Request : r.type = "sub" => r # Hello /\ r.from \in 0..MaxSeq
<1>1. Hello.type = "hello"
  BY DEF Hello
<1>. QED BY <1>1 DEF Request

(* The frames of a replay are the events it replays. *)
LEMMA ReplayedItems ==
  ASSUME NEW s, s \in Seq(Event)
  PROVE  /\ Replays(s) \in Seq(EventFrame) /\ Replays(s) \in Seq(Frame) /\ Items(Replays(s)) = s
         /\ \A i \in DOMAIN Replays(s) : Replays(s)[i] # Ack
<1>1. Len(s) \in Nat /\ DOMAIN s = 1..Len(s) /\ \A i \in 1..Len(s) : s[i] \in Event
  OBVIOUS
<1>2. Replays(s) = [i \in 1..Len(s) |-> Replay(s[i])]
  BY <1>1 DEF Replays
<1>3. \A i \in 1..Len(s) : Replay(s[i]) \in EventFrame /\ Replay(s[i]).event = s[i]
  BY <1>1, FramesDiffer
<1>4. Replays(s) \in Seq(EventFrame) /\ Len(Replays(s)) = Len(s) /\ DOMAIN Replays(s) = 1..Len(s)
  BY <1>1, <1>2, <1>3
<1>5. EventFrame \subseteq Frame
  BY FramesDiffer
<1>6. Replays(s) \in Seq(Frame)
  BY <1>4, <1>5, SeqMonotonic
<1>7. \A i \in DOMAIN Replays(s) : Replays(s)[i] # Ack
  <2>1. \A i \in DOMAIN Replays(s) : Replays(s)[i] \in EventFrame
    BY <1>2, <1>3, <1>4
  <2>. QED BY <2>1, FramesDiffer
<1>8. Items(Replays(s)) = [i \in 1..Len(s) |-> Item(Replay(s[i]))]
  BY <1>2, <1>4 DEF Items
<1>9. \A i \in 1..Len(s) : Item(Replay(s[i])) = s[i]
  BY <1>3, FramesDiffer
<1>10. Items(Replays(s)) = [i \in 1..Len(s) |-> s[i]]
  BY <1>8, <1>9
<1>11. s = [i \in 1..Len(s) |-> s[i]]
  BY <1>1
<1>. QED BY <1>4, <1>6, <1>7, <1>10, <1>11

(* An ack after the events of s changes nothing. *)
LEMMA AckFollows ==
  ASSUME NEW s, s \in Seq(SomeEvent), NEW c, c \in 0..MaxSeq, NEW es, es \subseteq Event,
         Follows(c, s, es), Complete(c, s, es)
  PROVE  Follows(c, s \o <<NoEvent>>, es) /\ Complete(c, s \o <<NoEvent>>, es)
<1>. USE BoundsAssumption
<1>. DEFINE p == s \o <<NoEvent>>
<1>1. <<NoEvent>> \in Seq(SomeEvent) /\ DOMAIN <<NoEvent>> = {1} /\ <<NoEvent>>[1] = NoEvent /\ NoEvent.seq = 0
  <2>1. NoEvent \in SomeEvent
    BY FramesDiffer
  <2>2. NoEvent.seq = 0
    BY DEF NoEvent
  <2>. QED BY <2>1, <2>2
<1>2. /\ \A i \in DOMAIN s : i \in DOMAIN p /\ p[i] = s[i]
      /\ \A i \in DOMAIN p : \/ i \in DOMAIN s /\ p[i] = s[i]
                             \/ i - Len(s) \in DOMAIN <<NoEvent>> /\ p[i] = <<NoEvent>>[i - Len(s)]
  BY <1>1, ConcatAt
<1>3. \A i \in DOMAIN p : (i \in DOMAIN s /\ p[i] = s[i]) \/ p[i].seq = 0
  BY <1>1, <1>2
<1>. HIDE DEF p
<1>4. \A h \in es : h.seq \in 1..MaxSeq
  BY DEF Event
<1>5. Complete(c, p, es)
  BY <1>2 DEF Complete
<1>6. Follows(c, p, es)
  <2>. SUFFICES ASSUME NEW i \in DOMAIN p, NEW h \in es, c < h.seq, h.seq <= p[i].seq
                PROVE  \E j \in DOMAIN p : j <= i /\ p[j] = h
    BY DEF Follows
  <2>1. i \in DOMAIN s /\ p[i] = s[i]
    BY <1>3, <1>4
  <2>2. PICK j \in DOMAIN s : j <= i /\ s[j] = h
    BY <2>1 DEF Follows
  <2>. QED BY <1>2, <2>2
<1>. QED BY <1>5, <1>6 DEF p

(* What is on its way once a replay was put behind it. *)
LEMMA ElementsWithReplay ==
  ASSUME NEW t, NEW u, NEW v, NEW s,
         t \in Seq(SomeEvent), u \in Seq(SomeEvent), v \in Seq(SomeEvent), s \in Seq(SomeEvent)
  PROVE  ToSet(t \o (((u \o v) \o s) \o <<NoEvent>>)) = (ToSet((t \o u) \o v) \cup ToSet(s)) \cup {NoEvent}
<1>. DEFINE tu == t \o u
            uv == u \o v
            uvs == uv \o s
            ack == <<NoEvent>>
            all == uvs \o ack
<1>1. ack \in Seq(SomeEvent) /\ ToSet(ack) = {NoEvent}
  <2>1. NoEvent \in SomeEvent
    BY FramesDiffer
  <2>. QED BY <2>1 DEF ToSet
<1>. HIDE DEF ack
<1>2. tu \in Seq(SomeEvent) /\ ToSet(tu) = ToSet(t) \cup ToSet(u)
  BY ConcatProperties, ElementsOfConcat
<1>3. uv \in Seq(SomeEvent) /\ ToSet(uv) = ToSet(u) \cup ToSet(v)
  BY ConcatProperties, ElementsOfConcat
<1>. HIDE DEF tu, uv
<1>4. ToSet(tu \o v) = ToSet(tu) \cup ToSet(v)
  BY <1>2, ElementsOfConcat
<1>5. uvs \in Seq(SomeEvent) /\ ToSet(uvs) = ToSet(uv) \cup ToSet(s)
  BY <1>3, ConcatProperties, ElementsOfConcat
<1>. HIDE DEF uvs
<1>6. all \in Seq(SomeEvent) /\ ToSet(all) = ToSet(uvs) \cup ToSet(ack)
  BY <1>1, <1>5, ConcatProperties, ElementsOfConcat
<1>. HIDE DEF all
<1>7. ToSet(t \o all) = ToSet(t) \cup ToSet(all)
  BY <1>6, ElementsOfConcat
<1>8. ToSet(t \o all) = (ToSet(tu \o v) \cup ToSet(s)) \cup {NoEvent}
  BY <1>1, <1>2, <1>3, <1>4, <1>5, <1>6, <1>7
<1>. QED BY <1>8 DEF all, uvs, uv, tu, ack

(* The hub replays. *)
LEMMA HandleSubKeeps ==
  ASSUME DeliveryInv, HandleSub
  PROVE  DeliveryInv'
<1>. USE BoundsAssumption
<1>. DEFINE f == Head(c2s).from
<1>1. /\ TypesOk /\ Issued /\ Modes /\ Wire /\ Tip
      /\ ~rearmed => Phases
      /\ ~rearmed /\ ~raced => Flow
  BY DEF DeliveryInv
<1>2. /\ c2s # <<>> /\ Head(c2s).type = "sub" /\ pending' = <<>> /\ c2s' = Tail(c2s)
      /\ UNCHANGED <<hist, open, last, authed, connected, drops, opens>>
      /\ UNCHANGED <<subscribed, awaiting, full, loaded, buffer, window, view, raced, rearmed>>
  BY DEF HandleSub, session, app
<1>3. PICK s \in EventsSince(f) : s2c' = ((s2c \o pending) \o Replays(s)) \o <<Ack>>
  BY DEF HandleSub
<1>4. /\ pending \in Seq(Frame) /\ s2c \in Seq(Frame) /\ pending \in Seq(EventFrame)
      /\ Taken \in Seq(SomeEvent) /\ Items(s2c) \in Seq(SomeEvent) /\ Items(pending) \in Seq(SomeEvent)
      /\ ReplayBase \in View /\ Lasting \subseteq Event /\ view \in View
  BY <1>1, PipeParts
<1>5. c2s \in Seq(Request)
  BY <1>1 DEF TypesOk, TypeOK, Request
<1>6. /\ Head(c2s) \in Request /\ Head(c2s) = c2s[1] /\ 1 \in DOMAIN c2s /\ c2s' \in Seq(Request)
      /\ \A i \in DOMAIN c2s' : i + 1 \in DOMAIN c2s /\ i + 1 > 1 /\ c2s'[i] = c2s[i + 1]
  BY <1>2, <1>5, HeadThenTail
<1>7. Head(c2s) # Hello /\ f \in 0..MaxSeq
  BY <1>2, <1>6, RequestsDiffer
<1>8. Asking
  BY <1>6, <1>7 DEF Asking
<1>9. connected /\ authed /\ subscribed
  BY <1>1, <1>2, <1>6, <1>7, <1>8 DEF Wire
<1>10. f <= ReplayBase.cursor
  <2>1. Asked
    BY <1>1 DEF Wire
  <2>. QED BY <1>6, <1>7, <2>1 DEF Asked
<1>11. last \in 0..MaxSeq /\ ReplayBase.cursor \in 0..MaxSeq /\ ReplayBase.cursor <= last
  <2>1. last \in 0..MaxSeq /\ view.cursor <= last
    BY <1>1 DEF TypesOk, TypeOK, Issued
  <2>2. NothingSeen.cursor = 0
    BY DEF NothingSeen
  <2>3. ReplayBase.cursor \in 0..MaxSeq
    BY <1>4 DEF View
  <2>. QED BY <2>1, <2>2, <2>3 DEF ReplayBase
<1>. HIDE DEF f
<1>12. hist \subseteq Event /\ IsFiniteSet(hist) /\ Lasting \subseteq hist
  BY <1>1 DEF TypesOk, TypeOK, Lasting
<1>13. /\ s \in Seq(Event)
       /\ Follows(ReplayBase.cursor, s, Lasting) /\ Complete(ReplayBase.cursor, s, Lasting)
       /\ \A e \in hist : f < e.seq => \E i \in DOMAIN s : s[i] = e
       /\ \A i \in DOMAIN s : s[i] \in hist
  <2>. DEFINE c == ReplayBase.cursor
  <2>1. c \in 0..MaxSeq /\ f <= c
    BY <1>10, <1>11
  <2>. HIDE DEF c
  <2>2. ReplayFits(s, f, c, Lasting)
    BY <1>7, <1>12, <2>1, HistoryFollows
  <2>. QED BY <2>2 DEF c, ReplayFits
<1>14. /\ Replays(s) \in Seq(EventFrame) /\ Replays(s) \in Seq(Frame) /\ Items(Replays(s)) = s
       /\ \A i \in DOMAIN Replays(s) : Replays(s)[i] # Ack
  BY <1>13, ReplayedItems
<1>15. s \in Seq(SomeEvent)
  BY <1>13, FramesDiffer, SeqMonotonic
<1>. DEFINE Z == s2c \o pending
            X == Z \o Replays(s)
<1>16. <<Ack>> \in Seq(Frame) /\ Items(<<Ack>>) = <<NoEvent>> /\ <<NoEvent>> \in Seq(SomeEvent)
  <2>1. Ack \in Frame /\ Item(Ack) = NoEvent /\ NoEvent \in SomeEvent
    BY FramesDiffer
  <2>. QED BY <2>1 DEF Items
<1>17. Z \in Seq(Frame) /\ X \in Seq(Frame) /\ s2c' \in Seq(Frame) /\ s2c' = X \o <<Ack>>
  <2>1. Z \in Seq(Frame)
    BY <1>4, ConcatProperties
  <2>2. X \in Seq(Frame)
    BY <1>14, <2>1, ConcatProperties
  <2>3. X \o <<Ack>> \in Seq(Frame)
    BY <1>16, <2>2, ConcatProperties
  <2>. QED BY <1>3, <2>1, <2>2, <2>3
<1>18. Items(Z) = Items(s2c) \o Items(pending) /\ Items(Z) \in Seq(SomeEvent)
  BY <1>4, <1>17, ItemsOfConcat, ItemsType
<1>19. Items(X) = Items(Z) \o s /\ Items(X) \in Seq(SomeEvent)
  <2>. HIDE DEF Z
  <2>. QED BY <1>14, <1>17, ItemsOfConcat, ItemsType
<1>20. Items(s2c') = Items(X) \o <<NoEvent>> /\ Items(s2c') \in Seq(SomeEvent)
  <2>. HIDE DEF X
  <2>. QED BY <1>16, <1>17, ItemsOfConcat, ItemsType
<1>21. Taken' = Taken /\ Items(pending') = <<>> /\ ReplayBase' = ReplayBase /\ Lasting' = Lasting
  BY <1>2 DEF Taken, Items, ReplayBase, Lasting
<1>22. Pipe' = Taken \o Items(s2c')
  <2>1. Pipe' = (Taken \o Items(s2c')) \o <<>>
    BY <1>21 DEF Pipe
  <2>2. Taken \o Items(s2c') \in Seq(SomeEvent)
    BY <1>4, <1>20, ConcatProperties
  <2>. QED BY <2>1, <2>2, ConcatEmptySeq
<1>23. ToSet(Pipe') = (ToSet(Pipe) \cup ToSet(s)) \cup {NoEvent}
  <2>. HIDE DEF X, Z
  <2>1. Pipe' = Taken \o (((Items(s2c) \o Items(pending)) \o s) \o <<NoEvent>>)
    BY <1>18, <1>19, <1>20, <1>22
  <2>. QED BY <1>4, <1>15, <2>1, ElementsWithReplay DEF Pipe
<1>24. Issued'
  <2>1. \A x \in ToSet(s) : x.seq <= last
    BY <1>1, <1>13 DEF Issued, ToSet
  <2>2. NoEvent.seq = 0
    BY DEF NoEvent
  <2>3. \A x \in ToSet(Pipe) : x.seq <= last
    BY <1>1 DEF Issued
  <2>4. \A x \in ToSet(Pipe') : x.seq <= last
    BY <1>11, <1>23, <2>1, <2>2, <2>3
  <2>. QED BY <1>1, <1>2, <2>4 DEF Issued
<1>25. Tip'
  <2>. SUFFICES ASSUME ReplayBase.cursor # last PROVE \E x \in ToSet(Pipe') : x.seq = last
    BY <1>2, <1>21 DEF Tip
  <2>1. last # 0 /\ f < last
    BY <1>7, <1>10, <1>11
  <2>2. PICK e \in hist : e.seq = last
    BY <1>1, <2>1 DEF Issued
  <2>3. e \in ToSet(s)
    BY <1>13, <2>1, <2>2 DEF ToSet
  <2>. QED BY <1>23, <2>2, <2>3
<1>26. TypesOk'
  <2>1. s2c' \in Seq([type : {"live", "replay"}, event : Event] \cup {Ack})
    BY <1>17 DEF Frame, EventFrame
  <2>2. c2s' \in Seq([type : {"sub"}, from : 0..MaxSeq] \cup {Hello})
    BY <1>6 DEF Request
  <2>3. pending' \in Seq([type : {"live"}, event : Event])
    BY <1>2
  <2>. QED BY <1>1, <1>2, <2>1, <2>2, <2>3 DEF TypesOk, TypeOK
<1>27. Modes'
  BY <1>1, <1>2 DEF Modes
<1>28. Wire'
  <2>1. Asked'
    <3>. SUFFICES ASSUME NEW i \in DOMAIN c2s', c2s'[i] # Hello
                  PROVE  c2s'[i].from <= ReplayBase.cursor /\ (~loaded => c2s'[i].from = 0)
      BY <1>2, <1>21 DEF Asked
    <3>1. i + 1 \in DOMAIN c2s /\ c2s'[i] = c2s[i + 1]
      BY <1>6
    <3>2. Asked
      BY <1>1 DEF Wire
    <3>. QED BY <3>1, <3>2 DEF Asked
  <2>2. \A i \in DOMAIN c2s' : c2s'[i] # Hello
    <3>. SUFFICES ASSUME NEW i \in DOMAIN c2s' PROVE c2s'[i] # Hello
      OBVIOUS
    <3>1. i + 1 \in DOMAIN c2s /\ c2s'[i] = c2s[i + 1]
      BY <1>6
    <3>. QED BY <1>1, <1>9, <3>1 DEF Wire
  <2>. QED BY <1>2, <1>9, <2>1, <2>2 DEF Wire
<1>29. ASSUME Phases PROVE Phases' /\ ~Asking' /\ Acking' /\ awaiting
  <2>1. ~Asking'
    <3>. SUFFICES ASSUME NEW i \in DOMAIN c2s', c2s'[i] # Hello PROVE FALSE
      BY DEF Asking
    <3>1. i + 1 \in DOMAIN c2s /\ i + 1 > 1 /\ c2s[i + 1] # Hello /\ c2s[1] # Hello
      BY <1>6, <1>7
    <3>2. i + 1 = 1
      BY <1>6, <1>9, <1>29, <3>1 DEF Phases
    <3>. QED BY <3>1, <3>2
  <2>2. awaiting /\ ~Acking
    BY <1>8, <1>9, <1>29 DEF Phases
  <2>3. \A i \in DOMAIN X : X[i] # Ack
    <3>1. \A i \in DOMAIN pending : pending[i] # Ack
      <4>1. \A i \in DOMAIN pending : pending[i] \in EventFrame
        BY <1>4
      <4>. QED BY <4>1, FramesDiffer
    <3>2. \A i \in DOMAIN s2c : s2c[i] # Ack
      BY <2>2 DEF Acking
    <3>3. \A i \in DOMAIN Z : Z[i] # Ack
      <4>1. \A i \in DOMAIN Z : \/ i \in DOMAIN s2c /\ Z[i] = s2c[i]
                                \/ i - Len(s2c) \in DOMAIN pending /\ Z[i] = pending[i - Len(s2c)]
        BY <1>4, ConcatAt
      <4>. QED BY <3>1, <3>2, <4>1
    <3>. HIDE DEF Z
    <3>4. \A i \in DOMAIN X : \/ i \in DOMAIN Z /\ X[i] = Z[i]
                              \/ i - Len(Z) \in DOMAIN Replays(s) /\ X[i] = Replays(s)[i - Len(Z)]
      BY <1>14, <1>17, ConcatAt
    <3>. QED BY <1>14, <3>3, <3>4
  <2>. HIDE DEF X
  <2>4. /\ Len(X) \in Nat /\ DOMAIN <<Ack>> = {1} /\ <<Ack>>[1] = Ack
        /\ \A i \in DOMAIN <<Ack>> : Len(X) + i \in DOMAIN s2c' /\ s2c'[Len(X) + i] = <<Ack>>[i]
        /\ \A i \in DOMAIN s2c' : \/ i \in DOMAIN X /\ s2c'[i] = X[i]
                                  \/ i - Len(X) \in DOMAIN <<Ack>> /\ s2c'[i] = <<Ack>>[i - Len(X)]
    BY <1>16, <1>17, ConcatAt
  <2>5. Acking'
    BY <2>4 DEF Acking
  <2>6. \A i \in DOMAIN s2c' : s2c'[i] = Ack => i - Len(X) = 1
    BY <2>3, <2>4
  <2>7. \A i \in DOMAIN s2c' : i \in Int
    BY <1>17
  <2>8. \A i, j \in DOMAIN s2c' : s2c'[i] = Ack /\ s2c'[j] = Ack => i = j
    BY <2>4, <2>6, <2>7
  <2>9. \A i, j \in DOMAIN c2s' : c2s'[i] # Hello /\ c2s'[j] # Hello => i = j
    BY <2>1 DEF Asking
  <2>10. Acked'
    <3>1. Ack.type = "ack" /\ Len(X) + 1 \in DOMAIN s2c' /\ s2c'[Len(X) + 1] = Ack
      BY <2>4 DEF Ack
    <3>2. DOMAIN s2c' = 1..Len(X) + 1
      BY <1>16, <1>17, <2>4, ConcatAt
    <3>3. ASSUME NEW i \in DOMAIN s2c', s2c'[i].type = "replay" PROVE i < Len(X) + 1
      <4>1. i # Len(X) + 1
        BY <3>1, <3>3
      <4>. QED BY <2>4, <3>2, <4>1
    <3>. QED BY <3>1, <3>3 DEF Acked
  <2>. QED BY <1>2, <2>1, <2>2, <2>5, <2>8, <2>9, <2>10 DEF Phases
<1>30. ASSUME Phases, Clean' PROVE s2c = <<>> /\ pending = <<>> /\ buffer = <<>>
  <2>1. /\ awaiting
        /\ \A i \in DOMAIN s2c : s2c[i].type = "live"
        /\ \A i \in DOMAIN buffer : buffer[i].type = "live"
    BY <1>8, <1>9, <1>30 DEF Phases
  <2>2. \A i \in DOMAIN pending : pending[i].type = "live"
    <3>1. \A i \in 1..Len(pending) : pending[i] \in [type : {"live"}, event : Event]
      BY <1>1, ElementOfSeq DEF TypesOk, TypeOK
    <3>2. DOMAIN pending = 1..Len(pending)
      BY <1>4
    <3>. QED BY <3>1, <3>2
  <2>3. buffer = <<>>
    <3>1. \A i \in DOMAIN buffer : FALSE
      BY <1>2, <1>30, <2>1 DEF Clean
    <3>2. buffer \in Seq(Frame)
      BY <1>1, PipeParts
    <3>3. Len(buffer) \in Nat /\ DOMAIN buffer = 1..Len(buffer)
      BY <3>2
    <3>4. Len(buffer) = 0
      BY <3>1, <3>3
    <3>. QED BY <3>2, <3>4
  <2>4. ASSUME Z # <<>> PROVE FALSE
    <3>1. /\ \A i \in DOMAIN Z : \/ i \in DOMAIN s2c /\ Z[i] = s2c[i]
                                 \/ i - Len(s2c) \in DOMAIN pending /\ Z[i] = pending[i - Len(s2c)]
      BY <1>4, ConcatAt
    <3>2. \A i \in DOMAIN Z : Z[i].type = "live"
      BY <2>1, <2>2, <3>1
    <3>. HIDE DEF Z
    <3>3. 1 \in DOMAIN Z
      BY <1>17, <2>4
    <3>4. 1 \in DOMAIN X /\ X[1] = Z[1]
      BY <1>14, <1>17, <3>3, ConcatAt
    <3>5. DOMAIN X = 1..Len(X) /\ Len(X) \in Nat
      BY <1>17
    <3>. HIDE DEF X
    <3>6. DOMAIN <<Ack>> = {1} /\ <<Ack>>[1] = Ack
      OBVIOUS
    <3>7. 1 \in DOMAIN s2c' /\ s2c'[1] = X[1] /\ Len(X) + 1 \in DOMAIN s2c' /\ s2c'[Len(X) + 1] = Ack
      BY <1>16, <1>17, <3>4, <3>6, ConcatAt
    <3>8. 1 < Len(X) + 1
      BY <3>4, <3>5
    <3>. QED BY <1>30, <3>2, <3>3, <3>4, <3>7, <3>8 DEF Clean
  <2>5. s2c = <<>> /\ pending = <<>>
    BY <1>4, <2>4, ConcatEqualIffEmpty
  <2>. QED BY <2>3, <2>5
<1>31. ASSUME Phases, Flow PROVE Flow'
  <2>1. loaded => HeldUpTo(view, Lasting)
    BY <1>31 DEF Flow
  <2>2. ASSUME Clean'
        PROVE  Follows(ReplayBase.cursor, Pipe', Lasting) /\ Complete(ReplayBase.cursor, Pipe', Lasting)
    <3>1. s2c = <<>> /\ pending = <<>> /\ buffer = <<>> /\ awaiting
      BY <1>29, <1>30, <1>31, <2>2
    <3>2. Items(s2c) = <<>> /\ Items(pending) = <<>> /\ Taken = <<>>
      BY <3>1 DEF Items, Taken
    <3>3. Items(X) = s
      <4>1. Items(Z) = <<>>
        BY <1>18, <3>2
      <4>. QED BY <1>15, <1>19, <4>1, ConcatEmptySeq
    <3>4. Pipe' = s \o <<NoEvent>>
      BY <1>20, <1>22, <3>2, <3>3, ConcatEmptySeq
    <3>. QED BY <1>4, <1>11, <1>13, <1>15, <3>4, AckFollows
  <2>3. Phases' /\ ~Asking' /\ Acking' /\ awaiting
    BY <1>29, <1>31
  <2>. QED BY <1>2, <1>21, <2>1, <2>2, <2>3 DEF Flow
<1>. QED BY <1>1, <1>2, <1>24, <1>25, <1>26, <1>27, <1>28, <1>29, <1>31 DEF DeliveryInv

-----------------------------------------------------------------------------
(* What was taken is applied *)

(* What is behind what was taken. *)
Rest == Items(s2c) \o Items(pending)

(* The pipe is what the app has taken and the rest. *)
LEMMA PipeSplit ==
  ASSUME TypesOk
  PROVE  /\ Pipe = Taken \o Rest /\ Rest \in Seq(SomeEvent)
         /\ ToSet(Pipe) = ToSet(Taken) \cup ToSet(Rest)
<1>1. Taken \in Seq(SomeEvent) /\ Items(s2c) \in Seq(SomeEvent) /\ Items(pending) \in Seq(SomeEvent)
  BY PipeParts
<1>2. Rest \in Seq(SomeEvent)
  BY <1>1, ConcatProperties DEF Rest
<1>3. Pipe = Taken \o Rest
  BY <1>1, ConcatAssociative DEF Pipe, Rest
<1>. QED BY <1>1, <1>2, <1>3, ElementsOfConcat

(* The view w after the events a, which were all issued and are followed by b. *)
Advances(v, a, b, w) ==
  /\ w \in View /\ v.cursor <= w.cursor /\ w.cursor <= last
  /\ v.cursor = last \/ (\E x \in ToSet(a) : x.seq = last) => w.cursor = last
  /\ HeldUpTo(v, Lasting) /\ Follows(v.cursor, a, Lasting) => HeldUpTo(w, Lasting)
  /\ Follows(v.cursor, a \o b, Lasting) => Follows(v.cursor, a, Lasting) /\ Follows(w.cursor, b, Lasting)
  /\ Follows(v.cursor, a \o b, Lasting) /\ Complete(v.cursor, a \o b, Lasting) => Complete(w.cursor, b, Lasting)

(* What applying the events a takes to the view, of what is on its way. *)
LEMMA ReduceAdvances ==
  ASSUME last \in Nat, NEW v, v \in View, NEW a, a \in Seq(Event), NEW b, b \in Seq(SomeEvent),
         Lasting \subseteq Event,
         v.cursor <= last, \A x \in ToSet(a) : x.seq <= last
  PROVE  Advances(v, a, b, Reduce(v, a))
<1>. USE BoundsAssumption
<1>. DEFINE w == Reduce(v, a)
<1>1. Reached(v, a, Lasting, Len(a), w)
  BY ReduceReaches
<1>2. a \in Seq(SomeEvent)
  BY FramesDiffer, SeqMonotonic
<1>3. DOMAIN a = 1..Len(a) /\ Len(a) \in Nat
  OBVIOUS
<1>. HIDE DEF w
<1>4. /\ w \in View /\ v.cursor <= w.cursor
      /\ \A i \in DOMAIN a : a[i].seq <= w.cursor
      /\ w.cursor = v.cursor \/ \E i \in DOMAIN a : w.cursor = a[i].seq
      /\ HeldUpTo(v, Lasting) /\ Follows(v.cursor, a, Lasting) => HeldUpTo(w, Lasting)
  BY <1>1, <1>3 DEF Reached
<1>5. v.cursor \in 0..MaxSeq /\ w.cursor \in 0..MaxSeq
  BY <1>4 DEF View
<1>6. \A i \in DOMAIN a : a[i] \in ToSet(a)
  BY DEF ToSet
<1>7. w.cursor <= last
  BY <1>4, <1>6
<1>8. ASSUME v.cursor = last \/ \E x \in ToSet(a) : x.seq = last PROVE w.cursor = last
  <2>1. \A x \in ToSet(a) : x.seq <= w.cursor
    BY <1>4 DEF ToSet
  <2>. QED BY <1>4, <1>5, <1>7, <1>8, <2>1
<1>9. Follows(v.cursor, a \o b, Lasting) =>
        /\ Follows(v.cursor, a, Lasting) /\ Follows(w.cursor, b, Lasting)
        /\ Complete(v.cursor, a \o b, Lasting) => Complete(w.cursor, b, Lasting)
  BY <1>2, <1>4, <1>5, FrontApplied
<1>10. Advances(v, a, b, w)
  BY <1>4, <1>7, <1>8, <1>9 DEF Advances
<1>. QED BY <1>10 DEF w

(* The app's batch of live events. *)
LEMMA WindowAdvances ==
  ASSUME TypesOk, Issued, Modes
  PROVE  /\ ~awaiting => Advances(view, window, Rest, Reduce(view, window)) /\ Pipe = window \o Rest
         /\ awaiting => Advances(view, <<>>, Rest, Reduce(view, window))
<1>1. /\ view \in View /\ window \in Seq(Event) /\ Rest \in Seq(SomeEvent) /\ Lasting \subseteq Event
      /\ last \in Nat /\ view.cursor <= last
  BY PipeParts, PipeSplit DEF TypesOk, TypeOK, Issued
<1>2. \A x \in ToSet(window) : x.seq <= last
  <2>1. CASE awaiting
    <3>1. window = <<>>
      BY <2>1 DEF Modes
    <3>. QED BY <3>1 DEF ToSet
  <2>2. CASE ~awaiting
    <3>1. ToSet(window) \subseteq ToSet(Pipe)
      BY <2>2, PipeSplit DEF Taken
    <3>. QED BY <3>1 DEF Issued
  <2>. QED BY <2>1, <2>2
<1>3. Advances(view, window, Rest, Reduce(view, window))
  BY <1>1, <1>2, ReduceAdvances
<1>4. awaiting => window = <<>>
  BY DEF Modes
<1>5. ~awaiting => Pipe = window \o Rest
  BY PipeSplit DEF Taken
<1>. QED BY <1>3, <1>4, <1>5

(* The app applies a batch. *)
LEMMA ApplyLiveBatchKeeps ==
  ASSUME DeliveryInv, ApplyLiveBatch
  PROVE  DeliveryInv'
<1>1. /\ TypesOk /\ Issued /\ Modes /\ Wire /\ Tip
      /\ ~rearmed => Phases
      /\ ~rearmed /\ ~raced => Flow
  BY DEF DeliveryInv
<1>2. /\ window # <<>> /\ view' = Reduce(view, window) /\ window' = <<>>
      /\ UNCHANGED <<hist, open, last, authed, pending, c2s, s2c, connected, drops, opens>>
      /\ UNCHANGED <<subscribed, awaiting, full, loaded, buffer, raced, rearmed>>
  BY DEF ApplyLiveBatch, session, hub
<1>3. ~awaiting /\ ~full /\ (loaded <=> subscribed)
  BY <1>1, <1>2 DEF Modes
<1>4. Advances(view, window, Rest, view') /\ Pipe = window \o Rest
  BY <1>1, <1>2, <1>3, WindowAdvances
<1>5. ReplayBase = view /\ ReplayBase' = view' /\ Lasting' = Lasting /\ Taken = window /\ Taken' = <<>> /\ Rest' = Rest
  BY <1>2, <1>3 DEF ReplayBase, Lasting, Taken, Rest
<1>6. Pipe' = Rest /\ ToSet(Pipe) = ToSet(window) \cup ToSet(Rest)
  <2>1. Rest \in Seq(SomeEvent) /\ ToSet(Pipe) = ToSet(window) \cup ToSet(Rest)
    BY <1>1, <1>5, PipeSplit
  <2>2. Items(s2c) \in Seq(SomeEvent) /\ Items(pending) \in Seq(SomeEvent)
    BY <1>1, PipeParts
  <2>3. Pipe' = (<<>> \o Items(s2c)) \o Items(pending)
    BY <1>2, <1>5 DEF Pipe
  <2>4. <<>> \o Items(s2c) = Items(s2c)
    BY <2>2, ConcatEmptySeq
  <2>. QED BY <2>1, <2>3, <2>4 DEF Rest
<1>7. /\ view' \in View /\ view.cursor <= view'.cursor /\ view'.cursor <= last
      /\ view.cursor = last \/ (\E x \in ToSet(window) : x.seq = last) => view'.cursor = last
  BY <1>4 DEF Advances
<1>8. TypesOk'
  <2>1. window' \in Seq(Event)
    BY <1>2
  <2>. QED BY <1>1, <1>2, <1>7, <2>1 DEF TypesOk, TypeOK, View
<1>9. Issued'
  <2>1. \A x \in ToSet(Pipe') : x.seq <= last
    BY <1>1, <1>6 DEF Issued
  <2>. QED BY <1>1, <1>2, <1>7, <2>1 DEF Issued
<1>10. Modes'
  BY <1>1, <1>2 DEF Modes
<1>11. Asking' <=> Asking
  BY <1>2 DEF Asking
<1>12. Wire'
  <2>1. Asked'
    <3>. SUFFICES ASSUME NEW i \in DOMAIN c2s, c2s[i] # Hello
                  PROVE  c2s[i].from <= view'.cursor /\ (~loaded => c2s[i].from = 0)
      BY <1>2, <1>5 DEF Asked
    <3>1. c2s[i].from <= view.cursor /\ (~loaded => c2s[i].from = 0)
      BY <1>1, <1>5 DEF Wire, Asked
    <3>2. c2s[i].from \in Int /\ view.cursor \in Int /\ view'.cursor \in Int
      <4>1. c2s \in Seq(Request)
        BY <1>1 DEF TypesOk, TypeOK, Request
      <4>2. c2s[i] \in Request
        BY <4>1, ElementOfSeq, LenProperties
      <4>3. c2s[i].from \in Int
        BY <4>2, BoundsAssumption DEF Request
      <4>4. view \in View
        BY <1>1, PipeParts
      <4>. QED BY <1>7, <4>3, <4>4, BoundsAssumption DEF View
    <3>. QED BY <1>7, <3>1, <3>2
  <2>. QED BY <1>1, <1>2, <1>11, <2>1 DEF Wire
<1>13. Tip'
  <2>. SUFFICES ASSUME connected, subscribed, ~Asking, view'.cursor # last PROVE \E x \in ToSet(Pipe') : x.seq = last
    BY <1>2, <1>5, <1>11 DEF Tip
  <2>1. PICK x \in ToSet(Pipe) : x.seq = last
    BY <1>1, <1>5, <1>7 DEF Tip
  <2>2. x \notin ToSet(window)
    BY <1>7, <2>1
  <2>. QED BY <1>6, <2>1, <2>2
<1>14. Phases => Phases'
  <2>1. (Acking' <=> Acking) /\ (Acked' <=> Acked)
    BY <1>2 DEF Acking, Acked
  <2>. QED BY <1>2, <1>11, <2>1 DEF Phases
<1>15. ASSUME Flow PROVE Flow'
  <2>. SUFFICES ASSUME loaded
                PROVE  /\ HeldUpTo(view', Lasting)
                       /\ Follows(view'.cursor, Pipe', Lasting)
                       /\ connected => Complete(view'.cursor, Pipe', Lasting)
    BY <1>2, <1>3, <1>5 DEF Flow
  <2>1. /\ HeldUpTo(view, Lasting) /\ Follows(view.cursor, window \o Rest, Lasting)
        /\ connected => Complete(view.cursor, window \o Rest, Lasting)
    BY <1>3, <1>4, <1>5, <1>15 DEF Flow
  <2>. QED BY <1>4, <1>6, <2>1 DEF Advances
<1>. QED BY <1>1, <1>2, <1>8, <1>9, <1>10, <1>12, <1>13, <1>14, <1>15 DEF DeliveryInv

(* The replay ends, and is applied. *)
LEMMA ReceiveAckKeeps ==
  ASSUME DeliveryInv, ReceiveAck
  PROVE  DeliveryInv'
<1>. USE BoundsAssumption
<1>1. /\ TypesOk /\ Issued /\ Modes /\ Wire /\ Tip
      /\ ~rearmed => Phases
      /\ ~rearmed /\ ~raced => Flow
  BY DEF DeliveryInv
<1>2. /\ s2c # <<>> /\ Head(s2c) = Ack /\ s2c' = Tail(s2c)
      /\ UNCHANGED <<hist, open, last, authed, pending, c2s, connected, drops, opens>>
      /\ UNCHANGED <<subscribed, window, rearmed>>
  BY DEF ReceiveAck, session, hub
<1>3. /\ pending \in Seq(Frame) /\ s2c \in Seq(Frame) /\ buffer \in Seq(Frame) /\ buffer \in Seq(EventFrame)
      /\ Taken \in Seq(SomeEvent) /\ Items(s2c) \in Seq(SomeEvent) /\ Items(pending) \in Seq(SomeEvent)
      /\ view \in View /\ ReplayBase \in View /\ Lasting \subseteq Event /\ last \in 0..MaxSeq /\ view.cursor <= last
  BY <1>1, PipeParts DEF TypesOk, TypeOK, Issued
<1>4. /\ Ack = s2c[1] /\ 1 \in DOMAIN s2c /\ s2c' \in Seq(Frame) /\ s2c = <<Ack>> \o s2c' /\ <<Ack>> \in Seq(Frame)
      /\ \A i \in DOMAIN s2c' : i + 1 \in DOMAIN s2c /\ i + 1 > 1 /\ s2c'[i] = s2c[i + 1]
  BY <1>2, <1>3, HeadThenTail
<1>5. Acking
  BY <1>4 DEF Acking
<1>6. connected /\ authed
  BY <1>1, <1>2 DEF Wire
<1>. DEFINE ack == <<NoEvent>>
            behind == Items(s2c') \o Items(pending)
<1>7. ack \in Seq(SomeEvent) /\ ToSet(ack) = {NoEvent} /\ DOMAIN ack = {1} /\ ack[1] = NoEvent /\ NoEvent.seq = 0
  <2>1. NoEvent \in SomeEvent
    BY FramesDiffer
  <2>2. NoEvent.seq = 0
    BY DEF NoEvent
  <2>. QED BY <2>1, <2>2 DEF ToSet
<1>8. Items(s2c) = ack \o Items(s2c') /\ Items(s2c') \in Seq(SomeEvent)
  <2>1. Items(<<Ack>>) = ack
    BY FramesDiffer DEF Items
  <2>2. Items(<<Ack>> \o s2c') = Items(<<Ack>>) \o Items(s2c')
    BY <1>4, ItemsOfConcat
  <2>3. Items(s2c') \in Seq(SomeEvent)
    BY <1>4, ItemsType
  <2>4. Items(s2c) = Items(<<Ack>> \o s2c')
    BY <1>4
  <2>. QED BY <2>1, <2>2, <2>3, <2>4
<1>. HIDE DEF ack
<1>9. behind \in Seq(SomeEvent) /\ Rest = ack \o behind /\ Rest \in Seq(SomeEvent)
  <2>1. behind \in Seq(SomeEvent)
    BY <1>3, <1>8, ConcatProperties
  <2>2. (ack \o Items(s2c')) \o Items(pending) = ack \o (Items(s2c') \o Items(pending))
    BY <1>3, <1>7, <1>8, EventsAssociate
  <2>3. Rest = ack \o behind
    BY <1>8, <2>2 DEF Rest
  <2>. QED BY <1>1, <2>1, <2>3, PipeSplit
<1>10. Rest' = behind /\ Pipe' = Taken' \o behind /\ Lasting' = Lasting
  <2>1. Rest' = behind /\ Lasting' = Lasting
    BY <1>2 DEF Rest, Lasting
  <2>2. Taken' \in Seq(SomeEvent)
    <3>1. CASE awaiting
      <4>1. ~awaiting' /\ window = <<>>
        BY <1>1, <3>1 DEF ReceiveAck, Modes
      <4>. QED BY <1>2, <4>1 DEF Taken
    <3>2. CASE ~awaiting
      BY <1>2, <1>3, <3>2 DEF ReceiveAck, Taken
    <3>. QED BY <3>1, <3>2
  <2>3. Pipe' = (Taken' \o Items(s2c')) \o Items(pending)
    BY <1>2 DEF Pipe
  <2>4. (Taken' \o Items(s2c')) \o Items(pending) = Taken' \o (Items(s2c') \o Items(pending))
    BY <1>3, <1>8, <2>2, EventsAssociate
  <2>. QED BY <2>1, <2>3, <2>4
<1>. HIDE DEF behind
<1>11. ToSet(Pipe) = (ToSet(Taken) \cup {NoEvent}) \cup ToSet(behind)
  <2>1. ToSet(Pipe) = ToSet(Taken) \cup ToSet(Rest)
    BY <1>1, PipeSplit
  <2>2. ToSet(ack \o behind) = ToSet(ack) \cup ToSet(behind)
    BY <1>7, <1>9, ElementsOfConcat
  <2>. QED BY <1>7, <1>9, <2>1, <2>2
<1>12. \A x \in ToSet(Pipe) : x.seq <= last
  BY <1>1 DEF Issued
<1>13. (Asking' <=> Asking) /\ s2c' \in Seq([type : {"live", "replay"}, event : Event] \cup {Ack})
  BY <1>2, <1>4 DEF Asking, Frame, EventFrame
<1>14. ReplayBase.cursor \in 0..MaxSeq /\ ReplayBase.cursor <= last
  <2>1. NothingSeen.cursor = 0
    BY DEF NothingSeen
  <2>. QED BY <1>3, <2>1 DEF ReplayBase, View
<1>15. CASE ~awaiting
  <2>1. UNCHANGED <<view, loaded, full, awaiting, buffer, raced>>
    BY <1>15 DEF ReceiveAck
  <2>2. Taken' = Taken /\ ReplayBase' = ReplayBase
    BY <1>2, <1>15, <2>1 DEF Taken, ReplayBase
  <2>3. ToSet(Pipe') = ToSet(Taken) \cup ToSet(behind)
    BY <1>3, <1>9, <1>10, <2>2, ElementsOfConcat
  <2>4. TypesOk'
    BY <1>1, <1>2, <1>13, <2>1 DEF TypesOk, TypeOK
  <2>5. Issued'
    <3>1. \A x \in ToSet(Pipe') : x.seq <= last
      BY <1>11, <1>12, <2>3
    <3>. QED BY <1>1, <1>2, <2>1, <3>1 DEF Issued
  <2>6. Modes'
    BY <1>1, <1>2, <2>1 DEF Modes
  <2>7. Wire'
    <3>1. Asked'
      BY <1>1, <1>2, <2>1, <2>2 DEF Wire, Asked
    <3>. QED BY <1>1, <1>2, <1>6, <1>13, <3>1 DEF Wire
  <2>8. Tip'
    <3>. SUFFICES ASSUME subscribed, ~Asking, ReplayBase.cursor # last PROVE \E x \in ToSet(Pipe') : x.seq = last
      BY <1>2, <1>13, <2>2 DEF Tip
    <3>1. PICK x \in ToSet(Pipe) : x.seq = last
      BY <1>1, <1>6 DEF Tip
    <3>2. last # 0
      BY <1>14
    <3>. QED BY <1>7, <1>11, <2>3, <3>1, <3>2
  <2>9. rearmed
    BY <1>1, <1>5, <1>6, <1>15 DEF Phases
  <2>. QED BY <1>2, <2>4, <2>5, <2>6, <2>7, <2>8, <2>9 DEF DeliveryInv
<1>16. CASE awaiting
  <2>1. /\ view' = Reduce(ReplayBase, [i \in DOMAIN buffer |-> buffer[i].event])
        /\ loaded' = (loaded \/ full) /\ full' = FALSE /\ awaiting' = FALSE /\ buffer' = <<>>
        /\ raced' = (raced \/ \E g \in ToSet(buffer) : g.type = "live")
    BY <1>16 DEF ReceiveAck
  <2>2. window = <<>> /\ subscribed /\ (full <=> ~loaded) /\ loaded' = TRUE
    BY <1>1, <1>16, <2>1 DEF Modes, TypesOk, TypeOK
  <2>3. Taken = Items(buffer) /\ Taken' = <<>> /\ ReplayBase' = view'
    BY <1>2, <1>16, <2>1, <2>2 DEF Taken, ReplayBase
  <2>4. Items(buffer) = [i \in DOMAIN buffer |-> buffer[i].event] /\ Items(buffer) \in Seq(Event)
    <3>1. DOMAIN buffer = 1..Len(buffer) /\ Len(buffer) \in Nat /\ \A i \in DOMAIN buffer : buffer[i] \in EventFrame
      BY <1>3
    <3>2. \A i \in DOMAIN buffer : Item(buffer[i]) = buffer[i].event /\ buffer[i].event \in Event
      BY <3>1, FramesDiffer
    <3>3. Items(buffer) = [i \in DOMAIN buffer |-> buffer[i].event]
      BY <3>2 DEF Items
    <3>4. [i \in 1..Len(buffer) |-> buffer[i].event] \in Seq(Event)
      BY <3>1, <3>2
    <3>. QED BY <3>1, <3>3, <3>4
  <2>5. Advances(ReplayBase, Taken, Rest, view')
    <3>1. \A x \in ToSet(Taken) : x.seq <= last
      BY <1>11, <1>12
    <3>2. view' = Reduce(ReplayBase, Taken) /\ Taken \in Seq(Event)
      BY <2>1, <2>3, <2>4
    <3>3. last \in Nat
      BY <1>3
    <3>. QED BY <1>3, <1>9, <1>14, <3>1, <3>2, <3>3, ReduceAdvances
  <2>6. /\ view' \in View /\ ReplayBase.cursor <= view'.cursor /\ view'.cursor <= last
        /\ ReplayBase.cursor = last \/ (\E x \in ToSet(Taken) : x.seq = last) => view'.cursor = last
    BY <2>5 DEF Advances
  <2>7. view'.cursor \in 0..MaxSeq
    BY <2>6 DEF View
  <2>8. Pipe' = behind
    BY <1>9, <1>10, <2>3, ConcatEmptySeq
  <2>9. TypesOk'
    <3>1. raced' \in BOOLEAN
      BY <2>1
    <3>2. buffer' \in Seq([type : {"live", "replay"}, event : Event])
      BY <2>1
    <3>. QED BY <1>1, <1>2, <1>13, <2>1, <2>2, <2>6, <3>1, <3>2 DEF TypesOk, TypeOK, View
  <2>10. Issued'
    <3>1. \A x \in ToSet(Pipe') : x.seq <= last
      BY <1>11, <1>12, <2>8
    <3>. QED BY <1>1, <1>2, <2>6, <3>1 DEF Issued
  <2>11. Modes'
    BY <1>2, <2>1, <2>2 DEF Modes
  <2>12. Wire'
    <3>1. Asked'
      <4>. SUFFICES ASSUME NEW i \in DOMAIN c2s, c2s[i] # Hello PROVE c2s[i].from <= view'.cursor
        BY <1>2, <2>2, <2>3 DEF Asked
      <4>1. c2s[i].from <= ReplayBase.cursor
        BY <1>1 DEF Wire, Asked
      <4>2. c2s[i].from \in Int
        <5>1. c2s \in Seq(Request)
          BY <1>1 DEF TypesOk, TypeOK, Request
        <5>2. c2s[i] \in Request
          BY <5>1, ElementOfSeq, LenProperties
        <5>. QED BY <5>2 DEF Request
      <4>. QED BY <1>14, <2>6, <2>7, <4>1, <4>2
    <3>. QED BY <1>1, <1>2, <1>6, <1>13, <3>1 DEF Wire
  <2>13. Tip'
    <3>. SUFFICES ASSUME ~Asking, view'.cursor # last PROVE \E x \in ToSet(Pipe') : x.seq = last
      BY <1>2, <1>13, <2>3 DEF Tip
    <3>1. PICK x \in ToSet(Pipe) : x.seq = last
      BY <1>1, <1>6, <2>2, <2>6 DEF Tip
    <3>2. last # 0 /\ x \notin ToSet(Taken)
      BY <1>3, <2>6, <2>7, <3>1
    <3>. QED BY <1>7, <1>11, <2>8, <3>1, <3>2
  <2>14. ASSUME Phases PROVE Phases' /\ ~Asking
    <3>1. ~Asking /\ \A i, j \in DOMAIN s2c : s2c[i] = Ack /\ s2c[j] = Ack => i = j
      BY <1>5, <1>6, <1>16, <2>14 DEF Phases
    <3>2. ~Acking'
      <4>. SUFFICES ASSUME NEW i \in DOMAIN s2c', s2c'[i] = Ack PROVE FALSE
        BY DEF Acking
      <4>1. i + 1 \in DOMAIN s2c /\ i + 1 > 1 /\ s2c[i + 1] = Ack
        BY <1>4
      <4>2. i + 1 = 1
        BY <1>4, <3>1, <4>1
      <4>. QED BY <4>1, <4>2
    <3>3. Acked'
      <4>1. Acked
        BY <1>6, <2>14 DEF Phases
      <4>. QED BY <1>2, <1>3, <4>1, TailAcked
    <3>. QED BY <1>2, <1>6, <1>13, <2>1, <2>14, <3>1, <3>2, <3>3 DEF Phases, Acking
  <2>15. ASSUME Phases, Flow, ~raced' PROVE Flow'
    <3>1. Clean
      <4>1. \A i \in DOMAIN buffer : buffer[i].type # "live"
        BY <2>1, <2>15 DEF ToSet
      <4>2. \A j \in DOMAIN s2c : s2c[j] = Ack => j = 1
        BY <1>4, <1>6, <2>15 DEF Phases
      <4>3. \A i \in DOMAIN s2c : ~(i < 1)
        BY <1>3
      <4>. QED BY <4>1, <4>2, <4>3 DEF Clean
    <3>2. ~Asking
      BY <2>14, <2>15
    <3>3. /\ Follows(ReplayBase.cursor, Pipe, Lasting) /\ Complete(ReplayBase.cursor, Pipe, Lasting)
          /\ loaded => HeldUpTo(view, Lasting)
      BY <1>6, <2>2, <2>15, <3>1, <3>2 DEF Flow
    <3>4. Pipe = Taken \o Rest
      BY <1>1, PipeSplit
    <3>5. HeldUpTo(ReplayBase, Lasting)
      <4>1. CASE full
        <5>1. ReplayBase.cursor = 0
          BY <4>1 DEF ReplayBase, NothingSeen
        <5>2. \A h \in Lasting : h.seq \in 1..MaxSeq
          BY <1>3 DEF Event
        <5>. QED BY <5>1, <5>2 DEF HeldUpTo
      <4>2. CASE ~full
        BY <2>2, <3>3, <4>2 DEF ReplayBase
      <4>. QED BY <4>1, <4>2
    <3>6. /\ HeldUpTo(view', Lasting)
          /\ Follows(view'.cursor, Rest, Lasting) /\ Complete(view'.cursor, Rest, Lasting)
      BY <2>5, <3>3, <3>4, <3>5 DEF Advances
    <3>7. Follows(view'.cursor, behind, Lasting) /\ Complete(view'.cursor, behind, Lasting)
      <4>. DEFINE c == view'.cursor
      <4>1. c \in 0..MaxSeq /\ \A i \in DOMAIN ack : ack[i].seq <= c
        BY <1>7, <2>7
      <4>2. Follows(c, ack \o behind, Lasting) /\ Complete(c, ack \o behind, Lasting)
        BY <1>9, <3>6
      <4>. HIDE DEF c
      <4>3. c <= c
        BY <4>1
      <4>4. Follows(c, behind, Lasting) /\ Complete(c, behind, Lasting)
        BY <1>3, <1>7, <1>9, <4>1, <4>2, <4>3, FrontApplied
      <4>. QED BY <4>4 DEF c
    <3>. QED BY <1>10, <2>1, <2>3, <2>8, <3>6, <3>7 DEF Flow
  <2>16. ~raced' => ~raced
    BY <2>1
  <2>. QED BY <1>1, <1>2, <2>9, <2>10, <2>11, <2>12, <2>13, <2>14, <2>15, <2>16 DEF DeliveryInv
<1>. QED BY <1>15, <1>16

-----------------------------------------------------------------------------
(* The connection and the subscriptions *)

(* The connection is lost with all that was on its way. *)
LEMMA DisconnectKeeps ==
  ASSUME DeliveryInv, Disconnect
  PROVE  DeliveryInv'
<1>. USE BoundsAssumption
<1>1. /\ TypesOk /\ Issued /\ Modes /\ Wire /\ Tip
      /\ ~rearmed => Phases
      /\ ~rearmed /\ ~raced => Flow
  BY DEF DeliveryInv
<1>2. /\ connected /\ connected' = FALSE /\ c2s' = <<>> /\ s2c' = <<>> /\ authed' = FALSE /\ pending' = <<>>
      /\ drops < MaxDrops /\ drops' = drops + 1
      /\ UNCHANGED <<hist, open, last, opens>>
      /\ UNCHANGED <<subscribed, awaiting, full, loaded, buffer, window, view, raced, rearmed>>
  BY DEF Disconnect, session, app
<1>3. Taken' = Taken /\ ReplayBase' = ReplayBase /\ Lasting' = Lasting /\ Items(s2c') = <<>> /\ Items(pending') = <<>>
  BY <1>2 DEF Taken, ReplayBase, Lasting, Items
<1>4. /\ Taken \in Seq(SomeEvent) /\ Rest \in Seq(SomeEvent) /\ Lasting \subseteq Event
      /\ Pipe = Taken \o Rest /\ ToSet(Pipe) = ToSet(Taken) \cup ToSet(Rest)
      /\ ReplayBase \in View
  BY <1>1, PipeParts, PipeSplit
<1>5. Pipe' = Taken
  <2>1. Pipe' = (Taken \o <<>>) \o <<>>
    BY <1>3 DEF Pipe
  <2>. QED BY <1>4, <2>1, ConcatEmptySeq
<1>6. TypesOk'
  <2>1. /\ c2s' \in Seq([type : {"sub"}, from : 0..MaxSeq] \cup {Hello})
        /\ s2c' \in Seq([type : {"live", "replay"}, event : Event] \cup {Ack})
        /\ pending' \in Seq([type : {"live"}, event : Event])
    BY <1>2
  <2>2. drops' \in 0..MaxDrops
    BY <1>1, <1>2 DEF TypesOk, TypeOK
  <2>. QED BY <1>1, <1>2, <2>1, <2>2 DEF TypesOk, TypeOK
<1>7. Issued'
  <2>1. \A x \in ToSet(Pipe') : x.seq <= last
    BY <1>1, <1>4, <1>5 DEF Issued
  <2>. QED BY <1>1, <1>2, <2>1 DEF Issued
<1>8. Modes'
  BY <1>1, <1>2 DEF Modes
<1>9. Wire'
  BY <1>2 DEF Wire, Asking, Asked
<1>10. Tip' /\ Phases'
  BY <1>2 DEF Tip, Phases
<1>11. ASSUME Flow PROVE Flow'
  <2>. SUFFICES ASSUME subscribed, ~awaiting PROVE Follows(ReplayBase.cursor, Taken, Lasting)
    BY <1>2, <1>3, <1>5, <1>11 DEF Flow
  <2>. DEFINE c == ReplayBase.cursor
  <2>1. Follows(c, Taken \o Rest, Lasting)
    BY <1>4, <1>11 DEF Flow
  <2>2. c \in 0..MaxSeq /\ c <= c
    BY <1>4 DEF View
  <2>. HIDE DEF c
  <2>3. Follows(c, Taken, Lasting)
    BY <1>4, <2>1, <2>2, FrontApplied
  <2>. QED BY <2>3 DEF c
<1>. QED BY <1>1, <1>2, <1>6, <1>7, <1>8, <1>9, <1>10, <1>11 DEF DeliveryInv

(* What sending a sub after the requests before does, connected or not.     *)
Subscribes(before) ==
  /\ SendSub(before) /\ subscribed' = TRUE
  /\ UNCHANGED <<hist, open, last, authed, pending, s2c>>
  /\ connected' \in BOOLEAN /\ rearmed' \in BOOLEAN /\ drops' \in 0..MaxDrops /\ opens' \in 0..MaxOpens
  /\ before \in Seq(Request)
  /\ \A i \in DOMAIN before : before[i] # Hello => \E k \in DOMAIN c2s : c2s[k] = before[i]

(* What is sent: the requests before and one that is no hello. *)
Asks(before) ==
  \E r \in Request : /\ r # Hello
                     /\ c2s' = IF connected' THEN before \o <<r>> ELSE before
                     /\ connected' => Asking'

(* A sub, with what goes out before it, keeps all but the phases. *)
LEMMA Subscribing ==
  ASSUME TypesOk, Issued, Modes, Wire, NEW before, Subscribes(before)
  PROVE  /\ TypesOk' /\ Issued' /\ Modes' /\ Tip' /\ Asked' /\ Asks(before)
         /\ Flow => Flow'
<1>. USE BoundsAssumption
<1>. DEFINE r == Sub(FromSeq)
<1>1. /\ view' = Reduce(view, window) /\ window' = <<>> /\ full' = (full \/ ~loaded)
      /\ awaiting' = TRUE /\ buffer' = <<>> /\ subscribed' = TRUE
      /\ c2s' = IF connected' THEN before \o <<r>> ELSE before
      /\ UNCHANGED <<loaded, raced, hist, open, last, authed, pending, s2c>>
      /\ before \in Seq(Request)
      /\ \A i \in DOMAIN before : before[i] # Hello => \E k \in DOMAIN c2s : c2s[k] = before[i]
  BY DEF Subscribes, SendSub
<1>2. /\ full \in BOOLEAN /\ loaded \in BOOLEAN /\ (full => ~loaded) /\ (awaiting => window = <<>>)
      /\ last \in 0..MaxSeq /\ (loaded => subscribed)
  BY DEF Modes, TypesOk, TypeOK
<1>3. /\ ~awaiting => Advances(view, window, Rest, view') /\ Pipe = window \o Rest
      /\ awaiting => Advances(view, <<>>, Rest, view')
  BY <1>1, WindowAdvances
<1>4. view' \in View /\ view.cursor <= view'.cursor /\ view'.cursor <= last
  <2>1. CASE awaiting
    BY <1>3, <2>1 DEF Advances
  <2>2. CASE ~awaiting
    BY <1>3, <2>2 DEF Advances
  <2>. QED BY <2>1, <2>2
<1>5. full' \in BOOLEAN /\ (full' <=> ~loaded)
  BY <1>1, <1>2
<1>6. /\ Rest \in Seq(SomeEvent) /\ ToSet(Rest) \subseteq ToSet(Pipe) /\ Lasting \subseteq Event
      /\ view \in View /\ Items(s2c) \in Seq(SomeEvent) /\ Items(pending) \in Seq(SomeEvent)
  BY PipeParts, PipeSplit
<1>7. FromSeq = (IF loaded THEN view'.cursor ELSE 0) /\ FromSeq \in 0..MaxSeq
  BY <1>1, <1>4 DEF FromSeq, View
<1>8. r \in Request /\ r.from = FromSeq /\ r # Hello
  <2>1. r \in Request /\ r.type = "sub" /\ r.from = FromSeq
    BY <1>7 DEF Request, Sub
  <2>. QED BY <2>1, RequestsDiffer
<1>. HIDE DEF r
<1>9. /\ Taken' = <<>> /\ Lasting' = Lasting
      /\ ReplayBase' = IF loaded THEN view' ELSE NothingSeen
  <2>1. Taken' = Items(<<>>)
    BY <1>1 DEF Taken
  <2>2. Items(<<>>) = <<>>
    BY DEF Items
  <2>. QED BY <1>1, <1>5, <2>1, <2>2 DEF ReplayBase, Lasting
<1>10. ReplayBase'.cursor = FromSeq
  BY <1>7, <1>9 DEF NothingSeen
<1>11. Pipe' = Rest
  <2>1. Pipe' = (<<>> \o Items(s2c)) \o Items(pending)
    BY <1>1, <1>9 DEF Pipe
  <2>2. <<>> \o Items(s2c) = Items(s2c)
    BY <1>6, ConcatEmptySeq
  <2>. QED BY <2>1, <2>2 DEF Rest
<1>12. DOMAIN <<r>> = {1} /\ <<r>>[1] = r /\ <<r>> \in Seq(Request)
  BY <1>8
<1>13. /\ c2s' \in Seq(Request)
       /\ connected' => Asking'
       /\ \A i \in DOMAIN c2s' : (\E k \in DOMAIN before : c2s'[i] = before[k]) \/ c2s'[i] = r
  <2>1. CASE connected'
    <3>1. /\ before \o <<r>> \in Seq(Request)
          /\ \A i \in DOMAIN <<r>> : Len(before) + i \in DOMAIN (before \o <<r>>)
                                     /\ (before \o <<r>>)[Len(before) + i] = <<r>>[i]
          /\ \A i \in DOMAIN (before \o <<r>>) :
               \/ i \in DOMAIN before /\ (before \o <<r>>)[i] = before[i]
               \/ i - Len(before) \in DOMAIN <<r>> /\ (before \o <<r>>)[i] = <<r>>[i - Len(before)]
      BY <1>1, <1>12, ConcatAt
    <3>2. c2s' = before \o <<r>>
      BY <1>1, <2>1
    <3>3. \A i \in DOMAIN c2s' : (\E k \in DOMAIN before : c2s'[i] = before[k]) \/ c2s'[i] = r
      BY <1>12, <3>1, <3>2
    <3>4. Len(before) + 1 \in DOMAIN c2s' /\ c2s'[Len(before) + 1] = r
      BY <1>12, <3>1, <3>2
    <3>5. Asking'
      BY <1>8, <3>4 DEF Asking
    <3>. QED BY <3>1, <3>2, <3>3, <3>5
  <2>2. CASE ~connected'
    BY <1>1, <2>2
  <2>. QED BY <2>1, <2>2
<1>14. TypesOk'
  <2>1. /\ buffer' \in Seq([type : {"live", "replay"}, event : Event])
        /\ window' \in Seq(Event)
    BY <1>1
  <2>2. c2s' \in Seq([type : {"sub"}, from : 0..MaxSeq] \cup {Hello})
    BY <1>13 DEF Request
  <2>3. view' \in [cursor : 0..MaxSeq, held : SUBSET Event]
    BY <1>4 DEF View
  <2>4. connected' \in BOOLEAN /\ rearmed' \in BOOLEAN /\ drops' \in 0..MaxDrops /\ opens' \in 0..MaxOpens
    BY DEF Subscribes
  <2>. QED BY <1>1, <1>5, <2>1, <2>2, <2>3, <2>4 DEF TypesOk, TypeOK
<1>15. Issued'
  <2>1. \A x \in ToSet(Pipe') : x.seq <= last
    BY <1>6, <1>11 DEF Issued
  <2>. QED BY <1>1, <1>4, <2>1 DEF Issued
<1>16. Modes'
  BY <1>1, <1>5 DEF Modes
<1>17. Tip'
  BY <1>13 DEF Tip
<1>18. Asked'
  <2>. SUFFICES ASSUME NEW i \in DOMAIN c2s', c2s'[i] # Hello
                PROVE  c2s'[i].from <= FromSeq /\ (~loaded => c2s'[i].from = 0)
    BY <1>1, <1>10 DEF Asked
  <2>1. CASE c2s'[i] = r
    BY <1>7, <1>8, <2>1
  <2>2. CASE c2s'[i] # r
    <3>1. PICK j \in DOMAIN before : c2s'[i] = before[j]
      BY <1>13, <2>2
    <3>2. PICK k \in DOMAIN c2s : c2s[k] = before[j]
      BY <1>1, <3>1
    <3>3. c2s[k].from <= ReplayBase.cursor /\ (~loaded => c2s[k].from = 0)
      BY <3>1, <3>2 DEF Wire, Asked
    <3>4. c2s[k].from \in Int
      <4>1. c2s \in Seq(Request)
        BY DEF TypesOk, TypeOK, Request
      <4>2. c2s[k] \in Request
        BY <4>1, ElementOfSeq, LenProperties
      <4>3. c2s[k] # Hello
        BY <3>1, <3>2
      <4>. QED BY <4>2, <4>3 DEF Request
    <3>5. loaded => c2s[k].from <= view.cursor
      BY <1>2, <3>3 DEF ReplayBase
    <3>6. view.cursor \in Int /\ view'.cursor \in Int
      BY <1>4, <1>6 DEF View
    <3>7. loaded => c2s[k].from <= FromSeq
      BY <1>4, <1>7, <3>4, <3>5, <3>6
    <3>8. ~loaded => c2s[k].from <= FromSeq
      BY <1>7, <3>3
    <3>. QED BY <3>1, <3>2, <3>3, <3>7, <3>8
  <2>. QED BY <2>1, <2>2
<1>19. Asks(before)
  BY <1>1, <1>8, <1>13 DEF Asks
<1>20. ASSUME Flow PROVE Flow'
  <2>1. ASSUME loaded PROVE HeldUpTo(view', Lasting)
    <3>1. HeldUpTo(view, Lasting)
      BY <1>20, <2>1 DEF Flow
    <3>2. CASE awaiting
      <4>1. Follows(view.cursor, <<>>, Lasting)
        BY DEF Follows
      <4>. QED BY <1>3, <3>1, <3>2, <4>1 DEF Advances
    <3>3. CASE ~awaiting
      <4>1. ReplayBase = view
        BY <1>2, <2>1 DEF ReplayBase
      <4>2. Follows(view.cursor, window \o Rest, Lasting)
        BY <1>2, <1>3, <1>20, <2>1, <3>3, <4>1 DEF Flow
      <4>. QED BY <1>3, <3>1, <3>3, <4>2 DEF Advances
    <3>. QED BY <3>2, <3>3
  <2>2. awaiting' /\ (connected' => Asking')
    BY <1>1, <1>13
  <2>3. loaded' = loaded
    BY <1>1
  <2>. QED BY <1>9, <2>1, <2>2, <2>3 DEF Flow
<1>. QED BY <1>14, <1>15, <1>16, <1>17, <1>18, <1>19, <1>20

(* The user opens the session. *)
LEMMA OpenSessionKeeps ==
  ASSUME DeliveryInv, OpenSession
  PROVE  DeliveryInv'
<1>. USE BoundsAssumption
<1>1. /\ TypesOk /\ Issued /\ Modes /\ Wire /\ Tip
      /\ ~rearmed => Phases
      /\ ~rearmed /\ ~raced => Flow
  BY DEF DeliveryInv
<1>2. /\ opens < MaxOpens /\ opens' = opens + 1 /\ subscribed' = TRUE /\ connected' = connected
      /\ SendSub(c2s) /\ rearmed' = (rearmed \/ (connected /\ awaiting))
      /\ UNCHANGED <<hist, open, last, authed, pending, s2c, drops>>
  BY DEF OpenSession, session, hub
<1>3. awaiting' = TRUE /\ buffer' = <<>> /\ raced' = raced
  BY <1>2 DEF SendSub
<1>4. /\ c2s \in Seq(Request) /\ s2c \in Seq(Frame) /\ connected \in BOOLEAN /\ rearmed' \in BOOLEAN
      /\ drops \in 0..MaxDrops /\ opens' \in 0..MaxOpens
  <2>1. /\ c2s \in Seq(Request) /\ s2c \in Seq(Frame)
        /\ connected \in BOOLEAN /\ drops \in 0..MaxDrops /\ opens \in 0..MaxOpens
    BY <1>1 DEF TypesOk, TypeOK, Request, Frame, EventFrame
  <2>2. rearmed' \in BOOLEAN
    BY <1>2
  <2>3. opens' \in 0..MaxOpens
    BY <1>2, <2>1
  <2>. QED BY <2>1, <2>2, <2>3
<1>5. Subscribes(c2s)
  BY <1>2, <1>4 DEF Subscribes
<1>6. /\ TypesOk' /\ Issued' /\ Modes' /\ Tip' /\ Asked' /\ Asks(c2s)
      /\ Flow => Flow'
  BY <1>1, <1>5, Subscribing
<1>7. PICK r \in Request : /\ r # Hello
                           /\ c2s' = IF connected' THEN c2s \o <<r>> ELSE c2s
                           /\ connected' => Asking'
  BY <1>6 DEF Asks
<1>8. DOMAIN <<r>> = {1} /\ <<r>>[1] = r /\ <<r>> \in Seq(Request)
  OBVIOUS
<1>9. ASSUME connected
      PROVE  /\ Len(c2s) \in Nat /\ DOMAIN c2s = 1..Len(c2s) /\ DOMAIN c2s' = 1..Len(c2s) + 1
             /\ \A i \in DOMAIN c2s' : \/ i \in DOMAIN c2s /\ c2s'[i] = c2s[i]
                                       \/ i = Len(c2s) + 1 /\ c2s'[i] # Hello
  <2>1. c2s' = c2s \o <<r>>
    BY <1>2, <1>7, <1>9
  <2>2. /\ Len(c2s) \in Nat /\ Len(<<r>>) = 1 /\ DOMAIN c2s = 1..Len(c2s)
        /\ DOMAIN (c2s \o <<r>>) = 1..Len(c2s) + Len(<<r>>)
        /\ \A i \in DOMAIN (c2s \o <<r>>) :
             \/ i \in DOMAIN c2s /\ (c2s \o <<r>>)[i] = c2s[i]
             \/ i - Len(c2s) \in DOMAIN <<r>> /\ (c2s \o <<r>>)[i] = <<r>>[i - Len(c2s)]
    BY <1>4, <1>8, ConcatAt
  <2>3. \A i \in 1..Len(c2s) + 1 : i - Len(c2s) = 1 => i = Len(c2s) + 1
    BY <2>2
  <2>. QED BY <1>7, <1>8, <2>1, <2>2, <2>3
<1>10. Wire'
  <2>1. CASE connected
    <3>1. ASSUME NEW i \in DOMAIN c2s' PROVE c2s'[i] = Hello <=> (~authed /\ i = 1)
      <4>1. CASE i \in DOMAIN c2s /\ c2s'[i] = c2s[i]
        BY <1>1, <2>1, <4>1 DEF Wire
      <4>2. CASE i = Len(c2s) + 1 /\ c2s'[i] # Hello
        <5>1. ~authed => c2s # <<>>
          BY <1>1, <2>1 DEF Wire
        <5>2. c2s # <<>> => Len(c2s) # 0
          BY <1>4
        <5>. QED BY <1>9, <2>1, <4>2, <5>1, <5>2
      <4>. QED BY <1>9, <2>1, <3>1, <4>1, <4>2
    <3>2. c2s' # <<>>
      BY <1>9, <2>1
    <3>3. Asking' /\ connected'
      BY <1>2, <1>7, <2>1
    <3>. QED BY <1>1, <1>2, <1>6, <2>1, <3>1, <3>2, <3>3 DEF Wire
  <2>2. CASE ~connected
    <3>1. c2s' = <<>> /\ ~connected'
      BY <1>1, <1>2, <1>7, <2>2 DEF Wire
    <3>. QED BY <1>1, <1>2, <1>6, <2>2, <3>1 DEF Wire, Asking
  <2>. QED BY <2>1, <2>2
<1>11. ASSUME ~rearmed' PROVE Phases'
  <2>. SUFFICES ASSUME connected PROVE Phases'
    BY <1>2 DEF Phases
  <2>1. Phases /\ ~awaiting
    BY <1>1, <1>2, <1>11
  <2>2. ~Asking /\ ~Acking /\ Acked
    BY <2>1 DEF Phases
  <2>3. (Acking' <=> Acking) /\ (Acked' <=> Acked)
    BY <1>2 DEF Acking, Acked
  <2>4. Asking'
    BY <1>2, <1>7
  <2>5. \A i, j \in DOMAIN c2s' : c2s'[i] # Hello /\ c2s'[j] # Hello => i = j
    <3>1. \A i \in DOMAIN c2s' : c2s'[i] # Hello => i = Len(c2s) + 1
      BY <1>9, <2>2 DEF Asking
    <3>. QED BY <3>1
  <2>6. \A i \in DOMAIN s2c : s2c[i].type = "live"
    <3>. SUFFICES ASSUME NEW i \in DOMAIN s2c PROVE s2c[i].type = "live"
      OBVIOUS
    <3>1. s2c[i] # Ack /\ s2c[i].type # "replay"
      BY <2>2 DEF Acking, Acked
    <3>2. s2c[i] \in Frame
      BY <1>4, ElementOfSeq, LenProperties
    <3>3. s2c[i] \in EventFrame
      BY <3>1, <3>2, FramesDiffer
    <3>. QED BY <3>1, <3>3 DEF EventFrame
  <2>7. \A i, j \in DOMAIN s2c : s2c[i] = Ack /\ s2c[j] = Ack => i = j
    BY <2>1 DEF Phases
  <2>. QED BY <1>2, <1>3, <2>2, <2>3, <2>4, <2>5, <2>6, <2>7 DEF Phases
<1>12. ~rearmed' => ~rearmed
  BY <1>2
<1>. QED BY <1>1, <1>3, <1>6, <1>10, <1>11, <1>12 DEF DeliveryInv

(* The app connects and subscribes again. *)
LEMMA ConnectKeeps ==
  ASSUME DeliveryInv, Connect
  PROVE  DeliveryInv'
<1>. USE BoundsAssumption
<1>1. /\ TypesOk /\ Issued /\ Modes /\ Wire /\ Tip
      /\ ~rearmed => Phases
      /\ ~rearmed /\ ~raced => Flow
  BY DEF DeliveryInv
<1>2. /\ ~connected /\ connected' = TRUE
      /\ UNCHANGED <<hist, open, last, authed, pending, s2c, drops, opens>>
  BY DEF Connect, session, hub
<1>3. c2s = <<>> /\ s2c = <<>> /\ pending = <<>> /\ ~authed /\ ~authed'
  BY <1>1, <1>2 DEF Wire
<1>4. <<Hello>> \in Seq(Request) /\ DOMAIN <<Hello>> = {1} /\ <<Hello>>[1] = Hello /\ Len(<<Hello>>) = 1
  BY DEF Request
<1>5. Acked' /\ ~Acking' /\ s2c' = <<>>
  BY <1>2, <1>3 DEF Acked, Acking
<1>6. CASE subscribed
  <2>1. SendSub(<<Hello>>) /\ subscribed' = subscribed /\ rearmed' = rearmed
    BY <1>6 DEF Connect
  <2>2. awaiting' = TRUE /\ buffer' = <<>> /\ raced' = raced
    BY <2>1 DEF SendSub
  <2>3. subscribed' = TRUE /\ rearmed' \in BOOLEAN /\ drops' \in 0..MaxDrops /\ opens' \in 0..MaxOpens
    BY <1>1, <1>2, <1>6, <2>1 DEF TypesOk, TypeOK
  <2>4. Subscribes(<<Hello>>)
    BY <1>2, <1>4, <2>1, <2>3 DEF Subscribes
  <2>5. /\ TypesOk' /\ Issued' /\ Modes' /\ Tip' /\ Asked' /\ Asks(<<Hello>>)
        /\ Flow => Flow'
    BY <1>1, <2>4, Subscribing
  <2>6. PICK r \in Request : r # Hello /\ c2s' = <<Hello>> \o <<r>> /\ Asking'
    BY <1>2, <2>5 DEF Asks
  <2>7. <<r>> \in Seq(Request) /\ Len(<<r>>) = 1 /\ DOMAIN <<r>> = {1} /\ <<r>>[1] = r
    BY <2>6
  <2>8. DOMAIN c2s' = {1, 2} /\ c2s'[1] = Hello /\ c2s'[2] = r
    <3>. DEFINE s == <<Hello>>
                t == <<r>>
    <3>1. /\ DOMAIN (s \o t) = 1..Len(s) + Len(t)
          /\ \A i \in DOMAIN s : (s \o t)[i] = s[i]
          /\ \A i \in DOMAIN t : (s \o t)[Len(s) + i] = t[i]
      BY <1>4, <2>7, ConcatAt
    <3>2. Len(s) = 1 /\ Len(t) = 1 /\ DOMAIN s = {1} /\ DOMAIN t = {1} /\ s[1] = Hello /\ t[1] = r
      BY <1>4, <2>7
    <3>. HIDE DEF s, t
    <3>3. DOMAIN (s \o t) = {1, 2} /\ (s \o t)[1] = Hello /\ (s \o t)[2] = r
      BY <3>1, <3>2
    <3>. QED BY <2>6, <3>3 DEF s, t
  <2>9. Wire'
    BY <1>2, <1>3, <1>5, <2>3, <2>5, <2>6, <2>8 DEF Wire
  <2>10. Phases'
    BY <1>5, <2>2, <2>6, <2>8 DEF Phases
  <2>. QED BY <1>1, <2>1, <2>2, <2>5, <2>9, <2>10 DEF DeliveryInv
<1>7. CASE ~subscribed
  <2>1. c2s' = <<Hello>> /\ UNCHANGED <<subscribed, awaiting, full, loaded, buffer, window, view, raced, rearmed>>
    BY <1>7 DEF Connect, app
  <2>2. DOMAIN c2s' = {1} /\ c2s'[1] = Hello /\ ~Asking'
    BY <1>4, <2>1 DEF Asking
  <2>3. ~awaiting /\ ~loaded
    BY <1>1, <1>7 DEF Modes
  <2>4. Pipe' = Pipe
    BY <1>2, <2>1 DEF Pipe, Taken
  <2>5. TypesOk'
    <3>1. c2s' \in Seq([type : {"sub"}, from : 0..MaxSeq] \cup {Hello})
      BY <1>4, <2>1 DEF Request
    <3>. QED BY <1>1, <1>2, <2>1, <3>1 DEF TypesOk, TypeOK
  <2>6. Issued'
    BY <1>1, <1>2, <2>1, <2>4 DEF Issued
  <2>7. Modes'
    BY <1>1, <2>1 DEF Modes
  <2>8. Wire'
    BY <1>2, <1>3, <1>5, <1>7, <2>1, <2>2 DEF Wire, Asked
  <2>9. Tip'
    BY <1>7, <2>1 DEF Tip
  <2>10. Phases'
    BY <1>5, <2>1, <2>2, <2>3 DEF Phases
  <2>11. Flow'
    BY <1>7, <2>1, <2>3 DEF Flow
  <2>. QED BY <2>5, <2>6, <2>7, <2>8, <2>9, <2>10, <2>11 DEF DeliveryInv
<1>. QED BY <1>6, <1>7

-----------------------------------------------------------------------------

(* The invariant holds at first, when nothing is on its way. *)
LEMMA DeliveryInit == Init => DeliveryInv
<1>. SUFFICES ASSUME Init PROVE DeliveryInv
  OBVIOUS
<1>. USE BoundsAssumption
<1>1. /\ hist = {} /\ open = {} /\ last = 0 /\ authed = FALSE /\ pending = <<>>
      /\ c2s = <<>> /\ s2c = <<>> /\ connected = FALSE
      /\ subscribed = FALSE /\ awaiting = FALSE /\ full = FALSE /\ loaded = FALSE
      /\ buffer = <<>> /\ window = <<>> /\ view = NothingSeen
      /\ raced = FALSE /\ rearmed = FALSE /\ drops = 0 /\ opens = 0
  BY DEF Init
<1>2. TypesOk
  <2>1. IsFiniteSet({})
    BY FS_EmptySet
  <2>2. view \in [cursor : 0..MaxSeq, held : SUBSET Event]
    BY <1>1 DEF NothingSeen
  <2>3. ASSUME NEW S PROVE <<>> \in Seq(S)
    OBVIOUS
  <2>4. /\ pending \in Seq([type : {"live"}, event : Event])
        /\ buffer \in Seq([type : {"live", "replay"}, event : Event])
        /\ s2c \in Seq([type : {"live", "replay"}, event : Event] \cup {Ack})
        /\ c2s \in Seq([type : {"sub"}, from : 0..MaxSeq] \cup {Hello})
        /\ window \in Seq(Event)
    BY <1>1, <2>3
  <2>5. /\ hist \subseteq Event /\ open \subseteq 1..MaxSeq /\ last \in 0..MaxSeq
        /\ drops \in 0..MaxDrops /\ opens \in 0..MaxOpens /\ IsFiniteSet(hist)
    BY <1>1, <2>1
  <2>. QED BY <1>1, <2>2, <2>4, <2>5 DEF TypesOk, TypeOK
<1>3. Issued
  <2>1. Items(<<>>) = <<>> /\ Taken = <<>>
    BY <1>1 DEF Items, Taken
  <2>2. Pipe = (<<>> \o <<>>) \o <<>>
    BY <1>1, <2>1 DEF Pipe
  <2>3. Pipe = <<>>
    BY <2>2
  <2>4. ToSet(Pipe) = {}
    BY <2>3 DEF ToSet
  <2>. QED BY <1>1, <2>4 DEF Issued, NothingSeen
<1>4. Modes /\ Tip /\ Phases /\ Flow
  BY <1>1 DEF Modes, Tip, Phases, Flow
<1>5. Wire
  BY <1>1 DEF Wire, Asking, Asked
<1>. QED BY <1>2, <1>3, <1>4, <1>5 DEF DeliveryInv

(* Every step keeps the invariant. *)
LEMMA DeliveryStep ==
  ASSUME DeliveryInv, [Next]_vars
  PROVE  DeliveryInv'
<1>1. CASE Note \/ Delta \/ Final \/ EndUnfinished
  <2>1. PICK e : Recorded(e)
    BY <1>1, Recording DEF DeliveryInv
  <2>. QED BY <2>1, RecordedKeeps
<1>2. CASE HubFlush
  BY <1>2, HubFlushKeeps
<1>3. CASE HandleHello
  BY <1>3, HandleHelloKeeps
<1>4. CASE HandleSub
  BY <1>4, HandleSubKeeps
<1>5. CASE OpenSession
  BY <1>5, OpenSessionKeeps
<1>6. CASE Connect
  BY <1>6, ConnectKeeps
<1>7. CASE Disconnect
  BY <1>7, DisconnectKeeps
<1>8. CASE ReceiveEvent
  BY <1>8, ReceiveEventKeeps
<1>9. CASE ReceiveAck
  BY <1>9, ReceiveAckKeeps
<1>10. CASE ApplyLiveBatch
  BY <1>10, ApplyLiveBatchKeeps
<1>11. CASE UNCHANGED vars
  <2>1. UNCHANGED <<hist, open, last, authed, pending, c2s, s2c, connected, drops, opens>>
    BY <1>11 DEF vars, session, hub
  <2>2. UNCHANGED <<subscribed, awaiting, full, loaded, buffer, window, view, raced, rearmed>>
    BY <1>11 DEF vars, app
  <2>3. Pipe' = Pipe /\ (Clean' => Clean) /\ (Asking' <=> Asking)
    BY <2>1, <2>2 DEF Pipe, Taken, Clean, Asking
  <2>4. Issued' /\ Tip' /\ (~rearmed' /\ ~raced' => Flow')
    BY <2>1, <2>2, <2>3, PipeMoves DEF session
  <2>5. TypesOk' /\ Modes'
    BY <2>1, <2>2 DEF DeliveryInv, TypesOk, TypeOK, Modes
  <2>6. Wire'
    <3>1. Asked'
      BY <2>1, <2>2 DEF DeliveryInv, Wire, Asked, ReplayBase
    <3>. QED BY <2>1, <2>2, <2>3, <3>1 DEF DeliveryInv, Wire
  <2>7. Phases => Phases'
    <3>1. (Acking' <=> Acking) /\ (Acked' <=> Acked)
      BY <2>1 DEF Acking, Acked
    <3>. QED BY <2>1, <2>2, <2>3, <3>1 DEF Phases
  <2>. QED BY <2>1, <2>2, <2>4, <2>5, <2>6, <2>7 DEF DeliveryInv
<1>. QED BY <1>1, <1>2, <1>3, <1>4, <1>5, <1>6, <1>7, <1>8, <1>9, <1>10, <1>11 DEF Next

(* The invariant is all that the property needs. *)
LEMMA DeliveryInvSuffices == DeliveryInv => ViewSafety
<1>. SUFFICES ASSUME DeliveryInv PROVE ViewSafety
  OBVIOUS
<1>1. TypeOK
  BY DEF DeliveryInv, TypesOk
<1>2. RecordedKeptUnlessRaced
  <2>. SUFFICES ASSUME ~raced, ~rearmed, loaded, NEW e \in hist, ~IsAggregate(e), e.seq <= view.cursor
                PROVE  e.covers \subseteq Covered(view.held)
    BY DEF RecordedKeptUnlessRaced, RecordedKept, Kept
  <2>1. e \in view.held
    BY DEF DeliveryInv, Flow, HeldUpTo, Lasting
  <2>. QED BY <2>1 DEF Covered
<1>3. CaughtUp
  <2>. SUFFICES ASSUME Quiet PROVE view.cursor = last
    BY DEF CaughtUp
  <2>1. /\ connected /\ loaded /\ ~awaiting
        /\ c2s = <<>> /\ s2c = <<>> /\ pending = <<>> /\ window = <<>>
    BY DEF Quiet
  <2>2. subscribed /\ ~full
    BY <2>1 DEF DeliveryInv, Modes
  <2>3. ReplayBase = view /\ ~Asking
    BY <2>1, <2>2 DEF ReplayBase, Asking
  <2>4. ToSet(Pipe) = {}
    <3>1. Items(<<>>) = <<>> /\ Taken = <<>>
      BY <2>1 DEF Items, Taken
    <3>2. Pipe = (<<>> \o <<>>) \o <<>>
      BY <2>1, <3>1 DEF Pipe
    <3>3. Pipe = <<>>
      BY <3>2
    <3>. QED BY <3>3 DEF ToSet
  <2>. QED BY <2>1, <2>2, <2>3, <2>4 DEF DeliveryInv, Tip
<1>. QED BY <1>1, <1>2, <1>3 DEF ViewSafety

(* What the app shows is what was recorded, for any number of events, lost  *)
(* connections and openings (StoreController, SubscriptionHub).             *)
THEOREM ViewIsAlwaysSafe == Spec => []ViewSafety
<1>1. Init => DeliveryInv
  BY DeliveryInit
<1>2. DeliveryInv /\ [Next]_vars => DeliveryInv'
  BY DeliveryStep
<1>3. DeliveryInv => ViewSafety
  BY DeliveryInvSuffices
<1>. QED BY <1>1, <1>2, <1>3, PTL DEF Spec

(* While an app has a session open, the last event was applied, or is on    *)
(* its way, or a sub that will bring it is, over lost connections and a     *)
(* session that is opened twice (StoreController, SubscriptionHub).         *)
THEOREM TheLastIsAlwaysOnItsWay == Spec => []Tip
<1>1. Init => DeliveryInv
  BY DeliveryInit
<1>2. DeliveryInv /\ [Next]_vars => DeliveryInv'
  BY DeliveryStep
<1>3. DeliveryInv => Tip
  BY DEF DeliveryInv
<1>. QED BY <1>1, <1>2, <1>3, PTL DEF Spec
=============================================================================
