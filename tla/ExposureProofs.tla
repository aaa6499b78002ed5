----------------------------- MODULE ExposureProofs -----------------------------
(* Proofs about ExposureMC for any sockets, codes, clients and bounds: the  *)
(* view of the ports, the alerts, the kill, pairing with its forwards,      *)
(* publishing documents, what watchers wait for, and for any process table  *)
(* and any files the owner of a port and the index of documents. Each part  *)
(* has an invariant of its own; a step of another part leaves it alone,     *)
(* because it leaves all the part's variables alone.                        *)
EXTENDS ExposureMC, TLAPS, FiniteSetTheorems, WellFoundedInduction

allVars == <<part, vars, pkVars, paVars, dpVars, dsVars, diVars, dvVars>>

-----------------------------------------------------------------------------
(* Devices and forwards *)

(* Beside the property: a code that may still pair has made no device, and a *)
(* forward that waits for its scan belongs to a device that still has a      *)
(* socket, or is marked as asked by one that was cut off.                    *)
DevicesInv ==
  /\ code \in [Codes -> {"unused", "pending", "expired", "spent", "gone"}]
  /\ paired \in [Codes -> Nat]
  /\ \A c \in Codes : paired[c] <= 1
  /\ \A c \in Codes : code[c] \in {"unused", "pending", "expired"} => paired[c] = 0
  /\ socket \in [Sockets -> {"closed", "unauthed"} \cup Codes]
  /\ \A s \in Sockets : asking[s] \in Codes \cup {None}
  /\ \A s \in Sockets : asking[s] # None /\ ~late[s] => \E t \in Sockets : socket[t] = asking[s]
  /\ \A i \in DOMAIN grants : DOMAIN grants[i] = {"device", "browser", "old", "late"} /\ grants[i].device \in Codes
  /\ asking \in [Sockets -> Codes \cup {None}] /\ DOMAIN late = Sockets
  /\ Dv!GrantHasALiveOwner

(* The sockets that a step leaves open keep what was granted or asked alive. *)
LEMMA OwnersKept ==
  ASSUME DevicesInv, UNCHANGED <<code, paired, asking, late, grants>>,
         socket' \in [Sockets -> {"closed", "unauthed"} \cup Codes],
         \A s \in Sockets : socket[s] \in Codes => socket'[s] = socket[s]
  PROVE  DevicesInv'
BY DEF DevicesInv, Dv!GrantHasALiveOwner, Dv!Dead

(* Dropping grants disturbs nothing. *)
LEMMA WithoutKept ==
  ASSUME DevicesInv, NEW gone, grants' = Dv!Without(gone),
         UNCHANGED <<code, paired, socket, asking, late>>
  PROVE  DevicesInv'
BY DEF DevicesInv, Dv!Without, Dv!GrantHasALiveOwner, Dv!Dead

(* A grant for a forward that waited, among some of those there were. *)
LEMMA GrantedKept ==
  ASSUME DevicesInv, NEW s \in Sockets, asking[s] # None, NEW id,
         DOMAIN grants'[id] = {"device", "browser", "old", "late"},
         grants'[id].device = asking[s], grants'[id].late = late[s],
         \A i \in DOMAIN grants' : i # id => i \in DOMAIN grants /\ grants'[i] = grants[i],
         UNCHANGED <<code, paired, socket, late>>,
         asking' \in [Sockets -> Codes \cup {None}],
         \A t \in Sockets : asking'[t] = asking[t] \/ asking'[t] = None
  PROVE  DevicesInv'
<1>1. asking[s] \in Codes
  BY DEF DevicesInv
<1>2. \A i \in DOMAIN grants' :
        DOMAIN grants'[i] = {"device", "browser", "old", "late"} /\ grants'[i].device \in Codes
  BY <1>1 DEF DevicesInv
<1>3. grants'[id].late \/ \E t \in Sockets : socket[t] = grants'[id].device
  BY DEF DevicesInv
<1>4. Dv!GrantHasALiveOwner'
  BY <1>3 DEF DevicesInv, Dv!GrantHasALiveOwner, Dv!Dead
<1>. QED BY <1>2, <1>4 DEF DevicesInv

LEMMA ForwardDecidedKept ==
  ASSUME DevicesInv, NEW s \in Sockets, Dv!ForwardDecided(s)
  PROVE  DevicesInv'
<1>1. /\ UNCHANGED <<code, paired, socket, late>>
      /\ asking[s] # None
      /\ asking' \in [Sockets -> Codes \cup {None}]
      /\ \A t \in Sockets : asking'[t] = asking[t] \/ asking'[t] = None
  BY DEF DevicesInv, Dv!ForwardDecided
<1>2. CASE UNCHANGED grants
  BY <1>1, <1>2 DEF DevicesInv, Dv!GrantHasALiveOwner, Dv!Dead
<1>3. CASE ~ UNCHANGED grants
  <2>. DEFINE usable == {i \in DOMAIN grants : ~Dv!Dead(grants[i])}
              id == CHOOSE n \in 1 .. MaxGrants : n \notin usable
  <2>1. PICK browser \in BOOLEAN :
          grants' = [i \in usable \cup {id} |->
                       IF i = id THEN [device |-> asking[s], browser |-> browser, old |-> FALSE, late |-> late[s]]
                       ELSE grants[i]]
    BY <1>3 DEF Dv!ForwardDecided
  <2>2. usable \subseteq DOMAIN grants
    OBVIOUS
  <2>. HIDE DEF usable, id
  <2>3. grants'[id] = [device |-> asking[s], browser |-> browser, old |-> FALSE, late |-> late[s]]
    BY <2>1
  <2>4. \A i \in DOMAIN grants' : i # id => i \in DOMAIN grants /\ grants'[i] = grants[i]
    BY <2>1, <2>2
  <2>5. /\ DOMAIN grants'[id] = {"device", "browser", "old", "late"}
        /\ grants'[id].device = asking[s] /\ grants'[id].late = late[s]
    BY <2>3
  <2>. QED BY <1>1, <2>4, <2>5, GrantedKept
<1>. QED BY <1>2, <1>3

(* What a code paired is counted. *)
CodesInv ==
  /\ code \in [Codes -> {"unused", "pending", "expired", "spent", "gone"}]
  /\ paired \in [Codes -> Nat]
  /\ \A c \in Codes : paired[c] <= 1
  /\ \A c \in Codes : code[c] \in {"unused", "pending", "expired"} => paired[c] = 0

LEMMA ClosedKept ==
  ASSUME DevicesInv, NEW s \in Sockets, Dv!Closed(s), UNCHANGED asking, CodesInv'
  PROVE  DevicesInv'
<1>1. /\ socket' \in [Sockets -> {"closed", "unauthed"} \cup Codes]
      /\ \A t \in Sockets : t # s => socket'[t] = socket[t]
      /\ late' = [t \in Sockets |-> late[t] \/ (asking[t] # None /\ asking[t] = socket[s])]
  BY DEF DevicesInv, Dv!Closed, Dv!Scans
<1>2. DOMAIN late' = Sockets
  BY <1>1 DEF DevicesInv
<1>3. \A t \in Sockets : asking[t] # None /\ ~late'[t] => \E u \in Sockets : socket'[u] = asking[t]
  BY <1>1 DEF DevicesInv
<1>4. \A i \in DOMAIN grants' :
        i \in DOMAIN grants /\ grants'[i] = grants[i] /\ (socket[s] \in Codes => grants[i].device # socket[s])
  BY DEF Dv!Closed, Dv!DropDevice, Dv!Without
<1>5. \A i \in DOMAIN grants' : grants'[i].device # socket[s]
  BY <1>4 DEF DevicesInv
<1>6. Dv!GrantHasALiveOwner'
  BY <1>1, <1>4, <1>5 DEF DevicesInv, Dv!GrantHasALiveOwner, Dv!Dead
<1>. QED BY <1>1, <1>2, <1>3, <1>4, <1>6 DEF DevicesInv, CodesInv

(* A socket that is another device from now on leaves the grants and the    *)
(* scans of the one it was marked.                                          *)
LEMMA BecomesKept ==
  ASSUME DevicesInv, NEW s \in Sockets, NEW d \in Codes, Dv!Becomes(s, d), UNCHANGED asking, CodesInv'
  PROVE  DevicesInv'
<1>1. /\ socket' \in [Sockets -> {"closed", "unauthed"} \cup Codes]
      /\ socket'[s] = d
      /\ \A t \in Sockets : t # s => socket'[t] = socket[t]
      /\ late' = [t \in Sockets |-> late[t] \/ (socket[s] # d /\ t \in Dv!Scans(s))]
      /\ DOMAIN grants' = DOMAIN grants
  BY DEF DevicesInv, Dv!Becomes
<1>2. DOMAIN late' = Sockets
  BY <1>1
<1>3. \A t \in Sockets : asking[t] # None /\ ~late'[t] => \E u \in Sockets : socket'[u] = asking[t]
  <2>. SUFFICES ASSUME NEW t \in Sockets, asking[t] # None, ~late'[t]
                PROVE  \E u \in Sockets : socket'[u] = asking[t]
    OBVIOUS
  <2>1. ~late[t] /\ (socket[s] = d \/ asking[t] # socket[s])
    BY <1>1 DEF Dv!Scans
  <2>2. PICK u \in Sockets : socket[u] = asking[t]
    BY <2>1 DEF DevicesInv
  <2>3. socket'[u] = socket[u]
    BY <1>1, <2>1, <2>2
  <2>. QED BY <2>2, <2>3
<1>4. ASSUME NEW i \in DOMAIN grants
      PROVE  /\ DOMAIN grants'[i] = {"device", "browser", "old", "late"}
             /\ grants'[i].device = grants[i].device /\ grants'[i].old = grants[i].old
             /\ \/ grants'[i].late
                \/ grants'[i].late = grants[i].late /\ (grants[i].device # socket[s] \/ socket[s] = d)
  <2>1. DOMAIN grants[i] = {"device", "browser", "old", "late"}
    BY DEF DevicesInv
  <2>2. grants'[i] = IF grants[i].device = socket[s] /\ socket[s] # d
                     THEN [grants[i] EXCEPT !.late = TRUE] ELSE grants[i]
    BY DEF Dv!Becomes
  <2>3. CASE grants[i].device = socket[s] /\ socket[s] # d
    BY <2>1, <2>2, <2>3
  <2>4. CASE ~(grants[i].device = socket[s] /\ socket[s] # d)
    BY <2>1, <2>2, <2>4
  <2>. QED BY <2>3, <2>4
<1>5. Dv!GrantHasALiveOwner'
  <2>. SUFFICES ASSUME NEW i \in DOMAIN grants, ~grants[i].old, ~grants'[i].late
                PROVE  \E t \in Sockets : socket'[t] = grants[i].device
    BY <1>1, <1>4 DEF Dv!GrantHasALiveOwner, Dv!Dead
  <2>1. ~grants[i].late /\ (grants[i].device # socket[s] \/ socket[s] = d)
    BY <1>4
  <2>2. PICK t \in Sockets : socket[t] = grants[i].device
    BY <2>1 DEF DevicesInv, Dv!GrantHasALiveOwner, Dv!Dead
  <2>3. socket'[t] = socket[t]
    BY <1>1, <2>1, <2>2
  <2>. QED BY <2>2, <2>3
<1>6. \A i \in DOMAIN grants' :
        DOMAIN grants'[i] = {"device", "browser", "old", "late"} /\ grants'[i].device \in Codes
  BY <1>1, <1>4 DEF DevicesInv
<1>. QED BY <1>1, <1>2, <1>3, <1>5, <1>6 DEF DevicesInv, CodesInv

LEMMA DevicesKept ==
  ASSUME DevicesInv, [PartsNext]_allVars
  PROVE  DevicesInv'
<1>1. CASE UNCHANGED dvVars
  BY <1>1 DEF dvVars, DevicesInv, Dv!GrantHasALiveOwner, Dv!Dead
<1>2. ASSUME NEW c \in Codes, Dv!PairMint(c) \/ Dv!CodeExpires(c) \/ Dv!DevicesRevoke(c)
      PROVE  DevicesInv'
  <2>1. UNCHANGED <<paired, socket, asking, late, grants>>
    BY <1>2 DEF Dv!PairMint, Dv!CodeExpires, Dv!DevicesRevoke
  <2>2. code' \in [Codes -> {"unused", "pending", "expired", "spent", "gone"}]
    BY <1>2 DEF Dv!PairMint, Dv!CodeExpires, Dv!DevicesRevoke, DevicesInv
  <2>3. \A d \in Codes : code'[d] \in {"unused", "pending", "expired"} => paired[d] = 0
    BY <1>2 DEF Dv!PairMint, Dv!CodeExpires, Dv!DevicesRevoke, DevicesInv
  <2>. QED BY <2>1, <2>2, <2>3 DEF DevicesInv, Dv!GrantHasALiveOwner, Dv!Dead
<1>3. ASSUME NEW s \in Sockets, Dv!Opens(s) PROVE DevicesInv'
  <2>1. \A t \in Sockets : socket[t] \in Codes => socket'[t] = socket[t]
    BY <1>3, CodesAssumption DEF Dv!Opens, DevicesInv
  <2>. QED BY <1>3, <2>1, OwnersKept DEF Dv!Opens, DevicesInv
<1>4. ASSUME NEW s \in Sockets, Dv!Closes(s) PROVE DevicesInv'
  BY <1>4, ClosedKept DEF Dv!Closes, DevicesInv, CodesInv
<1>5. ASSUME NEW s \in Sockets, Dv!ForwardPort(s) PROVE DevicesInv'
  <2>1. /\ UNCHANGED <<code, paired, socket, grants>>
        /\ asking' = [asking EXCEPT ![s] = socket[s]] /\ late' = [late EXCEPT ![s] = FALSE]
        /\ socket[s] \in Codes
    BY <1>5 DEF Dv!ForwardPort
  <2>2. asking' \in [Sockets -> Codes \cup {None}] /\ DOMAIN late' = Sockets
    BY <2>1 DEF DevicesInv
  <2>3. \A t \in Sockets : asking'[t] # None /\ ~late'[t] => \E u \in Sockets : socket[u] = asking'[t]
    BY <2>1 DEF DevicesInv
  <2>. QED BY <2>1, <2>2, <2>3 DEF DevicesInv, Dv!GrantHasALiveOwner, Dv!Dead
<1>6. ASSUME NEW s \in Sockets, Dv!ForwardDecided(s) PROVE DevicesInv'
  BY <1>6, ForwardDecidedKept
<1>7. ASSUME NEW s \in Sockets, Dv!ForwardStop(s) PROVE DevicesInv'
  BY <1>7, WithoutKept DEF Dv!ForwardStop
<1>8. ASSUME NEW s \in Sockets, NEW c \in Codes, Dv!HelloPair(s, c) PROVE DevicesInv'
  <2>1. CodesInv'
    BY <1>8 DEF Dv!HelloPair, Dv!Consume, DevicesInv, CodesInv
  <2>2. UNCHANGED asking /\ (Dv!Becomes(s, c) \/ Dv!Closed(s))
    BY <1>8 DEF Dv!HelloPair
  <2>. QED BY <2>1, <2>2, BecomesKept, ClosedKept
<1>9. ASSUME NEW s \in Sockets, NEW c \in Codes, Dv!HelloBearer(s, c) PROVE DevicesInv'
  <2>1. UNCHANGED <<code, paired, asking>> /\ (Dv!Becomes(s, c) \/ Dv!Closed(s))
    BY <1>9 DEF Dv!HelloBearer
  <2>2. CodesInv'
    BY <2>1 DEF DevicesInv, CodesInv
  <2>. QED BY <2>1, <2>2, BecomesKept, ClosedKept
<1>10. ASSUME NEW caller \in Codes \cup {None}, Dv!Request(caller) PROVE DevicesInv'
  BY <1>10, WithoutKept DEF Dv!Request
<1>11. CASE Dv!GrantTimesOut
  <2>1. PICK i \in DOMAIN grants : grants' = [grants EXCEPT ![i].old = TRUE]
    BY <1>11 DEF Dv!GrantTimesOut
  <2>2. \A j \in DOMAIN grants' :
          /\ j \in DOMAIN grants
          /\ DOMAIN grants'[j] = {"device", "browser", "old", "late"} /\ grants'[j].device \in Codes
          /\ grants'[j] = grants[j] \/ grants'[j].old
    BY <2>1 DEF DevicesInv
  <2>. QED BY <1>11, <2>2 DEF Dv!GrantTimesOut, DevicesInv, Dv!GrantHasALiveOwner, Dv!Dead
<1>12. CASE Dv!DaemonRestarts
  BY <1>12 DEF Dv!DaemonRestarts, DevicesInv, Dv!GrantHasALiveOwner, Dv!Dead
<1>. QED BY <1>1, <1>2, <1>3, <1>4, <1>5, <1>6, <1>7, <1>8, <1>9, <1>10, <1>11, <1>12
         DEF PartsNext, allVars, Dv!Next

(* A code pairs one device, and a forward has an owner who is connected,    *)
(* whatever expires, is revoked, closes or restarts in between              *)
(* (pairing/registry.ts, server.ts).                                        *)
THEOREM PairingIsAlwaysSafe == PartsSpec => []PairingSafety
<1>1. PartsInit => DevicesInv
  BY DEF PartsInit, Dv!Init, DevicesInv, Dv!GrantHasALiveOwner, Dv!Dead
<1>2. DevicesInv => PairingSafety
  BY DEF DevicesInv, PairingSafety, Dv!PairingSafety, Dv!CodePairsOnce
<1>3. DevicesInv /\ [PartsNext]_allVars => DevicesInv'
  BY DevicesKept
<1>. QED BY <1>1, <1>2, <1>3, PTL DEF PartsSpec, allVars

-----------------------------------------------------------------------------
(* The ports panel and the alerts *)

(* Beside the property: a socket that does not watch keeps nothing, and an  *)
(* alert was sent for the outage the detector has, or for one it forgot.    *)
ScannerInv ==
  /\ client \in [Clients -> {"gone", "open", "watching"}]
  /\ DOMAIN view = Clients
  /\ view = [c \in Clients |-> view[c]]
  /\ \A c \in Clients : client[c] = "watching" => view[c] = cached
  /\ \A c \in Clients : client[c] # "watching" => view[c] = NoSnapshot
  /\ told \in {0, 1}
  /\ told = 1 => track.notified \/ ~track.seenUp
  /\ track \in [seenUp : BOOLEAN, down : BOOLEAN, age : Nat, notified : BOOLEAN]

LEMMA ScanEndsKept ==
  ASSUME ScannerInv, ScanEnds
  PROVE  ScannerInv'
<1>. DEFINE ok == scan.seen # "failed"
            port == IF ok THEN Attributed ELSE lastGood
            snapshot == [port |-> port, scan |-> IF ok THEN "ok" ELSE "failed"]
<1>1. /\ track' = IF ok THEN Observe(port) ELSE track
      /\ told' = IF ok THEN Told(port) ELSE told
      /\ Broadcast(snapshot)
      /\ client' = client
  BY DEF ScanEnds
<1>. HIDE DEF ok, port
<1>2. Observe(port) \in [seenUp : BOOLEAN, down : BOOLEAN, age : Nat, notified : BOOLEAN]
  BY PortScannerAssumption DEF ScannerInv, Observe, NoTrack
<1>3. /\ Told(port) \in {0, 1}
      /\ Told(port) = 1 => Observe(port).notified \/ ~Observe(port).seenUp
  BY DEF ScannerInv, Observe, Told, NoTrack
<1>4. CASE Watchers(client) = {} \/ snapshot = cached
  BY <1>1, <1>2, <1>3, <1>4 DEF ScannerInv, Broadcast
<1>5. CASE ~(Watchers(client) = {} \/ snapshot = cached)
  <2>1. /\ cached' = snapshot
        /\ view' = [c \in Clients |-> IF c \in Watchers(client) THEN snapshot ELSE view[c]]
    BY <1>1, <1>5 DEF Broadcast
  <2>. HIDE DEF snapshot
  <2>2. /\ \A c \in Clients : client[c] = "watching" => view'[c] = cached'
        /\ \A c \in Clients : client[c] # "watching" => view'[c] = NoSnapshot
        /\ DOMAIN view' = Clients /\ view' = [c \in Clients |-> view'[c]]
    BY <2>1 DEF Watchers, ScannerInv
  <2>. QED BY <1>1, <1>2, <1>3, <2>2 DEF ScannerInv
<1>. QED BY <1>4, <1>5

LEMMA ScannerKept ==
  ASSUME ScannerInv, [PartsNext]_allVars
  PROVE  ScannerInv'
<1>1. CASE UNCHANGED vars
  BY <1>1 DEF vars, sockets, outage, ScannerInv
<1>2. ASSUME NEW c \in Clients, Watch(c) PROVE ScannerInv'
  BY <1>2 DEF Watch, SetWatchers, outage, ScannerInv
<1>3. ASSUME NEW c \in Clients, Unwatch(c, "open") \/ Unwatch(c, "gone") PROVE ScannerInv'
  BY <1>3 DEF Unwatch, SetWatchers, outage, ScannerInv
<1>4. CASE SetWatchedPort
  BY <1>4 DEF SetWatchedPort, sockets, ScannerInv
<1>5. CASE KillReleased
  BY <1>5 DEF KillReleased, sockets, outage, ScannerInv
<1>6. CASE Tick
  BY <1>6 DEF Tick, sockets, outage, ScannerInv
<1>7. CASE ListenersRead
  BY <1>7 DEF ListenersRead, sockets, outage, ScannerInv
<1>8. CASE ScanEnds
  BY <1>8, ScanEndsKept
<1>9. CASE ProbeAnswers
  BY <1>9 DEF ProbeAnswers, sockets, outage, ScannerInv
<1>10. CASE WorldChanges
  BY <1>10 DEF WorldChanges, sockets, outage, ScannerInv
<1>11. CASE TimePasses
  <2>1. /\ UNCHANGED <<client, view, cached, told>>
        /\ track' = track \/ track' = [track EXCEPT !.age = @ + 1]
    BY <1>11 DEF TimePasses, sockets
  <2>. QED BY <2>1 DEF ScannerInv
<1>. QED BY <1>1, <1>2, <1>3, <1>4, <1>5, <1>6, <1>7, <1>8, <1>9, <1>10, <1>11
         DEF PartsNext, allVars, Next, UserMoves

-----------------------------------------------------------------------------
(* The kill *)

(* Beside the property: an attempt remembers that the endpoint or makit's   *)
(* claim was let go; what is about to be signalled is killable, and is the  *)
(* target unless its pid was reused since it was looked at.                 *)
KillInv ==
  /\ holder \in {"target", "reborn", "other", "nobody"} /\ pidUser \in {"target", "reborn", "nobody"}
  /\ active \in BOOLEAN /\ recorded \in BOOLEAN
  /\ DOMAIN kill = {"pc", "by", "phase", "saw", "tries", "outcome", "letGo", "disowned", "reused", "struck", "orphan"}
  /\ kill.phase \in 1 .. 3 /\ kill.saw \in {"target", "reborn", "other", "nobody"}
  /\ holder = "target" => pidUser = "target"
  /\ kill.pc # "none" => (holder # "target" => kill.letGo) /\ (~active /\ ~recorded => kill.disowned)
  /\ kill.pc = "procs" /\ kill.saw # "target" => kill.letGo
  /\ kill.pc = "signal" \/ kill.phase > 1 => role \notin {"server", "session"}
  /\ kill.pc = "signal" => kill.phase < 3
  /\ kill.pc = "signal" /\ pidUser = "reborn" => kill.reused
  /\ kill.struck = "reborn" => pidUser # "target"
  /\ Pk!KillSafety

LEMMA DecidedKept ==
  ASSUME KillInv, UNCHANGED Pk!world, kill.pc \in {"listeners", "procs"},
         NEW decision, kill' = Pk!Decided(decision),
         decision \in {"scan_unavailable", "not_found", "identity_mismatch", "not_owned", "refused_self",
                       "refused_session", "signal"},
         decision = "signal" => pidUser = "target" /\ role \notin {"server", "session"},
         decision \in {"not_found", "identity_mismatch", "not_owned"} => kill.letGo \/ kill.disowned,
         decision \in {"refused_self", "refused_session"} => role \in {"server", "session"}
  PROVE  KillInv'
<1>. USE DEF KillInv, Pk!KillSafety, Pk!StrangersAreSpared, Pk!SuccessIsReal, Pk!world
<1>1. CASE decision = "scan_unavailable" /\ kill.phase > 1 /\ kill.tries < Retries
  BY <1>1 DEF Pk!Decided
<1>2. CASE decision = "signal" /\ kill.phase < 3
  BY <1>2 DEF Pk!Decided, Pk!Orphan
<1>3. CASE decision = "signal" /\ kill.phase = 3
  BY <1>3 DEF Pk!Decided, Pk!Finish
<1>4. CASE decision # "signal" /\ kill.phase = 1
  BY <1>4 DEF Pk!Decided, Pk!Finish
<1>5. CASE /\ ~(decision = "scan_unavailable" /\ kill.phase > 1 /\ kill.tries < Retries)
           /\ decision # "signal" /\ kill.phase # 1
  BY <1>5 DEF Pk!Decided, Pk!Finish, Pk!AfterSignal
<1>. QED BY <1>1, <1>2, <1>3, <1>4, <1>5

LEMMA ChangesKept ==
  ASSUME KillInv, NEW h \in {"target", "reborn", "other", "nobody"}, NEW u \in {"target", "reborn", "nobody"},
         NEW a \in BOOLEAN, NEW r \in BOOLEAN,
         Pk!Changes(h, u, a, r),
         h = "target" => u = "target",
         u = "target" => pidUser = "target"
  PROVE  KillInv'
BY DEF KillInv, Pk!KillSafety, Pk!StrangersAreSpared, Pk!SuccessIsReal, Pk!Changes, Pk!Noted

LEMMA KillKept ==
  ASSUME KillInv, [PartsNext]_allVars
  PROVE  KillInv'
<1>1. CASE UNCHANGED pkVars
  BY <1>1 DEF pkVars, KillInv, Pk!KillSafety, Pk!StrangersAreSpared, Pk!SuccessIsReal
<1>2. CASE Pk!KillPort \/ Pk!KillOrphans
  <2>1. PICK by, pc : kill' = Pk!Begin(by, pc) /\ pc \in {"listeners", "queued"} /\ UNCHANGED Pk!world
    BY <1>2 DEF Pk!KillPort, Pk!KillOrphans
  <2>2. /\ DOMAIN kill' = DOMAIN Pk!NoKill
        /\ kill'.pc = pc /\ kill'.phase = 1 /\ kill'.saw = "nobody" /\ kill'.outcome = "none" /\ kill'.struck = "nobody"
        /\ kill'.letGo <=> holder # "target"
        /\ kill'.disowned <=> ~active /\ ~recorded
    BY <2>1 DEF Pk!Begin, Pk!NoKill
  <2>3. DOMAIN kill' = DOMAIN kill
    BY <2>2 DEF KillInv, Pk!NoKill
  <2>. QED BY <2>1, <2>2, <2>3 DEF Pk!world, KillInv, Pk!KillSafety, Pk!StrangersAreSpared, Pk!SuccessIsReal
<1>3. CASE Pk!SweepReaches
  BY <1>3 DEF Pk!SweepReaches, Pk!world, KillInv, Pk!KillSafety, Pk!StrangersAreSpared, Pk!SuccessIsReal
<1>4. CASE Pk!ReadListeners
  BY <1>4 DEF Pk!ReadListeners, Pk!world, KillInv, Pk!KillSafety, Pk!StrangersAreSpared, Pk!SuccessIsReal
<1>5. CASE Pk!ReadProcs
  <2>. DEFINE decision == Pk!Classify(kill.saw)
  <2>1. /\ decision \in {"not_found", "identity_mismatch", "not_owned", "refused_self", "refused_session", "signal"}
        /\ decision = "signal" => pidUser = "target" /\ role \notin {"server", "session"}
        /\ decision \in {"not_found", "identity_mismatch", "not_owned"} => kill.letGo \/ kill.disowned
        /\ decision \in {"refused_self", "refused_session"} => role \in {"server", "session"}
    BY <1>5 DEF Pk!ReadProcs, Pk!Classify, Pk!SameProcess, KillInv
  <2>2. UNCHANGED Pk!world /\ kill.pc = "procs" /\ kill' = Pk!Decided(decision)
    BY <1>5 DEF Pk!ReadProcs
  <2>. HIDE DEF decision
  <2>. QED BY <2>1, <2>2, DecidedKept
<1>6. CASE Pk!ScanFails
  BY <1>6, DecidedKept DEF Pk!ScanFails
<1>7. CASE Pk!Signal
  BY <1>7 DEF Pk!Signal, Pk!Finish, Pk!world, KillInv, Pk!KillSafety, Pk!StrangersAreSpared, Pk!SuccessIsReal
<1>8. CASE Pk!Machine
  <2>. USE DEF KillInv
  <2>1. CASE Pk!Exits
    BY <2>1, ChangesKept DEF Pk!Exits
  <2>2. CASE Pk!PidReused
    BY <2>2, ChangesKept DEF Pk!PidReused
  <2>3. CASE Pk!Listens
    BY <2>3, ChangesKept DEF Pk!Listens
  <2>4. CASE Pk!StopsListening
    BY <2>4, ChangesKept DEF Pk!StopsListening
  <2>5. CASE Pk!WorktreeComesOrGoes
    BY <2>5, ChangesKept DEF Pk!WorktreeComesOrGoes
  <2>6. CASE Pk!HistoryChanges
    BY <2>6, ChangesKept DEF Pk!HistoryChanges
  <2>. QED BY <1>8, <2>1, <2>2, <2>3, <2>4, <2>5, <2>6 DEF Pk!Machine
<1>. QED BY <1>1, <1>2, <1>3, <1>4, <1>5, <1>6, <1>7, <1>8 DEF PartsNext, allVars, Pk!Next, Pk!Attempt

(* All who look at the ports see the same, an outage is told once, a kill   *)
(* never strikes a process that merely has the pid, and reports a success   *)
(* only when there is one (ports/service.ts, watch.ts, kill.ts).            *)
THEOREM PortsAreAlwaysSafe == PartsSpec => []PortsSafety
<1>1. PartsInit => ScannerInv
  BY DEF PartsInit, Init, ScannerInv, NoTrack
<1>2. PartsInit => KillInv
  BY DEF PartsInit, Pk!Init, Pk!NoKill, KillInv, Pk!KillSafety, Pk!StrangersAreSpared, Pk!SuccessIsReal
<1>3. ScannerInv /\ KillInv => PortsSafety
  BY DEF ScannerInv, KillInv, PortsSafety, ViewsAgree, OneAlertPerOutage, Watchers
<1>4. ScannerInv /\ [PartsNext]_allVars => ScannerInv'
  BY ScannerKept
<1>5. KillInv /\ [PartsNext]_allVars => KillInv'
  BY KillKept
<1>. QED BY <1>1, <1>2, <1>3, <1>4, <1>5, PTL DEF PartsSpec, allVars
-----------------------------------------------------------------------------
(* Recursion over the positions of a sequence *)

(* A set of naturals that is not empty has a least element. *)
LEMMA NatMin ==
  ASSUME NEW T, T \subseteq Nat, T # {}
  PROVE  \E x \in T : \A y \in T : ~(y < x)
<1>. DEFINE R == OpToRel(<, Nat)
<1>1. IsWellFoundedOn(R, Nat)
  BY NatLessThanWellFounded
<1>2. \A x, y \in Nat : x < y => <<x, y>> \in R
  BY DEF OpToRel
<1>. HIDE DEF R
<1>3. \E x \in T : \A y \in T : ~(<<y, x>> \in R)
  BY <1>1, WFMin
<1>. QED BY <1>2, <1>3

(* Induction, for a set instead of a predicate. *)
LEMMA NatInd ==
  ASSUME NEW S, 0 \in S, \A n \in Nat : n \in S => n + 1 \in S
  PROVE  Nat \subseteq S
<1>1. SUFFICES ASSUME Nat \ S # {} PROVE FALSE
  OBVIOUS
<1>2. PICK n \in Nat \ S : \A y \in Nat \ S : ~(y < n)
  BY <1>1, NatMin
<1>3. n # 0 /\ n - 1 \in Nat
  BY <1>2
<1>4. n - 1 \notin S
  BY <1>3
<1>. QED BY <1>2, <1>3, <1>4

(* The values f that start at a and are computed one from the other by G.  *)
Computes(G, V, a, N) == a \in V /\ N \in Nat /\ G \in [V \X (1 .. N) -> V]
IsRun(f, G, V, a, N) ==
  f \in [0 .. N -> V] /\ f[0] = a /\ \A n \in 1 .. N : f[n] = G[<<f[n - 1], n>>]

(* They exist. *)
LEMMA RunExists ==
  ASSUME NEW V, NEW a, NEW N, NEW G, Computes(G, V, a, N)
  PROVE  \E f : IsRun(f, G, V, a, N)
<1>0. a \in V /\ N \in Nat /\ G \in [V \X (1 .. N) -> V]
  BY DEF Computes
<1>. DEFINE Good(f, m) == /\ f \in [0 .. m -> V] /\ f[0] = a
                          /\ \A n \in 1 .. m : f[n] = G[<<f[n - 1], n>>]
            S == {m \in Nat : m <= N => \E f : Good(f, m)}
<1>1. 0 \in S
  <2>. DEFINE h == [n \in 0 .. 0 |-> a]
  <2>1. h \in [0 .. 0 -> V] /\ h[0] = a
    BY <1>0
  <2>. HIDE DEF h
  <2>2. Good(h, 0)
    BY <2>1
  <2>. QED BY <2>2
<1>2. ASSUME NEW m \in Nat, m \in S PROVE m + 1 \in S
  <2>. SUFFICES ASSUME m + 1 <= N PROVE \E f : Good(f, m + 1)
    OBVIOUS
  <2>1. PICK f : Good(f, m)
    BY <1>0, <1>2
  <2>. DEFINE g == [n \in 0 .. m + 1 |-> IF n = m + 1 THEN G[<<f[m], m + 1>>] ELSE f[n]]
  <2>2. f[m] \in V /\ <<f[m], m + 1>> \in V \X (1 .. N)
    BY <1>0, <2>1
  <2>3. G[<<f[m], m + 1>>] \in V
    BY <1>0, <2>2
  <2>4. g \in [0 .. m + 1 -> V] /\ g[0] = a
    BY <2>1, <2>3
  <2>5. \A n \in 0 .. m : g[n] = f[n]
    OBVIOUS
  <2>6. g[m + 1] = G[<<f[m], m + 1>>]
    OBVIOUS
  <2>. HIDE DEF g
  <2>7. ASSUME NEW n \in 1 .. m + 1 PROVE g[n] = G[<<g[n - 1], n>>]
    <3>1. CASE n = m + 1
      <4>1. g[n - 1] = f[m]
        BY <2>5, <3>1
      <4>. QED BY <2>6, <3>1, <4>1
    <3>2. CASE n # m + 1
      <4>1. n \in 1 .. m /\ n - 1 \in 0 .. m
        BY <3>2
      <4>2. f[n] = G[<<f[n - 1], n>>]
        BY <2>1, <4>1
      <4>. QED BY <2>5, <4>1, <4>2
    <3>. QED BY <3>1, <3>2
  <2>. QED BY <2>4, <2>7
<1>. HIDE DEF S
<1>3. N \in S
  BY <1>0, <1>1, <1>2, NatInd
<1>. QED BY <1>0, <1>3 DEF S, IsRun

-----------------------------------------------------------------------------
(* Publishing: the grants *)

Grants == [owner : Devices, port : Ports, old : BOOLEAN]

(* What is kept is in force, nothing in force is lost. *)
LEMMA LiveKeeps ==
  ASSUME NEW gs \in Seq(Grants)
  PROVE  /\ Dp!Live(gs) \in Seq(Grants)
         /\ \A i \in DOMAIN Dp!Live(gs) : ~Dp!Live(gs)[i].old /\ \E j \in DOMAIN gs : Dp!Live(gs)[i] = gs[j]
         /\ (\E j \in DOMAIN gs : ~gs[j].old) => Dp!Live(gs) # <<>>
<1>. DEFINE V == Seq(Grants)
            N == Len(gs)
            Body(f, n) == IF n = 0 THEN <<>>
                          ELSE IF gs[n].old THEN f[n - 1] ELSE Append(f[n - 1], gs[n])
            soFar == CHOOSE f : f = [n \in 0 .. N |-> Body(f, n)]
            G == [p \in V \X (1 .. N) |-> IF gs[p[2]].old THEN p[1] ELSE Append(p[1], gs[p[2]])]
<1>1. Dp!Live(gs) = soFar[N]
  BY DEF Dp!Live
<1>2. N \in Nat /\ \A n \in 1 .. N : gs[n] \in Grants
  OBVIOUS
<1>3. <<>> \in V /\ G \in [V \X (1 .. N) -> V]
  BY <1>2
<1>4. \A v \in V, n \in 1 .. N : G[<<v, n>>] = IF gs[n].old THEN v ELSE Append(v, gs[n])
  OBVIOUS
<1>. HIDE DEF G, V, N
<1>5. PICK f : IsRun(f, G, V, <<>>, N)
  BY <1>2, <1>3, RunExists DEF Computes
<1>6. ASSUME NEW n \in 0 .. N PROVE f[n] = Body(f, n)
  <2>1. CASE n = 0
    BY <1>5, <2>1 DEF IsRun
  <2>2. CASE n # 0
    <3>1. n \in 1 .. N /\ n - 1 \in 0 .. N
      BY <1>2, <2>2
    <3>2. f[n - 1] \in V
      BY <1>5, <3>1 DEF IsRun
    <3>. QED BY <1>4, <1>5, <2>2, <3>1, <3>2 DEF IsRun
  <2>. QED BY <2>1, <2>2
<1>7. f = [n \in 0 .. N |-> Body(f, n)]
  BY <1>5, <1>6 DEF IsRun
<1>8. soFar = [n \in 0 .. N |-> Body(soFar, n)]
  BY <1>7
<1>. HIDE DEF soFar
<1>9. soFar[0] = <<>> /\ \A n \in 1 .. N : soFar[n] = IF gs[n].old THEN soFar[n - 1] ELSE Append(soFar[n - 1], gs[n])
  <2>1. \A n \in 0 .. N : soFar[n] = Body(soFar, n)
    BY <1>8
  <2>2. 0 \in 0 .. N /\ \A n \in 1 .. N : n \in 0 .. N /\ n # 0
    BY <1>2
  <2>. QED BY <2>1, <2>2
<1>. DEFINE Fine(n, s) ==
              /\ s \in Seq(Grants)
              /\ \A i \in 1 .. Len(s) : ~s[i].old /\ \E j \in 1 .. N : s[i] = gs[j]
              /\ (\E j \in 1 .. n : ~gs[j].old) => Len(s) > 0
            S == {n \in Nat : n <= N => Fine(n, soFar[n])}
<1>10. 0 \in S
  <2>1. Fine(0, <<>>)
    OBVIOUS
  <2>. QED BY <1>9, <2>1
<1>11. ASSUME NEW n \in Nat, n \in S PROVE n + 1 \in S
  <2>. SUFFICES ASSUME n + 1 <= N PROVE Fine(n + 1, soFar[n + 1])
    OBVIOUS
  <2>1. Fine(n, soFar[n])
    BY <1>2, <1>11
  <2>. DEFINE s == soFar[n]
              t == soFar[n + 1]
  <2>2. n + 1 \in 1 .. N /\ gs[n + 1] \in Grants /\ s \in Seq(Grants)
    BY <1>2, <2>1
  <2>3. t = IF gs[n + 1].old THEN s ELSE Append(s, gs[n + 1])
    BY <1>9, <2>2
  <2>4. /\ s \in Seq(Grants)
        /\ \A i \in 1 .. Len(s) : ~s[i].old /\ \E j \in 1 .. N : s[i] = gs[j]
        /\ (\E j \in 1 .. n : ~gs[j].old) => Len(s) > 0
    BY <2>1
  <2>. HIDE DEF s, t
  <2>5. CASE gs[n + 1].old
    <3>1. t = s
      BY <2>3, <2>5
    <3>2. (\E j \in 1 .. n + 1 : ~gs[j].old) => \E j \in 1 .. n : ~gs[j].old
      BY <2>5
    <3>3. Fine(n + 1, t)
      BY <2>4, <3>1, <3>2
    <3>. QED BY <3>3 DEF t
  <2>6. CASE ~gs[n + 1].old
    <3>1. t = Append(s, gs[n + 1])
      BY <2>3, <2>6
    <3>2. /\ t \in Seq(Grants) /\ Len(t) = Len(s) + 1 /\ Len(s) \in Nat
          /\ \A i \in 1 .. Len(s) : t[i] = s[i]
          /\ t[Len(s) + 1] = gs[n + 1]
      BY <2>2, <3>1
    <3>3. ASSUME NEW i \in 1 .. Len(t) PROVE ~t[i].old /\ \E j \in 1 .. N : t[i] = gs[j]
      <4>1. CASE i = Len(s) + 1
        BY <2>2, <2>6, <3>2, <4>1
      <4>2. CASE i # Len(s) + 1
        <5>1. i \in 1 .. Len(s)
          BY <3>2, <4>2
        <5>. QED BY <2>4, <3>2, <5>1
      <4>. QED BY <4>1, <4>2
    <3>4. Fine(n + 1, t)
      BY <3>2, <3>3
    <3>. QED BY <3>4 DEF t
  <2>. QED BY <2>5, <2>6
<1>. HIDE DEF S
<1>12. N \in S
  BY <1>2, <1>10, <1>11, NatInd
<1>13. Fine(N, soFar[N])
  BY <1>2, <1>12 DEF S
<1>14. Fine(N, Dp!Live(gs))
  BY <1>1, <1>13
<1>. QED BY <1>14 DEF N

(* A grant that is minted is there, in force; the rest were there. *)
Minted(gs, hs, port) ==
  /\ hs \in Seq(Grants)
  /\ \A i \in DOMAIN hs : hs[i].port = port \/ \E j \in DOMAIN gs : hs[i] = gs[j]
  /\ \E i \in DOMAIN hs : ~hs[i].old

(* mint adds a grant in force on the port; who is evicted is not said. *)
LEMMA MintAdds ==
  ASSUME NEW gs, gs \in Seq(Grants), NEW d \in Devices, NEW port \in Ports
  PROVE  Minted(gs, Dp!Mint(gs, d, port), port)
<1>. DEFINE staying == Dp!Live(gs)
            room == IF Len(staying) >= MaxLiveGrants THEN Tail(staying) ELSE staying
            g == Dp!Grant(d, port)
            hs == Dp!Mint(gs, d, port)
<1>1. /\ staying \in Seq(Grants)
      /\ \A i \in DOMAIN staying : \E j \in DOMAIN gs : staying[i] = gs[j]
  BY LiveKeeps
<1>2. g \in Grants /\ g.port = port /\ ~g.old
  BY DEF Dp!Grant, Grants
<1>3. hs = Append(room, g)
  BY DEF Dp!Mint
<1>. HIDE DEF staying, g, hs
<1>4. room \in Seq(Grants) /\ \A i \in DOMAIN room : \E j \in DOMAIN staying : room[i] = staying[j]
  <2>1. CASE Len(staying) >= MaxLiveGrants
    <3>1. Len(staying) \in Nat \ {0} /\ staying # <<>>
      BY <1>1, <2>1, PublishersAssumption DEF PublishersAssumption
    <3>2. /\ Tail(staying) \in Seq(Grants) /\ Len(Tail(staying)) = Len(staying) - 1
          /\ \A i \in 1 .. Len(Tail(staying)) : Tail(staying)[i] = staying[i + 1]
      BY <1>1, <3>1
    <3>3. \A i \in 1 .. Len(Tail(staying)) : i + 1 \in 1 .. Len(staying)
      BY <3>1, <3>2
    <3>4. room = Tail(staying)
      BY <2>1
    <3>5. ASSUME NEW i \in 1 .. Len(Tail(staying)) PROVE \E j \in DOMAIN staying : Tail(staying)[i] = staying[j]
      <4>1. i + 1 \in DOMAIN staying /\ Tail(staying)[i] = staying[i + 1]
        BY <1>1, <3>2, <3>3
      <4>. QED BY <4>1
    <3>6. DOMAIN Tail(staying) = 1 .. Len(Tail(staying))
      BY <3>2
    <3>. QED BY <3>2, <3>4, <3>5, <3>6
  <2>2. CASE ~(Len(staying) >= MaxLiveGrants)
    BY <1>1, <2>2
  <2>. QED BY <2>1, <2>2
<1>. HIDE DEF room
<1>5. /\ hs \in Seq(Grants) /\ Len(hs) = Len(room) + 1 /\ Len(room) \in Nat
      /\ \A i \in 1 .. Len(room) : hs[i] = room[i]
      /\ hs[Len(room) + 1] = g
  BY <1>2, <1>3, <1>4
<1>6. ASSUME NEW i \in 1 .. Len(hs) PROVE hs[i].port = port \/ \E j \in DOMAIN gs : hs[i] = gs[j]
  <2>1. CASE i = Len(room) + 1
    BY <1>2, <1>5, <2>1
  <2>2. CASE i # Len(room) + 1
    <3>1. i \in DOMAIN room /\ hs[i] = room[i]
      BY <1>4, <1>5, <2>2
    <3>. QED BY <1>1, <1>4, <3>1
  <2>. QED BY <2>1, <2>2
<1>7. Len(room) + 1 \in 1 .. Len(hs) /\ ~hs[Len(room) + 1].old
  BY <1>2, <1>5
<1>8. DOMAIN hs = 1 .. Len(hs)
  BY <1>5
<1>. QED BY <1>5, <1>6, <1>7, <1>8 DEF Minted, hs

(* Minting again keeps what minting once gave. *)
LEMMA MintedTwice ==
  ASSUME NEW gs, NEW hs, NEW ks, NEW port, Minted(gs, hs, port), Minted(hs, ks, port)
  PROVE  Minted(gs, ks, port)
BY DEF Minted

(* Those who share a bind mint one grant each, in whatever order. *)
LEMMA MintAllAdds ==
  ASSUME published \in Seq(Grants), NEW who \in SUBSET Devices, who # {}, NEW port \in Ports,
         Dp!MintAll(who, port)
  PROVE  Minted(published, published', port)
<1>1. PICK order \in Dp!SetToSeqs(who) :
        published' = (CHOOSE f : f = [n \in 0 .. Len(order) |->
                        IF n = 0 THEN published ELSE Dp!Mint(f[n - 1], order[n], port)])[Len(order)]
  BY DEF Dp!MintAll
<1>. DEFINE N == Len(order)
            V == Seq(Grants)
            Body(f, n) == IF n = 0 THEN published ELSE Dp!Mint(f[n - 1], order[n], port)
            minted == CHOOSE f : f = [n \in 0 .. N |-> Body(f, n)]
            G == [p \in V \X (1 .. N) |-> Dp!Mint(p[1], order[p[2]], port)]
<1>2. published' = minted[N]
  BY <1>1
<1>3. N \in Nat /\ N > 0 /\ \A n \in 1 .. N : order[n] \in Devices
  <2>0. Dp!Cardinality(who) = Cardinality(who)
    BY DEF Dp!Cardinality, Cardinality
  <2>1. order \in [1 .. Cardinality(who) -> who]
    BY <1>1, <2>0 DEF Dp!SetToSeqs
  <2>2. IsFiniteSet(who)
    <3>1. IsFiniteSet(Devices)
      BY PublishersAssumption DEF PublishersAssumption
    <3>. QED BY <3>1, FS_Subset
  <2>3. Cardinality(who) \in Nat /\ Cardinality(who) # 0
    BY <2>2, FS_CardinalityType, FS_EmptySet
  <2>4. Len(order) = Cardinality(who)
    BY <2>1, <2>3
  <2>. QED BY <2>1, <2>3, <2>4
<1>4. \A v \in V, n \in 1 .. N : Minted(v, Dp!Mint(v, order[n], port), port)
  BY <1>3, MintAdds
<1>5. published \in V /\ G \in [V \X (1 .. N) -> V]
  BY <1>4 DEF Minted
<1>6. \A v \in V, n \in 1 .. N : G[<<v, n>>] = Dp!Mint(v, order[n], port)
  OBVIOUS
<1>. HIDE DEF G, V, N
<1>7. PICK f : IsRun(f, G, V, published, N)
  BY <1>3, <1>5, RunExists DEF Computes
<1>8. ASSUME NEW n \in 0 .. N PROVE f[n] = Body(f, n)
  <2>1. CASE n = 0
    BY <1>7, <2>1 DEF IsRun
  <2>2. CASE n # 0
    <3>1. n \in 1 .. N /\ n - 1 \in 0 .. N
      BY <1>3, <2>2
    <3>2. f[n - 1] \in V
      BY <1>7, <3>1 DEF IsRun
    <3>. QED BY <1>6, <1>7, <2>2, <3>1, <3>2 DEF IsRun
  <2>. QED BY <2>1, <2>2
<1>9. f = [n \in 0 .. N |-> Body(f, n)]
  BY <1>7, <1>8 DEF IsRun
<1>10. minted = [n \in 0 .. N |-> Body(minted, n)]
  BY <1>9
<1>. HIDE DEF minted
<1>11. minted[0] = published /\ \A n \in 1 .. N : minted[n] = Dp!Mint(minted[n - 1], order[n], port)
  <2>1. \A n \in 0 .. N : minted[n] = Body(minted, n)
    BY <1>10
  <2>2. 0 \in 0 .. N /\ \A n \in 1 .. N : n \in 0 .. N /\ n # 0
    BY <1>3
  <2>. QED BY <2>1, <2>2
<1>. DEFINE S == {n \in Nat : n + 1 <= N => Minted(published, minted[n + 1], port)}
<1>12. 0 \in S
  <2>1. 1 \in 1 .. N /\ minted[1] = Dp!Mint(published, order[1], port)
    BY <1>3, <1>11
  <2>2. Minted(published, minted[1], port)
    BY <1>4, <1>5, <2>1
  <2>. QED BY <2>2
<1>13. ASSUME NEW n \in Nat, n \in S PROVE n + 1 \in S
  <2>. SUFFICES ASSUME n + 2 <= N PROVE Minted(published, minted[n + 2], port)
    OBVIOUS
  <2>1. Minted(published, minted[n + 1], port)
    BY <1>3, <1>13
  <2>2. n + 2 \in 1 .. N /\ (n + 2) - 1 = n + 1
    BY <1>3
  <2>3. minted[n + 2] = Dp!Mint(minted[n + 1], order[n + 2], port)
    BY <1>11, <2>2
  <2>4. minted[n + 1] \in V
    BY <2>1 DEF Minted, V
  <2>5. Minted(minted[n + 1], minted[n + 2], port)
    BY <1>4, <2>2, <2>3, <2>4
  <2>. QED BY <2>1, <2>5, MintedTwice
<1>14. N - 1 \in S
  <2>. HIDE DEF S
  <2>. QED BY <1>3, <1>12, <1>13, NatInd
<1>15. Minted(published, minted[N], port)
  BY <1>3, <1>14
<1>. QED BY <1>2, <1>15

-----------------------------------------------------------------------------
(* Publishing: leases, binds and releases *)

InForce(gs) == \E i \in DOMAIN gs : ~gs[i].old
Reachable(gs, ports) == \A i \in DOMAIN gs : ~gs[i].old => gs[i].port \in ports
Unleased(p) == \A d \in Devices : p[d] = "none"

(* Nobody joins or waits for a bind that is over. *)
LeasesInv(p, joined, port, down) ==
  /\ p \in [Devices -> Devices \cup {"none", "waiting", "binding"}]
  /\ joined # None => joined \in Devices /\ p[joined] = "binding"
  /\ down # None => port = None /\ joined = None /\ \A d \in Devices : p[d] \in {"none", "waiting"}

(* Beside the property: a listener that is there is bound, and one that is   *)
(* closing has no successor before it is down.                              *)
PublishInv ==
  /\ published \in Seq(Grants)
  /\ LeasesInv(publish, binding, server, closing)
  /\ server \in Ports \cup {None} /\ (server # None => server \in bound)
  /\ Reachable(published, bound)
  /\ server # None /\ Unleased(publish) /\ ~lapsed => InForce(published)

(* No lease is counted when no device publishes. *)
LEMMA LeasesCounted ==
  ASSUME NEW p
  PROVE  Dp!Leases(p) \in Nat /\ (Dp!Leases(p) = 0 <=> Unleased(p))
<1>. DEFINE L == {d \in Devices : p[d] # "none"}
<1>1. IsFiniteSet(Devices) /\ L \subseteq Devices
  BY PublishersAssumption DEF PublishersAssumption
<1>2. Dp!Leases(p) = Cardinality(L)
  <2>1. Dp!Cardinality(L) = Cardinality(L)
    BY DEF Dp!Cardinality, Cardinality
  <2>. QED BY <2>1 DEF Dp!Leases
<1>3. L = {} <=> Unleased(p)
  BY DEF Unleased
<1>. HIDE DEF L
<1>4. IsFiniteSet(L)
  BY <1>1, FS_Subset
<1>5. Cardinality(L) \in Nat /\ (Cardinality(L) = 0 <=> L = {})
  BY <1>4, FS_CardinalityType, FS_EmptySet
<1>. QED BY <1>2, <1>3, <1>5

(* reap leaves something exactly if something is in force. *)
LEMMA LiveIsInForce ==
  ASSUME NEW gs, gs \in Seq(Grants)
  PROVE  /\ Dp!Live(gs) \in Seq(Grants)
         /\ Dp!Live(gs) # <<>> <=> InForce(gs)
         /\ InForce(gs) => InForce(Dp!Live(gs))
         /\ \A ports : Reachable(gs, ports) => Reachable(Dp!Live(gs), ports)
<1>. DEFINE staying == Dp!Live(gs)
<1>1. /\ staying \in Seq(Grants)
      /\ \A i \in DOMAIN staying : ~staying[i].old /\ \E j \in DOMAIN gs : staying[i] = gs[j]
      /\ InForce(gs) => staying # <<>>
  BY LiveKeeps DEF InForce
<1>. HIDE DEF staying
<1>2. ASSUME staying # <<>> PROVE InForce(staying) /\ InForce(gs)
  <2>1. 1 \in DOMAIN staying
    BY <1>1, <1>2
  <2>. QED BY <1>1, <2>1 DEF InForce
<1>3. \A ports : Reachable(gs, ports) => Reachable(staying, ports)
  BY <1>1 DEF Reachable
<1>. QED BY <1>1, <1>2, <1>3 DEF staying

(* A release that is tried, with the grants gs and the publishes p.         *)
LEMMA ReleaseKept ==
  ASSUME NEW gs, gs \in Seq(Grants), Reachable(gs, bound), NEW d,
         LeasesInv(publish', binding', server, closing),
         server \in Ports \cup {None}, server # None => server \in bound,
         Dp!ReleaseIfIdle(publish', gs, d)
  PROVE  PublishInv'
<1>. DEFINE staying == Dp!Live(gs)
<1>1. /\ staying \in Seq(Grants) /\ (staying # <<>> <=> InForce(gs))
      /\ InForce(gs) => InForce(staying)
      /\ Reachable(staying, bound)
  BY LiveIsInForce
<1>2. Dp!Leases(publish') \in Nat /\ (Dp!Leases(publish') = 0 <=> Unleased(publish'))
  BY LeasesCounted
<1>3. CASE Dp!Leases(publish') > 0
  <2>1. UNCHANGED <<server, closing, bound>> /\ published' = gs
    BY <1>3 DEF Dp!ReleaseIfIdle
  <2>2. ~Unleased(publish')
    BY <1>2, <1>3
  <2>. QED BY <2>1, <2>2 DEF PublishInv
<1>4. CASE ~(Dp!Leases(publish') > 0) /\ (staying # <<>> \/ closing # None)
  <2>1. UNCHANGED <<server, closing, bound>> /\ published' = staying
    BY <1>4 DEF Dp!ReleaseIfIdle, Dp!StillPublished
  <2>2. server # None => InForce(staying)
    BY <1>1, <1>4 DEF LeasesInv
  <2>. HIDE DEF staying
  <2>. QED BY <1>1, <2>1, <2>2 DEF PublishInv
<1>5. CASE ~(Dp!Leases(publish') > 0 \/ staying # <<>> \/ closing # None)
  <2>1. /\ server' = None /\ closing' = server /\ bound' = bound \ {server} /\ published' = staying
    BY <1>5 DEF Dp!ReleaseIfIdle, Dp!StillPublished
  <2>2. Unleased(publish')
    BY <1>2, <1>5
  <2>3. staying = <<>>
    BY <1>5
  <2>. HIDE DEF staying
  <2>4. Reachable(published', bound') /\ published' \in Seq(Grants)
    BY <2>1, <2>3 DEF Reachable
  <2>5. LeasesInv(publish', binding', server', closing')
    BY <2>1, <2>2 DEF LeasesInv, Unleased
  <2>. QED BY <2>1, <2>4, <2>5 DEF PublishInv
<1>. QED BY <1>3, <1>4, <1>5

(* Positions behind the one that is removed.                                *)
LEMMA PastOne ==
  ASSUME NEW k, NEW x, NEW y, NEW n, NEW i,
         x = i - 1 /\ y = n - i /\ i \in 1 .. n /\ n \in Nat /\ k \in 1 .. x + y /\ k > x
  PROVE  k - x \in 1 .. n - i /\ k - x + i \in 1 .. n
<1>1. x \in Nat /\ y \in Nat
  OBVIOUS
<1>2. k \in Nat /\ k <= x + y
  BY <1>1
<1>3. k - x \in Nat /\ 1 <= k - x /\ k - x <= n - i
  BY <1>1, <1>2
<1>. QED BY <1>1, <1>3

(* Nothing new appears when a grant is removed. *)
LEMMA RemoveAtKeeps ==
  ASSUME NEW gs, gs \in Seq(Grants), NEW i \in DOMAIN gs
  PROVE  /\ Dp!RemoveAt(gs, i) \in Seq(Grants)
         /\ \A k \in DOMAIN Dp!RemoveAt(gs, i) : \E j \in DOMAIN gs : Dp!RemoveAt(gs, i)[k] = gs[j]
<1>. DEFINE a == SubSeq(gs, 1, i - 1)
            b == SubSeq(gs, i + 1, Len(gs))
            h == Dp!RemoveAt(gs, i)
<1>1. i \in 1 .. Len(gs) /\ Len(gs) \in Nat
  OBVIOUS
<1>2. /\ a \in Seq(Grants) /\ Len(a) = i - 1 /\ \A k \in 1 .. i - 1 : a[k] = gs[k]
  BY <1>1
<1>3. /\ b \in Seq(Grants) /\ Len(b) = Len(gs) - i /\ \A k \in 1 .. Len(gs) - i : b[k] = gs[k + i]
  BY <1>1
<1>4. h = a \o b
  BY DEF Dp!RemoveAt
<1>. HIDE DEF a, b, h
<1>5. h \in Seq(Grants) /\ Len(h) = Len(a) + Len(b) /\ DOMAIN h = 1 .. Len(h)
  <2>1. a \in Seq(Grants) /\ b \in Seq(Grants)
    BY <1>2, <1>3
  <2>2. a \o b \in Seq(Grants) /\ Len(a \o b) = Len(a) + Len(b)
    BY <2>1
  <2>. QED BY <1>4, <2>2
<1>6. ASSUME NEW k \in DOMAIN h PROVE \E j \in DOMAIN gs : h[k] = gs[j]
  <2>0. k \in 1 .. Len(a) + Len(b)
    BY <1>5
  <2>1. CASE k <= Len(a)
    <3>1. h[k] = a[k] /\ k \in 1 .. i - 1 /\ k \in DOMAIN gs
      BY <1>1, <1>2, <1>3, <1>4, <2>0, <2>1
    <3>. QED BY <1>2, <3>1
  <2>2. CASE k > Len(a)
    <3>1. h[k] = b[k - Len(a)]
      BY <1>2, <1>3, <1>4, <2>0, <2>2
    <3>2. /\ Len(a) = i - 1 /\ Len(b) = Len(gs) - i /\ i \in 1 .. Len(gs) /\ Len(gs) \in Nat
          /\ k \in 1 .. Len(a) + Len(b) /\ k > Len(a)
      BY <1>1, <1>2, <1>3, <2>0, <2>2
    <3>3. k - Len(a) \in 1 .. Len(gs) - i /\ k - Len(a) + i \in 1 .. Len(gs)
      BY ONLY <3>2, PastOne
    <3>4. h[k] = gs[k - Len(a) + i]
      BY <1>3, <3>1, <3>3
    <3>5. 1 .. Len(gs) = DOMAIN gs
      OBVIOUS
    <3>. HIDE DEF a
    <3>. QED BY ONLY <3>3, <3>4, <3>5
  <2>. QED BY <1>2, <2>0, <2>1, <2>2
<1>. QED BY <1>5, <1>6 DEF h

(* A publish that mints at once, joins a bind, waits or binds. *)
LEMMA PublishStarts ==
  ASSUME PublishInv, NEW d \in Devices, Dp!PublishAtOnce(d) \/ Dp!Publish(d)
  PROVE  PublishInv'
<1>0. d \notin {"none", "waiting", "binding"} /\ \A e \in Devices : e # "none" /\ e # None
  BY PublishersAssumption DEF PublishersAssumption, None
<1>1. CASE Dp!PublishAtOnce(d)
  <2>1. /\ published' = Dp!Mint(published, d, server) /\ server \in Ports
        /\ UNCHANGED <<publish, binding, server, closing, bound>>
    BY <1>1 DEF Dp!PublishAtOnce, PublishInv
  <2>2. Minted(published, published', server)
    BY <2>1, MintAdds DEF PublishInv
  <2>3. published' \in Seq(Grants) /\ InForce(published') /\ Reachable(published', bound)
    <3>1. server \in bound
      BY <2>1, PublishersAssumption DEF PublishInv, PublishersAssumption, None
    <3>. QED BY <2>2, <3>1 DEF Minted, InForce, Reachable, PublishInv
  <2>. QED BY <2>1, <2>3 DEF PublishInv
<1>2. CASE Dp!Publish(d)
  <2>1. /\ publish[d] = "none" /\ UNCHANGED <<server, closing, bound, published, lapsed>> /\ server = None
        /\ \/ binding # None /\ publish' = [publish EXCEPT ![d] = binding] /\ UNCHANGED binding
           \/ binding = None /\ closing # None /\ publish' = [publish EXCEPT ![d] = "waiting"] /\ UNCHANGED binding
           \/ binding = None /\ closing = None /\ publish' = [publish EXCEPT ![d] = "binding"] /\ binding' = d
    BY <1>2 DEF Dp!Publish
  <2>2. LeasesInv(publish', binding', server, closing)
    BY <1>0, <2>1 DEF PublishInv, LeasesInv
  <2>. QED BY <2>1, <2>2 DEF PublishInv
<1>. QED BY <1>1, <1>2

(* The end of a bind, with or without a port. *)
LEMMA BindEnds ==
  ASSUME PublishInv, NEW d \in Devices, Dp!Bound(d) \/ Dp!BindFailed(d)
  PROVE  PublishInv'
<1>. DEFINE who == Dp!Settled(d)
<1>0. /\ who \in SUBSET Devices /\ who # {} /\ publish[d] = "binding" /\ binding' = None
      /\ publish' = [e \in Devices |-> IF e \in who THEN "none" ELSE publish[e]]
  BY DEF Dp!Settled, Dp!Bound, Dp!BindFailed
<1>1. closing = None /\ LeasesInv(publish', binding', server, closing)
  BY <1>0 DEF PublishInv, LeasesInv
<1>2. CASE Dp!Bound(d)
  <2>1. PICK port \in Ports : server' = port /\ bound' = bound \cup {port} /\ Dp!MintAll(who, port)
    BY <1>2 DEF Dp!Bound
  <2>2. UNCHANGED closing
    BY <1>2 DEF Dp!Bound
  <2>3. Minted(published, published', port)
    BY <1>0, <2>1, MintAllAdds DEF PublishInv
  <2>4. published' \in Seq(Grants) /\ InForce(published') /\ Reachable(published', bound')
    BY <2>1, <2>3 DEF Minted, InForce, Reachable, PublishInv
  <2>5. LeasesInv(publish', binding', server', closing')
    BY <1>1, <2>2 DEF LeasesInv
  <2>. QED BY <2>1, <2>4, <2>5 DEF PublishInv
<1>3. CASE Dp!BindFailed(d)
  <2>1. Dp!ReleaseIfIdle(publish', published, d)
    BY <1>3 DEF Dp!BindFailed, Dp!LeaseEnds
  <2>. QED BY <1>1, <2>1, ReleaseKept DEF PublishInv
<1>. QED BY <1>2, <1>3

(* Unpublishing and listing try to release the listener. *)
LEMMA ReleaseIsTried ==
  ASSUME PublishInv, NEW d \in Devices, Dp!Unpublish(d) \/ Dp!ListGrants(d)
  PROVE  PublishInv'
<1>0. UNCHANGED <<publish, binding>>
  BY DEF Dp!Unpublish, Dp!ListGrants
<1>1. \E gs : gs \in Seq(Grants) /\ Reachable(gs, bound) /\ Dp!ReleaseIfIdle(publish, gs, d)
  <2>1. CASE Dp!Unpublish(d)
    <3>1. PICK i \in DOMAIN published :
            Dp!ReleaseIfIdle(publish, IF published[i].owner = d THEN Dp!RemoveAt(published, i) ELSE published, d)
      BY <2>1 DEF Dp!Unpublish
    <3>2. /\ Dp!RemoveAt(published, i) \in Seq(Grants)
          /\ \A k \in DOMAIN Dp!RemoveAt(published, i) :
               \E j \in DOMAIN published : Dp!RemoveAt(published, i)[k] = published[j]
      BY RemoveAtKeeps DEF PublishInv
    <3>3. Reachable(Dp!RemoveAt(published, i), bound)
      BY <3>2 DEF Reachable, PublishInv
    <3>4. CASE published[i].owner = d
      <4>1. Dp!ReleaseIfIdle(publish, Dp!RemoveAt(published, i), d)
        BY <3>1, <3>4
      <4>. QED BY <3>2, <3>3, <4>1
    <3>5. CASE published[i].owner # d
      <4>1. Dp!ReleaseIfIdle(publish, published, d)
        BY <3>1, <3>5
      <4>. QED BY <4>1 DEF PublishInv
    <3>. QED BY <3>4, <3>5
  <2>2. CASE Dp!ListGrants(d)
    <3>1. Dp!Live(published) \in Seq(Grants) /\ Reachable(Dp!Live(published), bound)
      BY LiveIsInForce DEF PublishInv
    <3>2. Dp!ReleaseIfIdle(publish, Dp!Live(published), d)
      BY <2>2 DEF Dp!ListGrants
    <3>. QED BY <3>1, <3>2
  <2>. QED BY <2>1, <2>2
<1>2. PICK gs : gs \in Seq(Grants) /\ Reachable(gs, bound) /\ Dp!ReleaseIfIdle(publish, gs, d)
  BY <1>1
<1>3. Dp!ReleaseIfIdle(publish', gs, d) /\ LeasesInv(publish', binding', server, closing)
  BY <1>0, <1>2 DEF PublishInv
<1>. QED BY <1>2, <1>3, ReleaseKept DEF PublishInv

(* A close that ends, a fetch and an expiry. *)
LEMMA GrantsAge ==
  ASSUME PublishInv, Dp!CloseDone \/ Dp!Fetch \/ Dp!GrantExpires
  PROVE  PublishInv'
<1>0. \A e \in Devices : e # None
  BY PublishersAssumption DEF PublishersAssumption, None
<1>1. CASE Dp!CloseDone
  <2>. DEFINE waiting == {d \in Devices : publish[d] = "waiting"}
  <2>1. /\ closing # None /\ closing' = None /\ UNCHANGED <<server, bound, published, lapsed>>
        /\ publish' = [d \in Devices |-> IF d \in waiting THEN "binding" ELSE publish[d]]
        /\ IF waiting = {} THEN UNCHANGED binding ELSE binding' \in waiting
    BY <1>1 DEF Dp!CloseDone
  <2>2. server = None /\ binding = None
    BY <2>1 DEF PublishInv, LeasesInv
  <2>3. LeasesInv(publish', binding', server', closing')
    BY <2>1, <2>2 DEF PublishInv, LeasesInv
  <2>. QED BY <2>1, <2>2, <2>3 DEF PublishInv
<1>2. CASE Dp!Fetch
  <2>1. UNCHANGED <<publish, binding, server, closing, bound>>
    BY <1>2 DEF Dp!Fetch
  <2>2. PICK i \in DOMAIN published :
          /\ published' = IF published[i].old THEN Dp!RemoveAt(published, i)
                          ELSE Append(Dp!RemoveAt(published, i), published[i])
          /\ lapsed' = (lapsed \/ published[i].old)
    BY <1>2 DEF Dp!Fetch
  <2>. DEFINE rest == Dp!RemoveAt(published, i)
              g == published[i]
  <2>3. /\ rest \in Seq(Grants) /\ \A k \in DOMAIN rest : \E j \in DOMAIN published : rest[k] = published[j]
    BY RemoveAtKeeps DEF PublishInv
  <2>4. g \in Grants /\ (~g.old => g.port \in bound)
    BY DEF PublishInv, Reachable
  <2>5. published' = IF g.old THEN rest ELSE Append(rest, g)
    BY <2>2
  <2>6. lapsed' = (lapsed \/ g.old)
    BY <2>2
  <2>7. Reachable(rest, bound)
    BY <2>3 DEF PublishInv, Reachable
  <2>. HIDE DEF rest, g
  <2>8. CASE g.old
    BY <2>1, <2>3, <2>5, <2>6, <2>7, <2>8 DEF PublishInv
  <2>9. CASE ~g.old
    <3>1. published' = Append(rest, g)
      BY <2>5, <2>9
    <3>2. /\ published' \in Seq(Grants) /\ Len(rest) \in Nat /\ DOMAIN published' = 1 .. Len(rest) + 1
          /\ DOMAIN rest = 1 .. Len(rest)
          /\ \A k \in 1 .. Len(rest) : published'[k] = rest[k]
          /\ published'[Len(rest) + 1] = g
      BY <2>3, <2>4, <3>1
    <3>3. InForce(published')
      <4>1. Len(rest) + 1 \in DOMAIN published'
        BY <3>2
      <4>. QED BY <2>9, <3>2, <4>1 DEF InForce
    <3>4. Reachable(published', bound)
      <4>. SUFFICES ASSUME NEW k \in DOMAIN published', ~published'[k].old PROVE published'[k].port \in bound
        BY DEF Reachable
      <4>1. CASE k = Len(rest) + 1
        BY <2>4, <2>9, <3>2, <4>1
      <4>2. CASE k # Len(rest) + 1
        <5>1. k \in DOMAIN rest /\ published'[k] = rest[k]
          BY <3>2, <4>2
        <5>. QED BY <2>7, <5>1 DEF Reachable
      <4>. QED BY <4>1, <4>2
    <3>. QED BY <2>1, <3>2, <3>3, <3>4 DEF PublishInv
  <2>. QED BY <2>8, <2>9
<1>3. CASE Dp!GrantExpires
  <2>1. UNCHANGED <<publish, binding, server, closing, bound>> /\ lapsed'
    BY <1>3 DEF Dp!GrantExpires
  <2>2. PICK i \in DOMAIN published : published' = [published EXCEPT ![i].old = TRUE]
    BY <1>3 DEF Dp!GrantExpires
  <2>3. published \in Seq(Grants) /\ Len(published) \in Nat /\ DOMAIN published = 1 .. Len(published)
    BY DEF PublishInv
  <2>. DEFINE h == [published[i] EXCEPT !.old = TRUE]
  <2>4. published[i] \in Grants
    BY <2>3
  <2>5. h \in Grants /\ h.old
    BY <2>4 DEF Grants
  <2>6. published' = [published EXCEPT ![i] = h]
    BY <2>2
  <2>. HIDE DEF h
  <2>7. /\ published' \in Seq(Grants) /\ DOMAIN published' = DOMAIN published
        /\ \A k \in DOMAIN published : published'[k] = IF k = i THEN h ELSE published[k]
    BY <2>3, <2>5, <2>6
  <2>8. Reachable(published', bound)
    BY <2>5, <2>7 DEF PublishInv, Reachable
  <2>. QED BY <2>1, <2>7, <2>8 DEF PublishInv
<1>. QED BY <1>1, <1>2, <1>3

(* The invariant survives every step of every part. *)
LEMMA PublishKept == PublishInv /\ [PartsNext]_allVars => PublishInv'
<1>. SUFFICES ASSUME PublishInv, [PartsNext]_allVars PROVE PublishInv'
  OBVIOUS
<1>1. CASE UNCHANGED dpVars
  BY <1>1 DEF PublishInv, dpVars
<1>2. CASE Dp!Next
  BY <1>2, PublishStarts, BindEnds, ReleaseIsTried, GrantsAge DEF Dp!Next
<1>. QED BY <1>1, <1>2 DEF PartsNext, allVars

(* What listens is the listener in use or leaked, and until two publishes   *)
(* share a close there is one bind at a time, where no listener is.         *)
LeakInv ==
  /\ bound \subseteq Ports /\ bound \subseteq leaked \cup {server}
  /\ ~shared => /\ leaked = {}
                /\ \A d \in Devices : publish[d] = "binding" => binding = d /\ server = None

LEMMA NoPortIsNone == None \notin Ports /\ \A d \in Devices : d \notin {"none", "waiting", "binding"}
BY PublishersAssumption DEF PublishersAssumption, None

(* A release takes the listener in use away, or nothing. *)
LEMMA ReleaseLeaksNothing ==
  ASSUME LeakInv, NEW p, NEW gs, NEW d, Dp!ReleaseIfIdle(p, gs, d), UNCHANGED <<shared, leaked>>,
         \A e \in Devices : publish'[e] = "binding" => publish[e] = "binding" /\ (shared \/ binding' = e)
  PROVE  LeakInv'
<1>1. \/ UNCHANGED <<server, bound>>
      \/ server' = None /\ bound' = bound \ {server}
  BY DEF Dp!ReleaseIfIdle
<1>2. bound' \subseteq Ports /\ bound' \subseteq leaked' \cup {server'}
  BY <1>1 DEF LeakInv
<1>3. server = None => server' = None
  BY <1>1
<1>. QED BY <1>2, <1>3 DEF LeakInv

(* A publish, a bind that ends and a close that ends. *)
LEMMA BindsLeakKept ==
  ASSUME PublishInv, LeakInv, NEW d \in Devices,
         Dp!PublishAtOnce(d) \/ Dp!Publish(d) \/ Dp!Bound(d) \/ Dp!BindFailed(d)
  PROVE  LeakInv'
<1>0. publish \in [Devices -> Devices \cup {"none", "waiting", "binding"}]
  BY DEF PublishInv, LeasesInv
<1>1. CASE Dp!PublishAtOnce(d)
  BY <1>1 DEF Dp!PublishAtOnce, LeakInv
<1>2. CASE Dp!Publish(d)
  <2>1. UNCHANGED <<bound, server, leaked, shared>> /\ server = None
    BY <1>2 DEF Dp!Publish
  <2>2. ASSUME ~shared, NEW e \in Devices, publish'[e] = "binding" PROVE binding' = e
    <3>1. \/ binding # None /\ publish' = [publish EXCEPT ![d] = binding] /\ UNCHANGED binding
          \/ publish' = [publish EXCEPT ![d] = "waiting"] /\ UNCHANGED binding
          \/ binding = None /\ publish' = [publish EXCEPT ![d] = "binding"] /\ binding' = d
      BY <1>2 DEF Dp!Publish
    <3>2. binding # None => binding \in Devices /\ binding # "binding"
      BY NoPortIsNone DEF PublishInv, LeasesInv
    <3>3. \A f \in Devices : publish[f] = "binding" => binding = f /\ f # None
      BY <2>2, PublishersAssumption DEF LeakInv, PublishersAssumption, None
    <3>. QED BY <1>0, <2>2, <3>1, <3>2, <3>3
  <2>. QED BY <2>1, <2>2 DEF LeakInv
<1>. DEFINE who == Dp!Settled(d)
<1>3. CASE Dp!Bound(d)
  <2>1. PICK port \in Ports : server' = port /\ bound' = bound \cup {port}
    BY <1>3 DEF Dp!Bound
  <2>2. /\ publish[d] = "binding" /\ leaked' = leaked \cup ({server} \ {None}) /\ shared' = shared
        /\ publish' = [e \in Devices |-> IF e \in who THEN "none" ELSE publish[e]] /\ d \in who
    BY <1>3 DEF Dp!Bound, Dp!Settled
  <2>3. bound' \subseteq Ports /\ bound' \subseteq leaked' \cup {server'}
    BY <2>1, <2>2, NoPortIsNone DEF LeakInv
  <2>4. ~shared => leaked' = {} /\ \A e \in Devices : publish'[e] # "binding"
    <3>. SUFFICES ASSUME ~shared PROVE leaked' = {} /\ \A e \in Devices : publish'[e] # "binding"
      OBVIOUS
    <3>1. leaked = {} /\ server = None /\ \A e \in Devices : publish[e] = "binding" => e = d
      BY <2>2 DEF LeakInv
    <3>. HIDE DEF who
    <3>2. leaked' = {}
      BY <2>2, <3>1
    <3>. QED BY <2>2, <3>1, <3>2
  <2>. QED BY <2>2, <2>3, <2>4 DEF LeakInv
<1>4. CASE Dp!BindFailed(d)
  <2>1. /\ publish[d] = "binding" /\ UNCHANGED <<shared, leaked>> /\ Dp!ReleaseIfIdle(publish', published, d)
        /\ publish' = [e \in Devices |-> IF e \in who THEN "none" ELSE publish[e]] /\ d \in who
    BY <1>4 DEF Dp!BindFailed, Dp!Settled, Dp!LeaseEnds
  <2>. HIDE DEF who
  <2>2. ASSUME NEW e \in Devices, publish'[e] = "binding" PROVE publish[e] = "binding" /\ (shared \/ binding' = e)
    <3>1. publish[e] = "binding" /\ e # d
      BY <2>1, <2>2
    <3>. QED BY <2>1, <3>1 DEF LeakInv
  <2>. QED BY <2>1, <2>2, ReleaseLeaksNothing
<1>. QED BY <1>1, <1>2, <1>3, <1>4

LEMMA OthersLeakNothing ==
  ASSUME PublishInv, LeakInv,
         \/ \E d \in Devices : Dp!Unpublish(d) \/ Dp!ListGrants(d)
         \/ Dp!CloseDone \/ Dp!Fetch \/ Dp!GrantExpires
  PROVE  LeakInv'
<1>1. ASSUME NEW d \in Devices, Dp!Unpublish(d) \/ Dp!ListGrants(d) PROVE LeakInv'
  <2>1. UNCHANGED <<publish, binding, shared, leaked>> /\ \E gs : Dp!ReleaseIfIdle(publish, gs, d)
    BY <1>1 DEF Dp!Unpublish, Dp!ListGrants
  <2>2. \A e \in Devices : publish'[e] = "binding" => publish[e] = "binding" /\ (shared \/ binding' = e)
    BY <2>1 DEF LeakInv
  <2>. QED BY <2>1, <2>2, ReleaseLeaksNothing
<1>2. CASE Dp!CloseDone
  <2>. DEFINE waiting == {d \in Devices : publish[d] = "waiting"}
  <2>1. /\ closing # None /\ UNCHANGED <<server, bound, leaked>>
        /\ publish' = [d \in Devices |-> IF d \in waiting THEN "binding" ELSE publish[d]]
        /\ IF waiting = {} THEN UNCHANGED binding ELSE binding' \in waiting
        /\ IF \E d, e \in waiting : d # e THEN shared' = TRUE ELSE UNCHANGED shared
    BY <1>2 DEF Dp!CloseDone
  <2>2. server = None /\ \A d \in Devices : publish[d] # "binding"
    BY <2>1 DEF PublishInv, LeasesInv
  <2>3. ~shared' => ~shared /\ \A d, e \in waiting : d = e
    BY <2>1
  <2>4. ASSUME ~shared', NEW d \in Devices, publish'[d] = "binding" PROVE binding' = d
    <3>1. d \in waiting
      BY <2>1, <2>2, <2>4
    <3>2. binding' \in waiting
      BY <2>1, <3>1
    <3>. HIDE DEF waiting
    <3>. QED BY <2>3, <2>4, <3>1, <3>2
  <2>. HIDE DEF waiting
  <2>. QED BY <2>1, <2>2, <2>3, <2>4 DEF LeakInv
<1>3. CASE Dp!Fetch \/ Dp!GrantExpires
  BY <1>3 DEF Dp!Fetch, Dp!GrantExpires, LeakInv
<1>. QED BY <1>1, <1>2, <1>3

LEMMA LeakKept == PublishInv /\ LeakInv /\ [PartsNext]_allVars => LeakInv'
<1>. SUFFICES ASSUME PublishInv, LeakInv, [PartsNext]_allVars PROVE LeakInv'
  OBVIOUS
<1>1. CASE UNCHANGED dpVars
  BY <1>1 DEF LeakInv, dpVars
<1>2. CASE Dp!Next
  BY <1>2, BindsLeakKept, OthersLeakNothing DEF Dp!Next
<1>. QED BY <1>1, <1>2 DEF PartsNext, allVars

(* A share that has not expired answers; and what listens is the listener   *)
(* in use, which goes once nothing is published, or was leaked when two     *)
(* publishes waited for one close and both bound. Whatever publishes, joins *)
(* a bind, fails, releases and expires, for any devices, ports and number   *)
(* of grants (docs/listener.ts).                                            *)
THEOREM PublishingIsAlwaysSafe == PartsSpec => []PublishingSafety
<1>1. PartsInit => PublishInv /\ LeakInv
  BY DEF PartsInit, Dp!Init, PublishInv, LeasesInv, LeakInv, Reachable, None
<1>2. PublishInv /\ LeakInv => PublishingSafety
  <2>. SUFFICES ASSUME PublishInv, LeakInv
                PROVE  /\ Dp!PublishedIsReachable /\ Dp!OneListener
                       /\ Dp!ReleasedOnceUnpublished /\ Dp!LeaksHaveACause
    BY DEF PublishingSafety, Dp!PublishingSafety
  <2>1. Dp!PublishedIsReachable
    BY DEF PublishInv, Reachable, Dp!PublishedIsReachable
  <2>2. Dp!ReleasedOnceUnpublished
    <3>. SUFFICES ASSUME Dp!Leases(publish) = 0, ~lapsed, Dp!Live(published) = <<>>
                  PROVE  bound \subseteq leaked
      BY DEF Dp!ReleasedOnceUnpublished
    <3>1. Unleased(publish) /\ ~InForce(published)
      BY LeasesCounted, LiveIsInForce DEF PublishInv
    <3>2. server = None
      BY <3>1 DEF PublishInv
    <3>. QED BY <3>2, NoPortIsNone DEF LeakInv
  <2>3. Dp!OneListener /\ Dp!LeaksHaveACause
    BY DEF LeakInv, Dp!OneListener, Dp!LeaksHaveACause
  <2>. QED BY <2>1, <2>2, <2>3
<1>3. PublishInv /\ LeakInv /\ [PartsNext]_allVars => (PublishInv /\ LeakInv)'
  BY PublishKept, LeakKept
<1>. QED BY <1>1, <1>2, <1>3, PTL DEF PartsSpec, allVars
-----------------------------------------------------------------------------
(* Documents: one index *)

(* A file that is below a default directory is strictly below it, and is    *)
(* excluded once the directory, or anything on the way, is.                 *)
LEMMA BelowADirectory ==
  ASSUME NEW p \in Paths, NEW dir \in DefaultDocDirs, Ds!IsPrefix(dir, p), Ds!Last(p) \in DocNames
  PROVE  /\ Len(p) \in Nat /\ Len(dir) \in 1 .. Len(p) /\ Len(dir) < Len(p)
         /\ SubSeq(p, 1, Len(dir)) = dir
<1>1. p \in Seq(STRING) /\ dir \in Seq(STRING) /\ p # <<>> /\ dir # <<>>
  BY DocumentsAssumption DEF DocumentsAssumption
<1>2. Len(dir) <= Len(p) /\ SubSeq(dir, 1, Len(dir)) = SubSeq(p, 1, Len(dir))
  BY DEF Ds!IsPrefix
<1>3. Len(p) \in Nat /\ Len(dir) \in Nat /\ Len(dir) >= 1
  BY <1>1
<1>4. SubSeq(dir, 1, Len(dir)) = dir
  BY <1>1
<1>5. Len(dir) # Len(p)
  <2>1. SUFFICES ASSUME Len(dir) = Len(p) PROVE FALSE
    OBVIOUS
  <2>2. SubSeq(p, 1, Len(p)) = p
    BY <1>1
  <2>3. dir = p
    BY <1>2, <1>4, <2>1, <2>2
  <2>4. dir[Len(dir)] \in DocNames
    BY <2>3 DEF Ds!Last
  <2>. QED BY <2>4, DocumentsAssumption DEF DocumentsAssumption
<1>. QED BY <1>2, <1>3, <1>4, <1>5

(* What may be served is a document, whole, not a link out of the worktree, *)
(* and has no dot segment or excluded directory on its way.                 *)
LEMMA ServedPath ==
  ASSUME NEW p, Ds!ResolveDocPath(p) = "ok"
  PROVE  /\ p \in files /\ p \notin outside /\ Ds!Last(p) \in DocNames
         /\ Ds!ToSet(p) \cap DotNames = {} /\ Ds!ToSet(p) \cap ExcludedDirs = {}
BY DEF Ds!ResolveDocPath

(* A document that git lists is walked to, by name or in its place.         *)
LEMMA WalkReachesIt ==
  ASSUME NEW p \in Paths, NEW dir \in DefaultDocDirs, Ds!IsPrefix(dir, p), Ds!ResolveDocPath(p) = "ok",
         ~Ds!IsExcluded(p)
  PROVE  /\ Ds!Descends(dir, p, {}) /\ Ds!Descends(dir, p, exclude) /\ dir \notin exclude
<1>1. /\ Len(p) \in Nat /\ Len(dir) \in 1 .. Len(p) /\ Len(dir) < Len(p)
      /\ SubSeq(p, 1, Len(dir)) = dir
  BY BelowADirectory, ServedPath
<1>2. \A n \in 1 .. Len(p) : SubSeq(p, 1, n) \notin exclude
  BY DEF Ds!IsExcluded
<1>3. dir \notin exclude
  BY <1>1, <1>2
<1>4. ASSUME NEW n \in Len(dir) + 1 .. Len(p) - 1 PROVE p[n] \notin DotNames \cup ExcludedDirs
  <2>1. n \in 1 .. Len(p)
    BY <1>1
  <2>2. p \in Seq(STRING)
    BY DocumentsAssumption DEF DocumentsAssumption
  <2>3. p[n] \in Ds!ToSet(p)
    BY <2>1, <2>2 DEF Ds!ToSet
  <2>. QED BY <2>3, ServedPath
<1>5. \A n \in Len(dir) + 1 .. Len(p) : n \in 1 .. Len(p)
  BY <1>1
<1>. QED BY <1>1, <1>2, <1>3, <1>4, <1>5 DEF Ds!Descends

LEMMA OneIndex ==
  ASSUME files \subseteq Paths
  PROVE  Ds!WalkAgreesWithGit
<1>. DEFINE common == {p \in files \ (ignored \cup inside) :
                         \E dir \in DefaultDocDirs : Ds!IsPrefix(dir, p)}
            index(named, answers) == Ds!ScanWorktree(named, answers) \cap common
            served == {p \in common : ~Ds!IsExcluded(p) /\ Ds!ResolveDocPath(p) = "ok"}
<1>1. index(NoRoots, TRUE) = served
  BY ServedPath DEF Ds!ScanWorktree, Ds!DocCandidates, Ds!GitDocPaths
<1>2. ASSUME NEW p \in served PROVE p \in index(NoRoots, FALSE) /\ p \in index(DefaultDocDirs, TRUE)
  <2>1. PICK dir \in DefaultDocDirs : Ds!IsPrefix(dir, p)
    OBVIOUS
  <2>2. /\ Ds!Descends(dir, p, {}) /\ Ds!Descends(dir, p, exclude) /\ dir \notin exclude
    BY <1>2, <2>1, WalkReachesIt
  <2>3. p \in files \ (inside \cup outside) /\ Ds!Last(p) \in DocNames
    BY <1>2, ServedPath
  <2>4. p \in Ds!WalkRoots(DefaultDocDirs, TRUE, {}) /\ p \in Ds!WalkRoots(DefaultDocDirs, FALSE, exclude)
    BY <2>2, <2>3 DEF Ds!WalkRoots
  <2>5. p \in Ds!GitDocPaths
    BY <2>3 DEF Ds!GitDocPaths
  <2>. QED BY <1>2, <2>4, <2>5 DEF Ds!ScanWorktree, Ds!DocCandidates
<1>3. index(NoRoots, FALSE) \subseteq served /\ index(DefaultDocDirs, TRUE) \subseteq served
  BY DEF Ds!ScanWorktree
<1>4. index(NoRoots, FALSE) = served /\ index(DefaultDocDirs, TRUE) = served
  BY <1>2, <1>3
<1>5. index(NoRoots, TRUE) = index(NoRoots, FALSE) /\ index(NoRoots, TRUE) = index(DefaultDocDirs, TRUE)
  BY <1>1, <1>4
<1>. QED BY <1>5 DEF Ds!WalkAgreesWithGit

-----------------------------------------------------------------------------
(* Ports: whose they are *)

ProcessTable == parent \in [Pids -> Pids \cup {0}] /\ listeners \in Seq(Pids)

(* The pids from a process upwards; 0 once there is none.                   *)
Up(start) == CHOOSE up : up = [d \in 0 .. MaxAncestorDepth |->
               IF d = 0 THEN start ELSE IF up[d - 1] \in Pids THEN parent[up[d - 1]] ELSE 0]

LEMMA UpExists ==
  ASSUME ProcessTable, NEW start \in Pids
  PROVE  /\ Up(start) \in [0 .. MaxAncestorDepth -> Pids \cup {0}] /\ Up(start)[0] = start
         /\ \A d \in 1 .. MaxAncestorDepth :
              Up(start)[d] = IF Up(start)[d - 1] \in Pids THEN parent[Up(start)[d - 1]] ELSE 0
<1>. DEFINE V == Pids \cup {0}
            N == MaxAncestorDepth
            Body(f, d) == IF d = 0 THEN start ELSE IF f[d - 1] \in Pids THEN parent[f[d - 1]] ELSE 0
            G == [p \in V \X (1 .. N) |-> IF p[1] \in Pids THEN parent[p[1]] ELSE 0]
<1>1. N \in Nat /\ start \in V /\ G \in [V \X (1 .. N) -> V]
  BY ProcessesAssumption DEF ProcessesAssumption, ProcessTable
<1>2. \A v \in V, n \in 1 .. N : G[<<v, n>>] = IF v \in Pids THEN parent[v] ELSE 0
  OBVIOUS
<1>. HIDE DEF G, V, N
<1>3. PICK f : IsRun(f, G, V, start, N)
  BY <1>1, RunExists DEF Computes
<1>4. ASSUME NEW d \in 0 .. N PROVE f[d] = Body(f, d)
  <2>1. CASE d = 0
    BY <1>3, <2>1 DEF IsRun
  <2>2. CASE d # 0
    <3>1. d \in 1 .. N /\ d - 1 \in 0 .. N
      BY <1>1, <2>2
    <3>2. f[d - 1] \in V
      BY <1>3, <3>1 DEF IsRun
    <3>. QED BY <1>2, <1>3, <2>2, <3>1, <3>2 DEF IsRun
  <2>. QED BY <2>1, <2>2
<1>5. f = [d \in 0 .. N |-> Body(f, d)]
  BY <1>3, <1>4 DEF IsRun
<1>6. Up(start) = [d \in 0 .. N |-> Body(Up(start), d)]
  BY <1>5 DEF Up, N
<1>. DEFINE g == Up(start)
<1>. HIDE DEF g
<1>7. g = [d \in 0 .. N |-> Body(g, d)]
  BY <1>6 DEF g
<1>8. \A d \in 0 .. N : g[d] = Body(g, d)
  BY <1>7
<1>9. g[0] = start /\ \A d \in 1 .. N : g[d] = IF g[d - 1] \in Pids THEN parent[g[d - 1]] ELSE 0
  <2>1. 0 \in 0 .. N /\ \A d \in 1 .. N : d \in 0 .. N /\ d # 0
    BY <1>1
  <2>. QED BY <1>8, <2>1
<1>10. ASSUME NEW d \in 0 .. N PROVE g[d] \in V
  <2>1. CASE d = 0
    BY <1>1, <1>9, <2>1
  <2>2. CASE d # 0
    <3>1. d \in 1 .. N
      BY <1>1, <2>2
    <3>. QED BY <1>9, <3>1 DEF ProcessTable, V
  <2>. QED BY <2>1, <2>2
<1>11. g \in [0 .. N -> V]
  BY <1>7, <1>10
<1>. QED BY <1>9, <1>11 DEF g, N, V

(* Where a walk stops: at a pid the scan has, at none, or back on itself.   *)
Stops(start, seen, d) == Up(start)[d] \in seen \cup {0} \/ \E e \in 0 .. d - 1 : Up(start)[e] = Up(start)[d]

(* A walk gives the pids below the first place where it stops.              *)
LEMMA WalkIsCut ==
  ASSUME ProcessTable, NEW start \in Pids, NEW seen
  PROVE  \E k \in 0 .. MaxAncestorDepth + 1 :
           /\ Pa!WalkAncestors(start, seen) = [i \in 1 .. k |-> Up(start)[i - 1]]
           /\ \A d \in 0 .. k - 1 : ~Stops(start, seen, d)
           /\ k <= MaxAncestorDepth => Stops(start, seen, k)
<1>. DEFINE N == MaxAncestorDepth
            T == {d \in Nat : d = N + 1 \/ (d \in 0 .. N /\ Stops(start, seen, d))}
            whole == {d \in 0 .. N : \A e \in 0 .. d : ~Stops(start, seen, e)}
<1>0. N \in Nat
  BY ProcessesAssumption DEF ProcessesAssumption
<1>1. PICK k \in T : \A d \in T : ~(d < k)
  <2>1. T \subseteq Nat /\ T # {}
    BY <1>0
  <2>. HIDE DEF T
  <2>. QED BY <2>1, NatMin
<1>2. k \in 0 .. N + 1 /\ (k <= N => Stops(start, seen, k))
  BY <1>0, <1>1
<1>3. ASSUME NEW d \in 0 .. k - 1 PROVE ~Stops(start, seen, d)
  <2>1. d \in Nat /\ d \in 0 .. N /\ d < k
    BY <1>0, <1>2
  <2>. QED BY <1>1, <2>1
<1>4. whole = 0 .. k - 1
  <2>1. ASSUME NEW d \in whole PROVE d \in 0 .. k - 1
    <3>1. d \in 0 .. N /\ ~(k \in 0 .. d /\ Stops(start, seen, k))
      OBVIOUS
    <3>. QED BY <1>0, <1>2, <3>1
  <2>2. ASSUME NEW d \in 0 .. k - 1 PROVE d \in whole
    <3>1. d \in 0 .. N /\ \A e \in 0 .. d : e \in 0 .. k - 1
      BY <1>0, <1>2
    <3>. QED BY <1>3, <3>1
  <2>. QED BY <2>1, <2>2
<1>5. Cardinality(whole) = k
  <2>1. 0 \in Int /\ k - 1 \in Int
    BY <1>2
  <2>2. Cardinality(0 .. k - 1) = IF 0 > k - 1 THEN 0 ELSE k - 1 - 0 + 1
    BY <2>1, FS_Interval
  <2>3. Cardinality(0 .. k - 1) = k
    BY <1>2, <2>2
  <2>. QED BY <1>4, <2>3
<1>6. Pa!WalkAncestors(start, seen) = [i \in 1 .. Cardinality(whole) |-> Up(start)[i - 1]]
  BY DEF Pa!WalkAncestors, Up, Stops, Pa!Cardinality, Cardinality
<1>. QED BY <1>2, <1>3, <1>5, <1>6

(* Pids whose parents are among them, as far as there are any.              *)
Upwards(C) == C \subseteq Pids /\ \A p \in C : parent[p] \in Pids => parent[p] \in C

(* A walk of a chain that ends adds what it takes to stay closed upwards.   *)
LEMMA WalkCloses ==
  ASSUME ProcessTable, NEW start \in Pids, NEW seen, Upwards(seen), Pa!ChainEnds(start)
  PROVE  LET now == seen \cup Pa!ToSet(Pa!WalkAncestors(start, seen)) IN Upwards(now) /\ start \in now
<1>. DEFINE N == MaxAncestorDepth
            up == Up(start)
            chain == Pa!WalkAncestors(start, seen)
            now == seen \cup Pa!ToSet(chain)
<1>0. N \in Nat /\ 0 \notin Pids
  BY ProcessesAssumption DEF ProcessesAssumption
<1>1. /\ up \in [0 .. N -> Pids \cup {0}] /\ up[0] = start
      /\ \A d \in 1 .. N : up[d] = IF up[d - 1] \in Pids THEN parent[up[d - 1]] ELSE 0
  BY UpExists
<1>2. PICK m \in 0 .. N + 1 :
        /\ Pa!WalkAncestors(start, {}) = [i \in 1 .. m |-> up[i - 1]]
        /\ m <= N => Stops(start, {}, m)
  BY WalkIsCut
<1>3. m <= N
  <2>1. Len([i \in 1 .. m |-> up[i - 1]]) = m
    BY <1>0
  <2>. QED BY <1>2, <2>1 DEF Pa!ChainEnds
<1>4. PICK k \in 0 .. N + 1 :
        /\ chain = [i \in 1 .. k |-> up[i - 1]]
        /\ \A d \in 0 .. k - 1 : ~Stops(start, seen, d)
        /\ k <= N => Stops(start, seen, k)
  BY WalkIsCut
<1>5. Stops(start, seen, m)
  BY <1>2, <1>3 DEF Stops
<1>6. k <= m /\ k <= N
  <2>1. ~(m \in 0 .. k - 1)
    BY <1>4, <1>5
  <2>. QED BY <1>0, <1>2, <1>3, <1>4, <2>1
<1>7. Pa!ToSet(chain) = {up[d] : d \in 0 .. k - 1}
  <2>1. Pa!ToSet(chain) = {up[i - 1] : i \in 1 .. k}
    BY <1>4 DEF Pa!ToSet
  <2>2. \A i \in 1 .. k : i - 1 \in 0 .. k - 1
    BY <1>0
  <2>3. \A d \in 0 .. k - 1 : d + 1 \in 1 .. k /\ (d + 1) - 1 = d
    BY <1>0
  <2>. QED BY <2>1, <2>2, <2>3
<1>8. \A d \in 0 .. k - 1 : up[d] \in Pids
  <2>1. \A d \in 0 .. k - 1 : d \in 0 .. N
    BY <1>0, <1>6
  <2>. QED BY <1>1, <1>4, <2>1 DEF Stops
<1>. HIDE DEF up, chain, N
<1>9. now \subseteq Pids
  BY <1>7, <1>8 DEF Upwards
<1>10. up[k] \in now \cup {0}
  <2>1. CASE up[k] \in seen \cup {0}
    BY <2>1
  <2>2. CASE \E e \in 0 .. k - 1 : up[e] = up[k]
    BY <1>7, <2>2
  <2>. QED BY <1>4, <1>6, <2>1, <2>2 DEF Stops, up
<1>11. ASSUME NEW p \in now, parent[p] \in Pids PROVE parent[p] \in now
  <2>1. CASE p \in seen
    BY <1>11, <2>1 DEF Upwards
  <2>2. CASE p \notin seen
    <3>1. PICK d \in 0 .. k - 1 : p = up[d]
      BY <1>7, <1>11, <2>2
    <3>2. d + 1 \in 1 .. N /\ (d + 1) - 1 = d
      BY <1>0, <1>6, <3>1
    <3>3. up[d + 1] = parent[p]
      BY <1>1, <1>8, <3>1, <3>2
    <3>4. CASE d + 1 \in 0 .. k - 1
      BY <1>7, <3>3, <3>4
    <3>5. CASE d + 1 = k
      BY <1>0, <1>10, <1>11, <3>3, <3>5
    <3>6. d + 1 \in 0 .. k - 1 \/ d + 1 = k
      BY <1>0, <3>1
    <3>. QED BY <3>4, <3>5, <3>6
  <2>. QED BY <2>1, <2>2
<1>12. start \in now
  <2>1. CASE k = 0
    BY <1>0, <1>1, <1>10, <2>1
  <2>2. CASE k # 0
    <3>1. 0 \in 0 .. k - 1
      BY <1>0, <2>2
    <3>. QED BY <1>1, <1>7, <3>1
  <2>. QED BY <2>1, <2>2
<1>13. Upwards(now) /\ start \in now
  BY <1>9, <1>11, <1>12 DEF Upwards
<1>. QED BY <1>13 DEF chain

(* All of a listener's chain is asked for, in whatever order they come.     *)
LEMMA AllAreAsked ==
  ASSUME ProcessTable, \A i \in DOMAIN listeners : Pa!ChainEnds(listeners[i])
  PROVE  Upwards(Pa!CwdPidSet) /\ \A i \in DOMAIN listeners : listeners[i] \in Pa!CwdPidSet
<1>. DEFINE N == Len(listeners)
            V == {C \in SUBSET Pids : Upwards(C)}
            With(seen, i) == seen \cup Pa!ToSet(Pa!WalkAncestors(listeners[i], seen))
            Body(f, i) == IF i = 0 THEN {} ELSE With(f[i - 1], i)
            asked == CHOOSE f : f = [i \in 0 .. N |-> Body(f, i)]
            G == [p \in V \X (1 .. N) |-> With(p[1], p[2])]
<1>0. N \in Nat /\ DOMAIN listeners = 1 .. N /\ \A i \in 1 .. N : listeners[i] \in Pids
  BY DEF ProcessTable
<1>1. ASSUME NEW v \in V, NEW i \in 1 .. N PROVE With(v, i) \in V /\ listeners[i] \in With(v, i)
  <2>1. Upwards(v) /\ listeners[i] \in Pids /\ Pa!ChainEnds(listeners[i])
    BY <1>0
  <2>2. Upwards(With(v, i)) /\ listeners[i] \in With(v, i)
    BY <2>1, WalkCloses
  <2>. QED BY <2>2 DEF Upwards
<1>2. Pa!CwdPidSet = asked[N]
  BY DEF Pa!CwdPidSet
<1>3. {} \in V
  BY DEF Upwards
<1>4. G \in [V \X (1 .. N) -> V] /\ \A v \in V, i \in 1 .. N : G[<<v, i>>] = With(v, i)
  BY <1>1
<1>. HIDE DEF G, V, N, With
<1>5. PICK f : IsRun(f, G, V, {}, N)
  BY <1>0, <1>3, <1>4, RunExists DEF Computes
<1>6. ASSUME NEW i \in 0 .. N PROVE f[i] = Body(f, i)
  <2>1. CASE i = 0
    BY <1>5, <2>1 DEF IsRun
  <2>2. CASE i # 0
    <3>1. i \in 1 .. N /\ i - 1 \in 0 .. N
      BY <1>0, <2>2
    <3>2. f[i - 1] \in V
      BY <1>5, <3>1 DEF IsRun
    <3>. QED BY <1>4, <1>5, <2>2, <3>1, <3>2 DEF IsRun
  <2>. QED BY <2>1, <2>2
<1>7. f = [i \in 0 .. N |-> Body(f, i)]
  BY <1>5, <1>6 DEF IsRun
<1>8. asked = [i \in 0 .. N |-> Body(asked, i)]
  BY <1>7
<1>. HIDE DEF asked
<1>9. asked[0] = {} /\ \A i \in 1 .. N : asked[i] = With(asked[i - 1], i)
  <2>1. \A i \in 0 .. N : asked[i] = Body(asked, i)
    BY <1>8
  <2>2. 0 \in 0 .. N /\ \A i \in 1 .. N : i \in 0 .. N /\ i # 0
    BY <1>0
  <2>. QED BY <2>1, <2>2
<1>. DEFINE S == {n \in Nat : n <= N => asked[n] \in V /\ \A i \in 1 .. n : listeners[i] \in asked[n]}
<1>10. 0 \in S
  BY <1>3, <1>9
<1>11. ASSUME NEW n \in Nat, n \in S PROVE n + 1 \in S
  <2>. SUFFICES ASSUME n + 1 <= N
       PROVE  asked[n + 1] \in V /\ \A i \in 1 .. n + 1 : listeners[i] \in asked[n + 1]
    OBVIOUS
  <2>1. n + 1 \in 1 .. N /\ (n + 1) - 1 = n
    BY <1>0
  <2>2. asked[n + 1] = With(asked[n], n + 1)
    BY <1>9, <2>1
  <2>3. asked[n] \in V /\ \A i \in 1 .. n : listeners[i] \in asked[n]
    BY <1>0, <1>11
  <2>4. asked[n + 1] \in V /\ listeners[n + 1] \in asked[n + 1]
    BY <1>1, <2>1, <2>2, <2>3
  <2>5. \A i \in 1 .. n : listeners[i] \in asked[n + 1]
    BY <2>2, <2>3 DEF With
  <2>6. \A i \in 1 .. n + 1 : i \in 1 .. n \/ i = n + 1
    OBVIOUS
  <2>. QED BY <2>4, <2>5, <2>6
<1>. HIDE DEF S
<1>12. N \in S
  BY <1>0, <1>10, <1>11, NatInd
<1>13. asked[N] \in V /\ \A i \in 1 .. N : listeners[i] \in asked[N]
  BY <1>0, <1>12 DEF S
<1>. QED BY <1>0, <1>2, <1>13 DEF V

(* A chain does not leave a set that is closed upwards.                     *)
LEMMA ChainStays ==
  ASSUME ProcessTable, NEW C, Upwards(C), NEW start \in C
  PROVE  \A i \in DOMAIN Pa!WalkAncestors(start, {}) : Pa!WalkAncestors(start, {})[i] \in C
<1>. DEFINE N == MaxAncestorDepth
            up == Up(start)
            chain == Pa!WalkAncestors(start, {})
<1>0. N \in Nat /\ start \in Pids
  BY ProcessesAssumption DEF ProcessesAssumption, Upwards
<1>1. /\ up \in [0 .. N -> Pids \cup {0}] /\ up[0] = start
      /\ \A d \in 1 .. N : up[d] = IF up[d - 1] \in Pids THEN parent[up[d - 1]] ELSE 0
  BY <1>0, UpExists
<1>2. PICK k \in 0 .. N + 1 :
        /\ chain = [i \in 1 .. k |-> up[i - 1]]
        /\ \A d \in 0 .. k - 1 : ~Stops(start, {}, d)
  BY <1>0, WalkIsCut
<1>3. \A d \in 0 .. k - 1 : up[d] # 0 /\ d \in 0 .. N
  BY <1>0, <1>2 DEF Stops
<1>. HIDE DEF up, chain, N
<1>. DEFINE S == {d \in Nat : d < k => up[d] \in C}
<1>4. 0 \in S
  BY <1>1
<1>5. ASSUME NEW d \in Nat, d \in S PROVE d + 1 \in S
  <2>. SUFFICES ASSUME d + 1 < k PROVE up[d + 1] \in C
    OBVIOUS
  <2>1. d + 1 \in 0 .. k - 1 /\ (d + 1) - 1 = d /\ up[d] \in C
    BY <1>5
  <2>2. d + 1 \in 1 .. N
    BY <1>0, <1>3, <2>1
  <2>3. up[d + 1] = parent[up[d]] /\ up[d + 1] # 0 /\ up[d + 1] \in Pids \cup {0}
    BY <1>1, <1>3, <2>1, <2>2 DEF Upwards
  <2>. QED BY <2>1, <2>3 DEF Upwards
<1>. HIDE DEF S
<1>6. Nat \subseteq S
  BY <1>4, <1>5, NatInd
<1>7. ASSUME NEW i \in 1 .. k PROVE chain[i] \in C
  <2>1. i - 1 \in Nat /\ i - 1 < k
    OBVIOUS
  <2>2. up[i - 1] \in C
    BY <1>6, <2>1 DEF S
  <2>. QED BY <1>2, <2>2
<1>. QED BY <1>2, <1>7 DEF chain

(* Who has all of the chain looks where who has everything looks.           *)
LEMMA SameNearest ==
  ASSUME ProcessTable, NEW C, Upwards(C), NEW pid \in C, NEW trees
  PROVE  Pa!Nearest(pid, C, trees) = Pa!Nearest(pid, Pids, trees)
<1>. DEFINE chain == Pa!WalkAncestors(pid, {})
            hits(known) == {i \in DOMAIN chain : Pa!MatchWorktree(Pa!Cwd(chain[i], known), trees) # <<>>}
<1>1. \A i \in DOMAIN chain : Pa!Cwd(chain[i], C) = Pa!Cwd(chain[i], Pids)
  BY ChainStays DEF Pa!Cwd, Upwards
<1>2. hits(C) = hits(Pids)
  BY <1>1
<1>3. DOMAIN chain \subseteq Nat
  <2>1. pid \in Pids
    BY DEF Upwards
  <2>2. PICK k \in 0 .. MaxAncestorDepth + 1 : chain = [i \in 1 .. k |-> Up(pid)[i - 1]]
    BY <2>1, WalkIsCut
  <2>. QED BY <2>2
<1>4. hits(C) # {} => (CHOOSE i \in hits(C) : \A j \in hits(C) : i <= j) \in DOMAIN chain
  <2>. SUFFICES ASSUME hits(C) # {} PROVE \E i \in hits(C) : \A j \in hits(C) : i <= j
    OBVIOUS
  <2>. DEFINE T == hits(C)
  <2>1. T \subseteq Nat /\ T # {}
    BY <1>3
  <2>. HIDE DEF T
  <2>2. PICK i \in T : \A j \in T : ~(j < i)
    BY <2>1, NatMin
  <2>3. \A j \in T : i <= j
    BY <2>1, <2>2
  <2>. QED BY <2>3 DEF T
<1>. DEFINE first(known) == CHOOSE i \in hits(known) : \A j \in hits(known) : i <= j
            found(known) == IF hits(known) = {} THEN <<>>
                            ELSE Pa!MatchWorktree(Pa!Cwd(chain[first(known)], known), trees)
<1>5. Pa!Nearest(pid, C, trees) = found(C) /\ Pa!Nearest(pid, Pids, trees) = found(Pids)
  BY DEF Pa!Nearest
<1>6. first(C) = first(Pids)
  BY <1>2
<1>7. hits(C) # {} => Pa!Cwd(chain[first(C)], C) = Pa!Cwd(chain[first(C)], Pids)
  BY <1>1, <1>4
<1>. HIDE DEF hits, first
<1>. QED BY <1>2, <1>5, <1>6, <1>7

LEMMA OwnersFound ==
  ASSUME ProcessTable
  PROVE  Pa!OwnersAreFound
<1>. SUFFICES ASSUME \A i \in DOMAIN listeners : Pa!ChainEnds(listeners[i]), NEW i \in DOMAIN listeners
     PROVE  LET pid == listeners[i]
                owner == Pa!Nearest(pid, Pids, live)
            IN /\ Pa!OwnerOf(pid) = owner
               /\ Pa!ResolveOrphan(pid) =
                    (IF owner # <<>> THEN <<>> ELSE Pa!Nearest(pid, Pids, Worktrees \ live))
  BY DEF Pa!OwnersAreFound
<1>1. Upwards(Pa!CwdPidSet) /\ listeners[i] \in Pa!CwdPidSet
  BY AllAreAsked
<1>2. \A trees : Pa!Nearest(listeners[i], Pa!CwdPidSet, trees) = Pa!Nearest(listeners[i], Pids, trees)
  BY <1>1, SameNearest
<1>. QED BY <1>2 DEF Pa!OwnerOf, Pa!ResolveOrphan

-----------------------------------------------------------------------------
LookupsInv ==
  /\ part = "attribution" => ProcessTable
  /\ part = "scan" => files \subseteq Paths

(* A port is the worktree's that its process or the nearest process above   *)
(* it sits in, whatever the order of the listeners and wherever their chains *)
(* join, for any process table; and git, the walk in its place and a walk   *)
(* by name give the same documents, for any files, links and excludes       *)
(* (ancestors.ts, attribute.ts, tracked.ts, scan.ts).                       *)
THEOREM LookupsAlwaysAgree == PartsSpec => []LookupsAgree
<1>1. PartsInit => LookupsInv
  <2>1. ASSUME Pa!Init PROVE ProcessTable
    <3>1. PICK n \in 1 .. MaxListeners : listeners \in [1 .. n -> Pids]
      BY <2>1 DEF Pa!Init
    <3>2. n \in Nat
      BY <3>1, ProcessesAssumption DEF ProcessesAssumption
    <3>3. listeners \in Seq(Pids)
      BY <3>1, <3>2
    <3>. QED BY <2>1, <3>3 DEF Pa!Init, ProcessTable
  <2>2. Ds!Init => files \subseteq Paths
    BY DEF Ds!Init
  <2>. QED BY <2>1, <2>2 DEF PartsInit, LookupsInv
<1>2. LookupsInv => LookupsAgree
  BY OwnersFound, OneIndex DEF LookupsInv, LookupsAgree
<1>3. LookupsInv /\ [PartsNext /\ UNCHANGED part]_allVars => LookupsInv'
  BY DEF LookupsInv, ProcessTable, PartsNext, allVars, paVars, dsVars
<1>. QED BY <1>1, <1>2, <1>3, PTL DEF PartsSpec, allVars

-----------------------------------------------------------------------------
(* Whoever watches is on the way to what there is *)

(* While somebody watches the ports the timer is set, and nobody is left    *)
(* with nothing to show and no scan to bring it. While somebody watches the *)
(* documents, all show the tree as it is, or that the last walk failed, or  *)
(* the timer is set, or a walk is under way that has read the tree as it is *)
(* or has another to follow it.                                             *)
NobodyIsForgotten ==
  /\ Watchers(client) # {} => armed /\ (cached # NoSnapshot \/ scan.pc # "idle")
  /\ watching # {} =>
       \/ debounce
       \/ walk # Di!Idle /\ (walk = tree \/ rescan)
       \/ walk = Di!Idle /\ \A c \in watching : docsShown[c] \in {tree, Di!Failed}

(* Beside the property: what a newcomer is handed is no older than what the *)
(* others show.                                                             *)
WatchInv ==
  /\ NobodyIsForgotten
  /\ tree \in Nat /\ DOMAIN docsShown = Clients /\ watching \subseteq Clients
  /\ watching # {} /\ walk = Di!Idle => debounce \/ docsCached \in {tree, Di!Failed}

LEMMA PortsWatchKept ==
  ASSUME WatchInv, Next, UNCHANGED diVars
  PROVE  WatchInv'
<1>. DEFINE Watched == Watchers(client) # {} => armed /\ (cached # NoSnapshot \/ scan.pc # "idle")
<1>1. Watched => Watched'
  <2>. USE DEF Watchers, RunScan
  <2>1. ASSUME NEW c \in Clients, Watch(c) \/ Unwatch(c, "open") \/ Unwatch(c, "gone") PROVE Watched => Watched'
    <3>1. PICK cl : SetWatchers(cl) /\ cached' = cached
      BY <2>1 DEF Watch, Unwatch
    <3>2. Watchers(client)' # {} => armed'
      BY <3>1, Zenon DEF SetWatchers
    <3>3. scan' = scan \/ scan'.pc # "idle"
      BY <3>1 DEF SetWatchers
    <3>4. Watchers(client)' # {} /\ Watchers(client) = {} => scan'.pc # "idle"
      BY <3>1 DEF SetWatchers
    <3>. QED BY <3>1, <3>2, <3>3, <3>4
  <2>2. CASE SetWatchedPort \/ KillReleased \/ Tick \/ ListenersRead \/ ProbeAnswers \/ WorldChanges \/ TimePasses
    BY <2>2 DEF SetWatchedPort, KillReleased, Tick, ListenersRead, ProbeAnswers, WorldChanges, TimePasses, sockets
  <2>3. CASE ScanEnds
    <3>1. PICK port : /\ Broadcast([port |-> port, scan |-> IF scan.seen # "failed" THEN "ok" ELSE "failed"])
                      /\ UNCHANGED <<client, armed>>
      BY <2>3 DEF ScanEnds
    <3>2. [port |-> port, scan |-> IF scan.seen # "failed" THEN "ok" ELSE "failed"] # NoSnapshot
      BY DEF NoSnapshot, None
    <3>. QED BY <3>1, <3>2 DEF Broadcast
  <2>. QED BY <2>1, <2>2, <2>3 DEF Next, UserMoves
<1>. QED BY <1>1 DEF WatchInv, NobodyIsForgotten, diVars

LEMMA IndexWatchKept ==
  ASSUME WatchInv, Di!Next, UNCHANGED vars
  PROVE  WatchInv'
<1>. USE DEF WatchInv, NobodyIsForgotten, Di!Idle, Di!Failed
<1>0. UNCHANGED <<client, armed, cached, scan>>
  BY DEF vars, sockets
<1>1. ASSUME NEW c \in Clients, Di!Watch(c) PROVE WatchInv'
  BY <1>0, <1>1 DEF Di!Watch, Di!SetWatchers, Di!RunScan, Di!Unsent, Watchers
<1>2. ASSUME NEW c \in Clients, Di!Unwatch(c) PROVE WatchInv'
  BY <1>0, <1>2 DEF Di!Unwatch, Di!SetWatchers, Watchers
<1>3. CASE Di!OnWorktreeChange
  <2>1. watching # {} => debounce'
    BY <1>3, Zenon DEF Di!OnWorktreeChange
  <2>. QED BY <1>0, <1>3, <2>1 DEF Di!OnWorktreeChange, Watchers
<1>4. CASE Di!DebounceFires
  BY <1>0, <1>4 DEF Di!DebounceFires, Di!RunScan, Watchers
<1>5. CASE Di!WalkReads
  BY <1>0, <1>5 DEF Di!WalkReads, Watchers
<1>6. CASE Di!WalkEnds
  BY <1>0, <1>6 DEF Di!WalkEnds, Di!Publish, Watchers
<1>. QED BY <1>1, <1>2, <1>3, <1>4, <1>5, <1>6 DEF Di!Next

(* No change and no newcomer is lost on those who watch, ports or           *)
(* documents: there is always something under way that will show it, be it  *)
(* a change during a walk, a watch during a scan or one after the last      *)
(* watcher left (ports/service.ts, docs/service.ts: "without this the       *)
(* change is lost").                                                        *)
THEOREM NobodyIsEverForgotten == PartsSpec => []NobodyIsForgotten
<1>1. PartsInit => WatchInv
  BY DEF PartsInit, Init, Di!Init, WatchInv, NobodyIsForgotten, Watchers
<1>2. WatchInv => NobodyIsForgotten
  BY DEF WatchInv
<1>3. WatchInv /\ [PartsNext]_allVars => WatchInv'
  <2>. SUFFICES ASSUME WatchInv, [PartsNext]_allVars PROVE WatchInv'
    OBVIOUS
  <2>1. CASE Next /\ UNCHANGED diVars
    BY <2>1, PortsWatchKept
  <2>2. CASE Di!Next /\ UNCHANGED vars
    BY <2>2, IndexWatchKept
  <2>3. CASE UNCHANGED <<vars, diVars>>
    BY <2>3 DEF WatchInv, NobodyIsForgotten, Watchers, vars, sockets, diVars
  <2>. QED BY <2>1, <2>2, <2>3 DEF PartsNext, allVars
<1>. QED BY <1>1, <1>2, <1>3, PTL DEF PartsSpec, allVars
=============================================================================
