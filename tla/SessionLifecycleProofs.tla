----------------------- MODULE SessionLifecycleProofs -----------------------
(* Proofs about SessionLifecycle for every number of messages, reopens,     *)
(* adapters and closes, with or without agents that fail: who holds every   *)
(* agent, what a close leaves, and that nobody waits for what is over.      *)
EXTENDS SessionLifecycle, TLAPS

-----------------------------------------------------------------------------
(* The invariant *)

HasStarted(a) == a = Detached \/ proc[a] \in {"live", "dead"}

(* A process that runs, or is about to, is the session's or was given up.   *)
Owned ==
  \A a \in Adapters :
    proc[a] \in Running \cup {"new"} => a \in escaped \/ (a = adapter /\ registered /\ ~closed)

(* What is about to be spawned is being started, what is being started is   *)
(* the session's or was taken from it, and when nothing is being started    *)
(* only a draft whose promotion failed has an adapter that did not start.   *)
Starts ==
  /\ \A a \in Adapters : proc[a] = "new" => a = starting
  /\ starting # Detached => adapter \in {starting, Detached}
  /\ starting = Detached /\ ~(draft /\ promoting = "none") => HasStarted(adapter)

(* A draft is promoted, never re-attached. *)
Phases ==
  /\ draft => attaching = "none" /\ ~resumable
  /\ promoting # "none" => draft

(* Whoever asked for an open session while it is closing or closed waits.   *)
Asked ==
  /\ closing => ~closed
  /\ registered /\ closing /\ lastAsk = "open" => \E r \in Requests : pc[r] = "waitClose"
  /\ registered /\ closed /\ lastAsk = "open" => \E r \in Requests : pc[r] = "reopening"

Inv ==
  /\ TypeOK /\ Owned /\ Starts /\ Phases /\ Asked
  /\ ClosedIsRevoked /\ InputMeetsAStartedAgent

-----------------------------------------------------------------------------
(* What handing messages to an adapter that has started does to them.       *)
LEMMA DeliverKept ==
  ASSUME TypeOK, InputMeetsAStartedAgent, NEW rs \in SUBSET Requests, NEW p, NEW a, Deliver(rs, p, a),
         a = Detached \/ p[a] \in {"live", "dead"}
  PROVE  /\ pc' \in [Requests -> {"new", "waitClose", "reopening", "joining", "promoting", "done"}]
         /\ outcome' \in [Requests -> {"none", "cold", "agent", "dead", "unstarted", "refused"}]
         /\ InputMeetsAStartedAgent'
         /\ \A r \in Requests : pc'[r] = IF r \in rs THEN "done" ELSE pc[r]
<1>1. /\ pc' = [r \in Requests |-> IF r \in rs THEN "done" ELSE pc[r]]
      /\ outcome' = [r \in Requests |-> IF r \in rs \cap Sends THEN Met(p, a) ELSE outcome[r]]
  BY DEF Deliver
<1>2. Met(p, a) \in {"cold", "agent", "dead"}
  BY DEF Met, Detached
<1>. HIDE DEF Met
<1>3. \A r \in Requests : outcome'[r] \in {"none", "cold", "agent", "dead", "unstarted", "refused"}
  BY <1>1, <1>2 DEF TypeOK
<1>4. InputMeetsAStartedAgent'
  BY <1>1, <1>2 DEF InputMeetsAStartedAgent, Requests
<1>. QED BY <1>1, <1>3, <1>4 DEF TypeOK

LEMMA FreshIsUnused ==
  ASSUME TypeOK, Unused # {}
  PROVE  Fresh \in Adapters /\ proc[Fresh] = "unused" /\ Fresh # Detached
<1>1. Fresh \in Unused
  BY DEF Fresh
<1>. QED BY <1>1 DEF Unused, Adapters, Detached

LEMMA AdaptersAreNotDetached == Detached \notin Adapters
BY DEF Adapters, Detached

(* Killing stops one process at most. *)
LEMMA KilledHolds ==
  ASSUME TypeOK, NEW a
  PROVE  /\ Killed(proc, a) \in [Adapters -> {"unused", "new", "spawned", "live", "dead"}]
         /\ \A b \in Adapters :
              Killed(proc, a)[b] = IF b = a /\ proc[b] \in {"spawned", "live"} THEN "dead" ELSE proc[b]
BY DEF Killed, TypeOK, Running

(* A fresh adapter is installed and started, when nothing else is.          *)
LEMMA StartFreshKept ==
  ASSUME Inv, NEW p \in [Adapters -> {"unused", "new", "spawned", "live", "dead"}],
         StartFresh(p), p[Fresh] = "unused",
         starting = Detached, UNCHANGED <<closing, registered>>,
         \A a \in Adapters : p[a] # "new",
         \A a \in Adapters \ {Fresh} : p[a] \in Running => a \in escaped',
         Fresh \in escaped' \/ (registered' /\ ~closed')
  PROVE  /\ adapter' \in Adapters /\ starting' = adapter'
         /\ proc' \in [Adapters -> {"unused", "new", "spawned", "live", "dead"}]
         /\ token' \in BOOLEAN /\ late' \in BOOLEAN
         /\ Owned' /\ Starts' /\ ClosedIsRevoked'
<1>1. /\ Unused # {} /\ adapter' = Fresh /\ starting' = Fresh
      /\ proc' = [p EXCEPT ![Fresh] = "new"] /\ token' = TRUE
      /\ late' = (late \/ closed' \/ closing \/ ~registered)
  BY DEF StartFresh
<1>2. Fresh \in Adapters /\ Fresh # Detached
  BY <1>1, FreshIsUnused DEF Inv
<1>3. proc' \in [Adapters -> {"unused", "new", "spawned", "live", "dead"}]
  BY <1>1
<1>4. \A a \in Adapters : proc'[a] = IF a = Fresh THEN "new" ELSE p[a]
  BY <1>1, <1>2
<1>5. Owned'
  BY <1>1, <1>4 DEF Owned, Running
<1>6. Starts'
  BY <1>1, <1>2, <1>4 DEF Starts
<1>7. ClosedIsRevoked' /\ late' \in BOOLEAN /\ token' \in BOOLEAN
  BY <1>1 DEF ClosedIsRevoked
<1>. QED BY <1>1, <1>2, <1>3, <1>5, <1>6, <1>7

-----------------------------------------------------------------------------
(* A message goes on with an open session. *)
LEMMA GoLiveKept ==
  ASSUME Inv, NEW r \in Sends, GoLive(r), closed' = FALSE,
         UNCHANGED <<registered, draft, resumable, closing, closes>>, lastAsk' \in {"open", "close"}
  PROVE  /\ TypeOK' /\ Owned' /\ Starts' /\ Phases' /\ ClosedIsRevoked' /\ InputMeetsAStartedAgent'
         /\ \A q \in Requests \ {r} : pc'[q] = pc[q]
<1>1. /\ TypeOK /\ Owned /\ Starts /\ Phases /\ ClosedIsRevoked /\ InputMeetsAStartedAgent
      /\ r \in Requests
  BY DEF Inv, Requests
<1>2. CASE /\ MustJoin
           /\ attaching' = (IF attaching = "none" THEN "listing" ELSE attaching)
           /\ pc' = [pc EXCEPT ![r] = "joining"]
           /\ UNCHANGED <<adapter, token, activity, proc, promoting, starting, outcome, escaped, late>>
  <2>1. UNCHANGED <<adapter, token, busy, quiet, proc, promoting, starting, outcome, escaped, late>>
    BY <1>2 DEF activity
  <2>2. Phases' /\ (attaching' = "none" \/ promoting' = "none")
    BY <1>1, <1>2, <2>1 DEF Phases, MustJoin, TypeOK
  <2>3. TypeOK'
    BY <1>1, <1>2, <2>1, <2>2 DEF TypeOK
  <2>4. Owned' /\ Starts'
    BY <1>1, <2>1 DEF Owned, Starts, HasStarted
  <2>5. ClosedIsRevoked' /\ InputMeetsAStartedAgent'
    BY <1>1, <2>1 DEF ClosedIsRevoked, InputMeetsAStartedAgent
  <2>. QED BY <1>1, <1>2, <2>2, <2>3, <2>4, <2>5 DEF TypeOK
<1>3. CASE /\ draft /\ promoting # "none"
           /\ pc' = [pc EXCEPT ![r] = "promoting"]
           /\ UNCHANGED <<adapter, token, activity, proc, attaching, promoting, starting, outcome,
                          escaped, late>>
  <2>1. UNCHANGED <<adapter, token, busy, quiet, proc, attaching, promoting, starting, outcome, escaped, late>>
    BY <1>3 DEF activity
  <2>2. TypeOK'
    BY <1>1, <1>3, <2>1 DEF TypeOK
  <2>3. Owned' /\ Starts' /\ Phases'
    BY <1>1, <2>1 DEF Owned, Starts, HasStarted, Phases
  <2>4. ClosedIsRevoked' /\ InputMeetsAStartedAgent'
    BY <1>1, <2>1 DEF ClosedIsRevoked, InputMeetsAStartedAgent
  <2>. QED BY <1>1, <1>3, <2>2, <2>3, <2>4 DEF TypeOK
<1>4. CASE /\ draft /\ promoting = "none" /\ registered
           /\ escaped' = escaped \cup {a \in Adapters : a = adapter /\ proc[a] \in Running}
           /\ StartFresh(proc)
           /\ promoting' = "starting" /\ pc' = [pc EXCEPT ![r] = "promoting"]
           /\ UNCHANGED <<activity, attaching, outcome>>
  <2>1. attaching = "none" /\ starting = Detached
    BY <1>1, <1>4 DEF Phases, TypeOK
  <2>2. proc[Fresh] = "unused" /\ Fresh \in Adapters
    BY <1>1, <1>4, FreshIsUnused DEF StartFresh
  <2>3. \A a \in Adapters : proc[a] # "new"
    BY <1>1, <2>1, AdaptersAreNotDetached DEF Starts
  <2>4. \A a \in Adapters \ {Fresh} : proc[a] \in Running => a \in escaped'
    BY <1>1, <1>4 DEF Owned
  <2>5. /\ adapter' \in Adapters /\ starting' = adapter'
        /\ proc' \in [Adapters -> {"unused", "new", "spawned", "live", "dead"}]
        /\ token' \in BOOLEAN /\ late' \in BOOLEAN
        /\ Owned' /\ Starts' /\ ClosedIsRevoked'
    BY <1>1, <1>4, <2>1, <2>2, <2>3, <2>4, StartFreshKept DEF TypeOK
  <2>6. UNCHANGED <<busy, quiet, attaching, outcome>>
    BY <1>4 DEF activity
  <2>7. TypeOK'
    BY <1>1, <1>4, <2>1, <2>5, <2>6, AdaptersAreNotDetached DEF TypeOK
  <2>8. Phases' /\ InputMeetsAStartedAgent'
    BY <1>1, <1>4, <2>6 DEF Phases, InputMeetsAStartedAgent
  <2>. QED BY <1>1, <1>4, <2>5, <2>7, <2>8 DEF TypeOK
<1>5. CASE /\ draft /\ promoting = "none" /\ ~registered
           /\ pc' = [pc EXCEPT ![r] = "done"] /\ outcome' = [outcome EXCEPT ![r] = "refused"]
           /\ quiet' = FALSE
           /\ UNCHANGED <<adapter, token, busy, proc, attaching, promoting, starting, escaped, late>>
  <2>1. TypeOK'
    BY <1>1, <1>5 DEF TypeOK
  <2>2. Owned' /\ Starts' /\ Phases'
    BY <1>1, <1>5 DEF Owned, Starts, HasStarted, Phases
  <2>3. ClosedIsRevoked'
    BY <1>1, <1>5 DEF ClosedIsRevoked
  <2>4. InputMeetsAStartedAgent'
    BY <1>1, <1>5 DEF InputMeetsAStartedAgent, TypeOK
  <2>. QED BY <1>1, <1>5, <2>1, <2>2, <2>3, <2>4 DEF TypeOK
<1>6. CASE /\ ~draft /\ ~MustJoin
           /\ Deliver({r}, proc, adapter)
           /\ busy' = (busy \/ Met(proc, adapter) = "agent") /\ quiet' = FALSE
           /\ UNCHANGED <<adapter, token, proc, attaching, promoting, starting, escaped, late>>
  <2>1. attaching = "none" /\ promoting = "none" /\ starting = Detached
    BY <1>1, <1>6 DEF MustJoin, Phases, TypeOK
  <2>2. HasStarted(adapter)
    BY <1>1, <1>6, <2>1 DEF Starts
  <2>3. /\ pc' \in [Requests -> {"new", "waitClose", "reopening", "joining", "promoting", "done"}]
        /\ outcome' \in [Requests -> {"none", "cold", "agent", "dead", "unstarted", "refused"}]
        /\ InputMeetsAStartedAgent'
        /\ \A q \in Requests : pc'[q] = IF q \in {r} THEN "done" ELSE pc[q]
    BY <1>1, <1>6, <2>2, DeliverKept DEF HasStarted
  <2>4. busy' \in BOOLEAN
    BY <1>6
  <2>5. TypeOK'
    BY <1>1, <1>6, <2>3, <2>4 DEF TypeOK
  <2>6. Owned' /\ Starts' /\ Phases'
    BY <1>1, <1>6 DEF Owned, Starts, HasStarted, Phases
  <2>7. ClosedIsRevoked'
    BY <1>1, <1>6 DEF ClosedIsRevoked
  <2>. QED BY <2>3, <2>5, <2>6, <2>7
<1>. QED BY <1>2, <1>3, <1>4, <1>5, <1>6 DEF GoLive

LEMMA SendKept ==
  ASSUME Inv, NEW r \in Sends, Send(r)
  PROVE  Inv'
<1>1. /\ TypeOK /\ Owned /\ Starts /\ Phases /\ Asked /\ ClosedIsRevoked /\ InputMeetsAStartedAgent
      /\ r \in Requests
  BY DEF Inv, Requests
<1>2. /\ pc[r] = "new" /\ registered /\ lastAsk' = "open"
      /\ UNCHANGED <<registered, draft, closed, resumable, closing, closes>>
  BY DEF Send
<1>3. CASE /\ closing \/ closed
           /\ pc' = [pc EXCEPT ![r] = IF closing THEN "waitClose" ELSE "reopening"]
           /\ UNCHANGED <<adapter, token, activity, proc, attaching, promoting, starting, outcome,
                          escaped, late>>
  <2>1. UNCHANGED <<adapter, token, busy, quiet, proc, attaching, promoting, starting, outcome, escaped, late>>
    BY <1>3 DEF activity
  <2>2. TypeOK'
    BY <1>1, <1>2, <1>3, <2>1 DEF TypeOK
  <2>3. Owned' /\ Starts' /\ Phases'
    BY <1>1, <1>2, <2>1 DEF Owned, Starts, HasStarted, Phases
  <2>4. ClosedIsRevoked' /\ InputMeetsAStartedAgent'
    BY <1>1, <1>2, <2>1 DEF ClosedIsRevoked, InputMeetsAStartedAgent
  <2>5. pc'[r] = IF closing THEN "waitClose" ELSE "reopening"
    BY <1>1, <1>3 DEF TypeOK
  <2>6. Asked'
    BY <1>1, <1>2, <2>5 DEF Asked
  <2>. QED BY <2>2, <2>3, <2>4, <2>6 DEF Inv
<1>4. CASE ~closing /\ ~closed /\ GoLive(r)
  <2>1. closed' = FALSE /\ lastAsk' \in {"open", "close"}
    BY <1>1, <1>2, <1>4 DEF TypeOK
  <2>2. TypeOK' /\ Owned' /\ Starts' /\ Phases' /\ ClosedIsRevoked' /\ InputMeetsAStartedAgent'
    BY <1>2, <1>4, <2>1, GoLiveKept
  <2>3. Asked'
    BY <1>2, <1>4 DEF Asked
  <2>. QED BY <2>2, <2>3 DEF Inv
<1>. QED BY <1>3, <1>4 DEF Send

LEMMA ReopenKept ==
  ASSUME Inv, NEW r \in Reopens, Reopen(r)
  PROVE  Inv'
<1>1. /\ TypeOK /\ Owned /\ Starts /\ Phases /\ Asked /\ ClosedIsRevoked /\ InputMeetsAStartedAgent
      /\ r \in Requests
  BY DEF Inv, Requests
<1>2. /\ pc[r] = "new" /\ lastAsk' = "open"
      /\ pc' = [pc EXCEPT ![r] = IF closing THEN "waitClose" ELSE IF closed THEN "reopening" ELSE "done"]
      /\ UNCHANGED <<registered, draft, closed, resumable, adapter, token, busy, quiet, proc, closing, attaching,
                     promoting, starting, outcome, escaped, late, closes>>
  BY DEF Reopen, session, activity, tasks
<1>3. TypeOK'
  BY <1>1, <1>2 DEF TypeOK
<1>4. Owned' /\ Starts' /\ Phases'
  BY <1>1, <1>2 DEF Owned, Starts, HasStarted, Phases
<1>5. ClosedIsRevoked' /\ InputMeetsAStartedAgent'
  BY <1>1, <1>2 DEF ClosedIsRevoked, InputMeetsAStartedAgent
<1>6. pc'[r] = IF closing THEN "waitClose" ELSE IF closed THEN "reopening" ELSE "done"
  BY <1>1, <1>2 DEF TypeOK
<1>7. Asked'
  BY <1>1, <1>2, <1>6 DEF Asked
<1>. QED BY <1>3, <1>4, <1>5, <1>7 DEF Inv

LEMMA ReopenFinishKept ==
  ASSUME Inv, NEW r \in Requests, ReopenFinish(r)
  PROVE  Inv'
<1>1. TypeOK /\ Owned /\ Starts /\ Phases /\ Asked /\ ClosedIsRevoked /\ InputMeetsAStartedAgent
  BY DEF Inv
<1>2. /\ pc[r] = "reopening" /\ closed' = FALSE
      /\ UNCHANGED <<registered, draft, resumable, closing, lastAsk, closes>>
  BY DEF ReopenFinish
<1>3. ASSUME \A q \in Requests \ {r} : pc'[q] = pc[q] PROVE Asked'
  BY <1>1, <1>2, <1>3 DEF Asked
<1>4. CASE /\ r \in Reopens
           /\ pc' = [pc EXCEPT ![r] = "done"]
           /\ UNCHANGED <<adapter, token, activity, proc, attaching, promoting, starting, outcome,
                          escaped, late>>
  <2>1. UNCHANGED <<adapter, token, busy, quiet, proc, attaching, promoting, starting, outcome, escaped, late>>
    BY <1>4 DEF activity
  <2>2. TypeOK'
    <3>1. pc' \in [Requests -> {"new", "waitClose", "reopening", "joining", "promoting", "done"}]
      BY <1>1, <1>4 DEF TypeOK
    <3>2. closed' \in BOOLEAN
      BY <1>2
    <3>. QED BY <1>1, <1>2, <2>1, <3>1, <3>2 DEF TypeOK
  <2>3. Owned' /\ Starts' /\ Phases'
    BY <1>1, <1>2, <2>1 DEF Owned, Starts, HasStarted, Phases
  <2>4. ClosedIsRevoked' /\ InputMeetsAStartedAgent'
    BY <1>1, <1>2, <2>1 DEF ClosedIsRevoked, InputMeetsAStartedAgent
  <2>5. Asked'
    BY <1>1, <1>3, <1>4 DEF TypeOK
  <2>. QED BY <2>2, <2>3, <2>4, <2>5 DEF Inv
<1>5. CASE r \in Sends /\ GoLive(r)
  <2>1. /\ TypeOK' /\ Owned' /\ Starts' /\ Phases' /\ ClosedIsRevoked' /\ InputMeetsAStartedAgent'
        /\ \A q \in Requests \ {r} : pc'[q] = pc[q]
    BY <1>1, <1>2, <1>5, GoLiveKept DEF TypeOK
  <2>. QED BY <1>3, <2>1 DEF Inv
<1>. QED BY <1>4, <1>5 DEF ReopenFinish

-----------------------------------------------------------------------------
(* Re-attaching and starting *)

LEMMA ListKept ==
  ASSUME Inv, Subscribe \/ Attach
  PROVE  Inv'
<1>1. TypeOK /\ Owned /\ Starts /\ Phases /\ Asked /\ ClosedIsRevoked /\ InputMeetsAStartedAgent
  BY DEF Inv
<1>2. /\ attaching = "none" /\ attaching' = "listing"
      /\ UNCHANGED <<registered, draft, closed, resumable, adapter, token, busy, quiet, proc, closing,
                     promoting, starting, pc, outcome, lastAsk, escaped, late, closes>>
  BY DEF Subscribe, Attach, session, activity, requests, history
<1>3. ~draft
  BY <1>1, <1>2 DEF Subscribe, Attach, MustJoin, Phases
<1>4. promoting = "none"
  BY <1>1, <1>3 DEF Phases
<1>5. TypeOK'
  BY <1>1, <1>2, <1>4 DEF TypeOK
<1>6. Owned' /\ Starts' /\ Phases' /\ Asked'
  BY <1>1, <1>2, <1>3 DEF Owned, Starts, HasStarted, Phases, Asked
<1>7. ClosedIsRevoked' /\ InputMeetsAStartedAgent'
  BY <1>1, <1>2 DEF ClosedIsRevoked, InputMeetsAStartedAgent
<1>. QED BY <1>5, <1>6, <1>7 DEF Inv

LEMMA AttachInstallKept ==
  ASSUME Inv, AttachInstall
  PROVE  Inv'
<1>1. TypeOK /\ Owned /\ Starts /\ Phases /\ Asked /\ ClosedIsRevoked /\ InputMeetsAStartedAgent
  BY DEF Inv
<1>2. /\ attaching = "listing" /\ attaching' = "starting"
      /\ StartFresh(Killed(proc, adapter))
      /\ escaped' = escaped \cup IF closed \/ ~registered THEN {Fresh} ELSE {}
      /\ UNCHANGED <<registered, draft, closed, resumable, busy, quiet, closing, promoting, pc, outcome,
                     lastAsk, closes>>
  BY DEF AttachInstall, activity, requests
<1>3. promoting = "none" /\ starting = Detached
  BY <1>1, <1>2 DEF TypeOK
<1>4. Fresh \in Adapters /\ proc[Fresh] = "unused"
  BY <1>1, <1>2, FreshIsUnused DEF StartFresh
<1>5. /\ Killed(proc, adapter) \in [Adapters -> {"unused", "new", "spawned", "live", "dead"}]
      /\ \A b \in Adapters : Killed(proc, adapter)[b] =
           IF b = adapter /\ proc[b] \in {"spawned", "live"} THEN "dead" ELSE proc[b]
  BY <1>1, KilledHolds
<1>6. \A a \in Adapters : proc[a] # "new"
  BY <1>1, <1>3, AdaptersAreNotDetached DEF Starts
<1>7. Killed(proc, adapter)[Fresh] = "unused" /\ \A a \in Adapters : Killed(proc, adapter)[a] # "new"
  BY <1>4, <1>5, <1>6
<1>8. \A a \in Adapters \ {Fresh} : Killed(proc, adapter)[a] \in Running => a \in escaped'
  BY <1>1, <1>2, <1>5 DEF Owned, Running
<1>9. Fresh \in escaped' \/ (registered' /\ ~closed')
  BY <1>2
<1>10. /\ adapter' \in Adapters /\ starting' = adapter'
       /\ proc' \in [Adapters -> {"unused", "new", "spawned", "live", "dead"}]
       /\ token' \in BOOLEAN /\ late' \in BOOLEAN
       /\ Owned' /\ Starts' /\ ClosedIsRevoked'
  BY <1>2, <1>3, <1>5, <1>7, <1>8, <1>9, StartFreshKept
<1>11. TypeOK'
  BY <1>1, <1>2, <1>3, <1>4, <1>10, AdaptersAreNotDetached DEF TypeOK
<1>12. Phases' /\ Asked' /\ InputMeetsAStartedAgent'
  BY <1>1, <1>2 DEF Phases, Asked, InputMeetsAStartedAgent
<1>. QED BY <1>10, <1>11, <1>12 DEF Inv

LEMMA SpawnKept ==
  ASSUME Inv, Spawn
  PROVE  Inv'
<1>1. TypeOK /\ Owned /\ Starts /\ Phases /\ Asked /\ ClosedIsRevoked /\ InputMeetsAStartedAgent
  BY DEF Inv
<1>2. /\ starting # Detached /\ proc[starting] = "new" /\ proc' = [proc EXCEPT ![starting] = "spawned"]
      /\ UNCHANGED <<registered, draft, closed, resumable, adapter, token, busy, quiet, closing, attaching,
                     promoting, starting, pc, outcome, lastAsk, escaped, late, closes>>
  BY DEF Spawn, session, activity, tasks, requests, history
<1>3. starting \in Adapters
  BY <1>1, <1>2 DEF TypeOK
<1>4. TypeOK'
  BY <1>1, <1>2, <1>3 DEF TypeOK
<1>5. Owned' /\ Starts'
  BY <1>1, <1>2, <1>3 DEF Owned, Starts, TypeOK, Running
<1>6. Phases' /\ Asked' /\ ClosedIsRevoked' /\ InputMeetsAStartedAgent'
  BY <1>1, <1>2 DEF Phases, Asked, ClosedIsRevoked, InputMeetsAStartedAgent
<1>. QED BY <1>4, <1>5, <1>6 DEF Inv

(* What the end of a start does to the processes. *)
LEMMA StartedHolds ==
  ASSUME Inv, Started
  PROVE  /\ starting \in Adapters /\ starting' = Detached
         /\ proc' \in [Adapters -> {"unused", "new", "spawned", "live", "dead"}]
         /\ \A a \in Adapters : proc'[a] = IF a = starting THEN "live" ELSE proc[a]
         /\ adapter = Detached \/ (adapter = starting /\ proc'[adapter] = "live")
         /\ \A a \in Adapters : proc'[a] # "new"
         /\ UNCHANGED <<adapter, registered, closed, escaped>> => Owned'
<1>1. TypeOK /\ Owned /\ Starts
  BY DEF Inv
<1>2. /\ starting # Detached /\ proc[starting] = "spawned"
      /\ proc' = [proc EXCEPT ![starting] = "live"] /\ starting' = Detached
  BY DEF Started
<1>3. starting \in Adapters
  BY <1>1, <1>2 DEF TypeOK
<1>4. /\ proc' \in [Adapters -> {"unused", "new", "spawned", "live", "dead"}]
      /\ \A a \in Adapters : proc'[a] = IF a = starting THEN "live" ELSE proc[a]
  BY <1>1, <1>2, <1>3 DEF TypeOK
<1>5. adapter = Detached \/ (adapter = starting /\ proc'[adapter] = "live")
  BY <1>1, <1>2, <1>3, <1>4 DEF Starts
<1>6. \A a \in Adapters : proc'[a] # "new"
  BY <1>1, <1>4 DEF Starts
<1>7. UNCHANGED <<adapter, registered, closed, escaped>> => Owned'
  BY <1>1, <1>2, <1>4 DEF Owned, Running
<1>. QED BY <1>2, <1>3, <1>4, <1>5, <1>6, <1>7

LEMMA AttachStartedKept ==
  ASSUME Inv, AttachStarted
  PROVE  Inv'
<1>1. TypeOK /\ Owned /\ Starts /\ Phases /\ Asked /\ ClosedIsRevoked /\ InputMeetsAStartedAgent
  BY DEF Inv
<1>. DEFINE joined == Waiting("joining")
<1>2. /\ Started /\ attaching = "starting" /\ attaching' = "none"
      /\ Deliver(joined, proc', adapter)
      /\ IF joined = {} THEN Idle
         ELSE busy' = (Met(proc', adapter) = "agent") /\ quiet' = FALSE
      /\ UNCHANGED <<registered, draft, closed, resumable, adapter, token, closing, promoting,
                     lastAsk, escaped, late, closes>>
  BY DEF AttachStarted, session, history
<1>3. joined \in SUBSET Requests /\ \A r \in joined : pc[r] = "joining"
  BY DEF Waiting
<1>. HIDE DEF joined
<1>4. /\ starting \in Adapters /\ starting' = Detached
      /\ proc' \in [Adapters -> {"unused", "new", "spawned", "live", "dead"}]
      /\ adapter = Detached \/ (adapter = starting /\ proc'[adapter] = "live")
      /\ \A a \in Adapters : proc'[a] # "new"
      /\ Owned'
  BY <1>2, StartedHolds
<1>5. promoting = "none"
  BY <1>1, <1>2 DEF TypeOK
<1>6. /\ pc' \in [Requests -> {"new", "waitClose", "reopening", "joining", "promoting", "done"}]
      /\ outcome' \in [Requests -> {"none", "cold", "agent", "dead", "unstarted", "refused"}]
      /\ InputMeetsAStartedAgent'
      /\ \A r \in Requests : pc'[r] = IF r \in joined THEN "done" ELSE pc[r]
  BY <1>1, <1>2, <1>3, <1>4, DeliverKept
<1>7. busy' \in BOOLEAN /\ quiet' \in BOOLEAN
  BY <1>1, <1>2 DEF Idle, activity, TypeOK
<1>8. TypeOK'
  BY <1>1, <1>2, <1>4, <1>5, <1>6, <1>7 DEF TypeOK
<1>9. Starts'
  BY <1>2, <1>4 DEF Starts, HasStarted
<1>10. Phases' /\ ClosedIsRevoked'
  BY <1>1, <1>2 DEF Phases, ClosedIsRevoked
<1>11. Asked'
  BY <1>1, <1>2, <1>3, <1>6 DEF Asked
<1>. QED BY <1>4, <1>6, <1>8, <1>9, <1>10, <1>11 DEF Inv

(* The end of a promotion, when its adapter started or was taken away. *)
LEMMA PromotedKept ==
  ASSUME Inv, promoting \in {"starting", "picks"}, Promoted(proc'), starting' = Detached,
         proc' \in [Adapters -> {"unused", "new", "spawned", "live", "dead"}],
         adapter = Detached \/ proc'[adapter] \in {"live", "dead"},
         \A a \in Adapters : proc'[a] # "new", Owned',
         UNCHANGED <<registered, closed, adapter, token, closing, attaching, lastAsk, escaped, late, closes>>
  PROVE  Inv'
<1>1. TypeOK /\ Owned /\ Starts /\ Phases /\ Asked /\ ClosedIsRevoked /\ InputMeetsAStartedAgent
  BY DEF Inv
<1>. DEFINE those == Waiting("promoting")
<1>2. /\ promoting' = "none" /\ draft' = FALSE
      /\ resumable' = (resumable \/ adapter # Detached)
      /\ Deliver(those, proc', adapter)
      /\ busy' = (Met(proc', adapter) = "agent") /\ quiet' = FALSE
  BY DEF Promoted
<1>3. those \in SUBSET Requests /\ \A r \in those : pc[r] = "promoting"
  BY DEF Waiting
<1>. HIDE DEF those
<1>4. attaching = "none"
  BY <1>1 DEF TypeOK
<1>5. /\ pc' \in [Requests -> {"new", "waitClose", "reopening", "joining", "promoting", "done"}]
      /\ outcome' \in [Requests -> {"none", "cold", "agent", "dead", "unstarted", "refused"}]
      /\ InputMeetsAStartedAgent'
      /\ \A r \in Requests : pc'[r] = IF r \in those THEN "done" ELSE pc[r]
  BY <1>1, <1>2, <1>3, DeliverKept
<1>6. busy' \in BOOLEAN /\ resumable' \in BOOLEAN
  BY <1>2
<1>7. TypeOK'
  BY <1>1, <1>2, <1>4, <1>5, <1>6 DEF TypeOK
<1>8. Starts' /\ Phases'
  BY <1>2 DEF Starts, HasStarted, Phases
<1>9. ClosedIsRevoked'
  BY <1>1 DEF ClosedIsRevoked
<1>10. Asked'
  BY <1>1, <1>3, <1>5 DEF Asked
<1>. QED BY <1>5, <1>7, <1>8, <1>9, <1>10 DEF Inv

LEMMA PromoteStartedKept ==
  ASSUME Inv, PromoteStarted
  PROVE  Inv'
<1>1. TypeOK /\ Owned /\ Starts /\ Phases /\ Asked /\ ClosedIsRevoked /\ InputMeetsAStartedAgent
  BY DEF Inv
<1>2. /\ Started /\ promoting = "starting"
      /\ UNCHANGED <<registered, closed, adapter, token, closing, attaching, lastAsk, escaped, late, closes>>
  BY DEF PromoteStarted, history
<1>3. /\ starting \in Adapters /\ starting' = Detached
      /\ proc' \in [Adapters -> {"unused", "new", "spawned", "live", "dead"}]
      /\ adapter = Detached \/ (adapter = starting /\ proc'[adapter] = "live")
      /\ \A a \in Adapters : proc'[a] # "new"
      /\ Owned'
  BY <1>2, StartedHolds
<1>4. CASE promoting' = "picks" /\ Idle /\ UNCHANGED <<draft, resumable, requests>>
  <2>1. attaching = "none" /\ UNCHANGED <<pc, outcome>>
    BY <1>1, <1>2, <1>4 DEF TypeOK, requests
  <2>2. busy' \in BOOLEAN /\ quiet' \in BOOLEAN
    BY <1>1, <1>4 DEF Idle, activity, TypeOK
  <2>3. TypeOK'
    BY <1>1, <1>2, <1>3, <1>4, <2>1, <2>2 DEF TypeOK
  <2>4. Starts' /\ Phases'
    BY <1>1, <1>2, <1>3, <1>4 DEF Starts, HasStarted, Phases
  <2>5. ClosedIsRevoked' /\ InputMeetsAStartedAgent' /\ Asked'
    BY <1>1, <1>2, <2>1 DEF ClosedIsRevoked, InputMeetsAStartedAgent, Asked
  <2>. QED BY <1>3, <2>3, <2>4, <2>5 DEF Inv
<1>5. CASE Promoted(proc')
  BY <1>2, <1>3, <1>5, PromotedKept
<1>. QED BY <1>4, <1>5 DEF PromoteStarted

LEMMA PicksKept ==
  ASSUME Inv, PicksApplied
  PROVE  Inv'
<1>1. TypeOK /\ Owned /\ Starts /\ Phases
  BY DEF Inv
<1>2. /\ promoting = "picks" /\ Promoted(proc)
      /\ UNCHANGED <<registered, closed, adapter, token, proc, closing, attaching, starting,
                     lastAsk, escaped, late, closes>>
  BY DEF PicksApplied, history
<1>3. starting = Detached
  BY <1>1, <1>2 DEF TypeOK
<1>4. \A a \in Adapters : proc[a] # "new"
  BY <1>1, <1>3, AdaptersAreNotDetached DEF Starts
<1>5. adapter = Detached \/ proc[adapter] \in {"live", "dead"}
  BY <1>1, <1>2, <1>3 DEF Starts, HasStarted
<1>6. Owned'
  BY <1>1, <1>2 DEF Owned
<1>7. Promoted(proc')
  BY <1>2
<1>. QED BY <1>1, <1>2, <1>3, <1>4, <1>5, <1>6, <1>7, PromotedKept DEF TypeOK

LEMMA AttachFailedKept ==
  ASSUME Inv, AttachFailed
  PROVE  Inv'
<1>1. TypeOK /\ Owned /\ Starts /\ Phases /\ Asked /\ ClosedIsRevoked /\ InputMeetsAStartedAgent
  BY DEF Inv
<1>. DEFINE joined == Waiting("joining")
<1>2. /\ starting # Detached /\ starting' = Detached
      /\ attaching = "starting" /\ attaching' = "none"
      /\ proc' = Unspawned(Killed(proc, adapter)) /\ adapter' = Detached
      /\ Deliver(joined, proc', Detached)
      /\ busy' = FALSE /\ quiet' \in (IF joined = {} THEN {FALSE, quiet} ELSE {FALSE})
      /\ UNCHANGED <<registered, draft, closed, resumable, token, closing, promoting,
                     lastAsk, escaped, late, closes>>
  BY DEF AttachFailed, Failed, history
<1>3. joined \in SUBSET Requests /\ \A r \in joined : pc[r] = "joining"
  BY DEF Waiting
<1>. HIDE DEF joined
<1>4. /\ Killed(proc, adapter) \in [Adapters -> {"unused", "new", "spawned", "live", "dead"}]
      /\ \A b \in Adapters : Killed(proc, adapter)[b] =
           IF b = adapter /\ proc[b] \in {"spawned", "live"} THEN "dead" ELSE proc[b]
  BY <1>1, KilledHolds
<1>5. /\ proc' \in [Adapters -> {"unused", "new", "spawned", "live", "dead"}]
      /\ \A b \in Adapters : proc'[b] = IF b = starting /\ Killed(proc, adapter)[b] = "new" THEN "dead"
                                        ELSE Killed(proc, adapter)[b]
  BY <1>2, <1>4 DEF Unspawned
<1>6. Owned'
  BY <1>1, <1>2, <1>4, <1>5 DEF Owned, Running, Starts
<1>7. Starts'
  BY <1>1, <1>2, <1>4, <1>5 DEF Starts, HasStarted
<1>8. /\ pc' \in [Requests -> {"new", "waitClose", "reopening", "joining", "promoting", "done"}]
      /\ outcome' \in [Requests -> {"none", "cold", "agent", "dead", "unstarted", "refused"}]
      /\ InputMeetsAStartedAgent'
      /\ \A r \in Requests : pc'[r] = IF r \in joined THEN "done" ELSE pc[r]
  BY <1>1, <1>2, <1>3, DeliverKept
<1>9. quiet' \in BOOLEAN /\ promoting = "none"
  BY <1>1, <1>2 DEF TypeOK
<1>10. TypeOK'
  BY <1>1, <1>2, <1>5, <1>8, <1>9 DEF TypeOK
<1>11. Phases' /\ ClosedIsRevoked'
  BY <1>1, <1>2 DEF Phases, ClosedIsRevoked
<1>12. Asked'
  BY <1>1, <1>2, <1>3, <1>8 DEF Asked
<1>. QED BY <1>6, <1>7, <1>8, <1>10, <1>11, <1>12 DEF Inv

LEMMA PromoteFailedKept ==
  ASSUME Inv, PromoteFailed
  PROVE  Inv'
<1>1. TypeOK /\ Owned /\ Starts /\ Phases /\ Asked /\ ClosedIsRevoked /\ InputMeetsAStartedAgent
  BY DEF Inv
<1>2. /\ starting # Detached /\ starting' = Detached
      /\ promoting = "starting" /\ promoting' = "none"
      /\ proc' = Unspawned(proc)
      /\ pc' = [r \in Requests |-> IF pc[r] = "promoting" THEN "done" ELSE pc[r]]
      /\ outcome' = [r \in Requests |-> IF pc[r] = "promoting" THEN "refused" ELSE outcome[r]]
      /\ quiet' = FALSE
      /\ UNCHANGED <<registered, draft, closed, resumable, adapter, token, busy, closing, attaching,
                     lastAsk, escaped, late, closes>>
  BY DEF PromoteFailed, Failed, session, history
<1>3. draft /\ attaching = "none"
  BY <1>1, <1>2 DEF Phases
<1>4. /\ proc' \in [Adapters -> {"unused", "new", "spawned", "live", "dead"}]
      /\ \A b \in Adapters : proc'[b] = IF b = starting /\ proc[b] = "new" THEN "dead" ELSE proc[b]
  BY <1>1, <1>2 DEF Unspawned, TypeOK
<1>5. Owned' /\ Starts'
  BY <1>1, <1>2, <1>3, <1>4 DEF Owned, Running, Starts
<1>6. TypeOK'
  BY <1>1, <1>2, <1>3, <1>4 DEF TypeOK
<1>7. Phases' /\ ClosedIsRevoked'
  BY <1>1, <1>2 DEF Phases, ClosedIsRevoked
<1>8. InputMeetsAStartedAgent'
  BY <1>1, <1>2 DEF InputMeetsAStartedAgent, Requests
<1>9. Asked'
  BY <1>1, <1>2 DEF Asked
<1>. QED BY <1>5, <1>6, <1>7, <1>8, <1>9 DEF Inv

-----------------------------------------------------------------------------
(* Closing *)

(* The end of a close, by whoever began it: what waited for it reopens.     *)
LEMMA TeardownKept ==
  ASSUME Inv, Teardown, token' = FALSE \/ (token' = token /\ closing),
         UNCHANGED <<registered, draft, resumable, attaching, promoting, starting, late>>,
         closes' \in 0..MaxCloses, lastAsk' = "close" \/ (closing /\ lastAsk' = lastAsk)
  PROVE  Inv'
<1>1. TypeOK /\ Owned /\ Starts /\ Phases /\ Asked /\ ClosedIsRevoked /\ InputMeetsAStartedAgent
  BY DEF Inv
<1>2. /\ proc' = Killed(proc, adapter) /\ escaped' = escaped \cup KillMisses(adapter)
      /\ adapter' = Detached /\ closed' = TRUE /\ closing' = FALSE /\ busy' = FALSE
      /\ quiet' = (quiet /\ (adapter = Detached \/ proc[adapter] = "dead"))
      /\ pc' = [r \in Requests |->
              IF pc[r] # "waitClose" THEN pc[r]
              ELSE IF registered \/ r \in Reopens THEN "reopening" ELSE "done"]
      /\ outcome' = [r \in Requests |-> IF pc[r] = "waitClose" /\ pc'[r] = "done" THEN "cold" ELSE outcome[r]]
  BY DEF Teardown
<1>3. /\ proc' \in [Adapters -> {"unused", "new", "spawned", "live", "dead"}]
      /\ \A b \in Adapters : proc'[b] =
           IF b = adapter /\ proc[b] \in {"spawned", "live"} THEN "dead" ELSE proc[b]
  BY <1>1, <1>2, KilledHolds
<1>4. escaped' \subseteq Adapters /\ (adapter \in Adapters /\ proc[adapter] = "new" => adapter \in escaped')
  BY <1>1, <1>2, AdaptersAreNotDetached DEF KillMisses, TypeOK
<1>5. quiet' \in BOOLEAN /\ token' \in BOOLEAN
  BY <1>1, <1>2 DEF TypeOK
<1>6. /\ pc' \in [Requests -> {"new", "waitClose", "reopening", "joining", "promoting", "done"}]
      /\ outcome' \in [Requests -> {"none", "cold", "agent", "dead", "unstarted", "refused"}]
  BY <1>1, <1>2 DEF TypeOK
<1>7. TypeOK'
  BY <1>1, <1>2, <1>3, <1>4, <1>5, <1>6 DEF TypeOK
<1>8. Owned'
  <2>1. escaped \subseteq escaped'
    BY <1>2
  <2>2. ASSUME NEW a \in Adapters, proc'[a] \in Running \cup {"new"} PROVE a \in escaped'
    <3>1. proc[a] \in Running \cup {"new"} /\ (a = adapter => proc[a] = "new")
      BY <1>3, <2>2 DEF Running
    <3>. QED BY <1>1, <1>4, <2>1, <3>1 DEF Owned
  <2>. QED BY <2>2 DEF Owned
<1>9. Starts'
  BY <1>1, <1>2, <1>3 DEF Starts, HasStarted
<1>10. Phases' /\ ClosedIsRevoked'
  BY <1>1, <1>2 DEF Phases, ClosedIsRevoked
<1>11. InputMeetsAStartedAgent'
  BY <1>1, <1>2 DEF InputMeetsAStartedAgent, Requests
<1>12. Asked'
  <2>1. ASSUME registered, lastAsk' = "open" PROVE \E r \in Requests : pc'[r] = "reopening"
    <3>1. closing /\ lastAsk = "open"
      BY <2>1
    <3>2. PICK r \in Requests : pc[r] = "waitClose"
      BY <1>1, <2>1, <3>1 DEF Asked
    <3>. QED BY <1>2, <2>1, <3>2
  <2>. QED BY <1>2, <2>1 DEF Asked
<1>. QED BY <1>7, <1>8, <1>9, <1>10, <1>11, <1>12 DEF Inv

LEMMA CloseKept ==
  ASSUME Inv, Close
  PROVE  Inv'
<1>1. TypeOK /\ Owned /\ Starts /\ Phases /\ Asked /\ ClosedIsRevoked /\ InputMeetsAStartedAgent
  BY DEF Inv
<1>2. /\ registered /\ ~closed /\ ~closing /\ closes < MaxCloses
      /\ closes' = closes + 1 /\ lastAsk' = "close" /\ token' = FALSE
      /\ UNCHANGED <<registered, draft, resumable, attaching, promoting, starting, late>>
  BY DEF Close
<1>3. closes' \in 0..MaxCloses
  BY <1>1, <1>2, BoundsAssumption DEF TypeOK
<1>4. CASE /\ closing' = TRUE
           /\ UNCHANGED <<closed, adapter, activity, proc, requests, escaped>>
  <2>1. UNCHANGED <<closed, adapter, busy, quiet, proc, pc, outcome, escaped>>
    BY <1>4 DEF activity, requests
  <2>2. TypeOK'
    BY <1>1, <1>2, <1>3, <1>4, <2>1 DEF TypeOK
  <2>3. Owned' /\ Starts' /\ Phases'
    BY <1>1, <1>2, <2>1 DEF Owned, Starts, HasStarted, Phases
  <2>4. Asked' /\ ClosedIsRevoked' /\ InputMeetsAStartedAgent'
    BY <1>1, <1>2, <2>1 DEF Asked, ClosedIsRevoked, InputMeetsAStartedAgent
  <2>. QED BY <2>2, <2>3, <2>4 DEF Inv
<1>5. CASE Teardown
  BY <1>2, <1>3, <1>5, TeardownKept
<1>. QED BY <1>4, <1>5 DEF Close

LEMMA CloseFinishKept ==
  ASSUME Inv, CloseFinish
  PROVE  Inv'
<1>1. /\ closing /\ Teardown
      /\ UNCHANGED <<registered, draft, resumable, token, attaching, promoting, starting, lastAsk, late, closes>>
  BY DEF CloseFinish
<1>2. closes' \in 0..MaxCloses
  BY <1>1 DEF Inv, TypeOK
<1>. QED BY <1>1, <1>2, TeardownKept

LEMMA KillKept ==
  ASSUME Inv, Kill
  PROVE  Inv'
<1>1. TypeOK /\ Owned /\ Starts /\ Phases /\ Asked /\ ClosedIsRevoked /\ InputMeetsAStartedAgent
  BY DEF Inv
<1>2. /\ registered' = FALSE /\ token' = FALSE
      /\ proc' = Killed(proc, adapter) /\ escaped' = escaped \cup KillMisses(adapter)
      /\ busy' = FALSE /\ quiet' = FALSE
      /\ UNCHANGED <<draft, closed, resumable, adapter, closing, attaching, promoting, starting, pc, outcome,
                     lastAsk, late, closes>>
  BY DEF Kill, tasks, requests
<1>3. /\ proc' \in [Adapters -> {"unused", "new", "spawned", "live", "dead"}]
      /\ \A b \in Adapters : proc'[b] =
           IF b = adapter /\ proc[b] \in {"spawned", "live"} THEN "dead" ELSE proc[b]
  BY <1>1, <1>2, KilledHolds
<1>4. escaped' \subseteq Adapters /\ (adapter \in Adapters /\ proc[adapter] = "new" => adapter \in escaped')
  BY <1>1, <1>2, AdaptersAreNotDetached DEF KillMisses, TypeOK
<1>5. TypeOK'
  BY <1>1, <1>2, <1>3, <1>4 DEF TypeOK
<1>6. Owned'
  <2>1. escaped \subseteq escaped'
    BY <1>2
  <2>2. ASSUME NEW a \in Adapters, proc'[a] \in Running \cup {"new"} PROVE a \in escaped'
    <3>1. proc[a] \in Running \cup {"new"} /\ (a = adapter => proc[a] = "new")
      BY <1>3, <2>2 DEF Running
    <3>. QED BY <1>1, <1>4, <2>1, <3>1 DEF Owned
  <2>. QED BY <2>2 DEF Owned
<1>7. Starts'
  <2>1. adapter \in Adapters \cup {Detached}
    BY <1>1 DEF TypeOK
  <2>2. HasStarted(adapter) => HasStarted(adapter)'
    BY <1>2, <1>3, <2>1 DEF HasStarted
  <2>. QED BY <1>1, <1>2, <1>3, <2>2 DEF Starts
<1>8. Phases' /\ Asked' /\ ClosedIsRevoked' /\ InputMeetsAStartedAgent'
  BY <1>1, <1>2 DEF Phases, Asked, ClosedIsRevoked, InputMeetsAStartedAgent
<1>. QED BY <1>5, <1>6, <1>7, <1>8 DEF Inv

-----------------------------------------------------------------------------
(* The agent and the clock *)

LEMMA ExitKept ==
  ASSUME Inv, NEW a \in Adapters, AgentExits(a)
  PROVE  Inv'
<1>1. TypeOK /\ Owned /\ Starts /\ Phases /\ Asked /\ ClosedIsRevoked /\ InputMeetsAStartedAgent
  BY DEF Inv
<1>2. /\ proc' = [proc EXCEPT ![a] = "dead"]
      /\ busy' \in BOOLEAN /\ quiet' \in BOOLEAN
      /\ UNCHANGED <<registered, draft, closed, resumable, adapter, token, closing, attaching, promoting, starting,
                     pc, outcome, lastAsk, escaped, late, closes>>
  BY <1>1 DEF AgentExits, session, activity, tasks, requests, history, TypeOK
<1>3. TypeOK' /\ \A b \in Adapters : proc'[b] = IF b = a THEN "dead" ELSE proc[b]
  BY <1>1, <1>2 DEF TypeOK
<1>4. Owned'
  BY <1>1, <1>2, <1>3 DEF Owned, Running
<1>5. Starts'
  BY <1>1, <1>2, <1>3 DEF Starts, HasStarted, TypeOK
<1>6. Phases' /\ Asked' /\ ClosedIsRevoked' /\ InputMeetsAStartedAgent'
  BY <1>1, <1>2 DEF Phases, Asked, ClosedIsRevoked, InputMeetsAStartedAgent
<1>. QED BY <1>3, <1>4, <1>5, <1>6 DEF Inv

(* Steps that only change whether the session is busy or quiet. *)
LEMMA ActivityKept ==
  ASSUME Inv, busy' \in BOOLEAN, quiet' \in BOOLEAN, UNCHANGED <<session, proc, tasks, requests, history>>
  PROVE  Inv'
<1>1. TypeOK /\ Owned /\ Starts /\ Phases /\ Asked /\ ClosedIsRevoked /\ InputMeetsAStartedAgent
  BY DEF Inv
<1>2. UNCHANGED <<registered, draft, closed, resumable, adapter, token, proc, closing, attaching, promoting, starting,
                  pc, outcome, lastAsk, escaped, late, closes>>
  BY DEF session, tasks, requests, history
<1>3. TypeOK'
  BY <1>1, <1>2 DEF TypeOK
<1>4. Owned' /\ Starts' /\ Phases'
  BY <1>1, <1>2 DEF Owned, Starts, HasStarted, Phases
<1>5. Asked' /\ ClosedIsRevoked' /\ InputMeetsAStartedAgent'
  BY <1>1, <1>2 DEF Asked, ClosedIsRevoked, InputMeetsAStartedAgent
<1>. QED BY <1>3, <1>4, <1>5 DEF Inv

LEMMA InitInv == Init => Inv
<1>. SUFFICES ASSUME Init PROVE Inv
  OBVIOUS
<1>1. TypeOK
  <2>1. /\ registered \in BOOLEAN /\ draft \in BOOLEAN /\ closed \in BOOLEAN /\ resumable \in BOOLEAN
        /\ token \in BOOLEAN /\ busy \in BOOLEAN /\ quiet \in BOOLEAN /\ closing \in BOOLEAN /\ late \in BOOLEAN
    BY DEF Init
  <2>2. closes \in 0..MaxCloses
    BY BoundsAssumption DEF Init
  <2>. QED BY <2>1, <2>2 DEF Init, TypeOK
<1>2. Owned /\ Starts /\ Phases
  BY DEF Init, Owned, Starts, HasStarted, Phases, Running
<1>3. Asked /\ ClosedIsRevoked
  BY DEF Init, Asked, ClosedIsRevoked
<1>4. InputMeetsAStartedAgent
  BY DEF Init, InputMeetsAStartedAgent, Requests
<1>. QED BY <1>1, <1>2, <1>3, <1>4 DEF Inv

LEMMA StepKept ==
  ASSUME Inv, [Next]_vars
  PROVE  Inv'
<1>1. CASE UNCHANGED vars
  BY <1>1, ActivityKept DEF vars, activity, Inv, TypeOK
<1>2. CASE TurnEnds \/ GoQuiet
  <2>1. busy \in BOOLEAN /\ quiet \in BOOLEAN
    BY DEF Inv, TypeOK
  <2>. QED BY <1>2, <2>1, ActivityKept DEF TurnEnds, GoQuiet
<1>3. CASE \/ \E r \in Sends : Send(r)
           \/ \E r \in Reopens : Reopen(r)
           \/ \E r \in Requests : ReopenFinish(r)
  BY <1>3, SendKept, ReopenKept, ReopenFinishKept
<1>4. CASE Subscribe \/ Attach \/ AttachInstall \/ Spawn
  BY <1>4, ListKept, AttachInstallKept, SpawnKept
<1>5. CASE AttachStarted \/ PromoteStarted \/ PicksApplied \/ AttachFailed \/ PromoteFailed
  BY <1>5, AttachStartedKept, PromoteStartedKept, PicksKept, AttachFailedKept, PromoteFailedKept
<1>6. CASE UserClose \/ Sweep \/ CloseFinish \/ Kill
  BY <1>6, CloseKept, CloseFinishKept, KillKept DEF UserClose, Sweep
<1>7. CASE \E a \in Adapters : AgentExits(a)
  BY <1>7, ExitKept
<1>. QED BY <1>1, <1>2, <1>3, <1>4, <1>5, <1>6, <1>7 DEF Next

LEMMA InvAlways == Spec => []Inv
<1>1. Inv /\ [Next]_vars => Inv'
  BY StepKept
<1>. QED BY InitInv, <1>1, PTL DEF Spec

-----------------------------------------------------------------------------
(* Every agent process belongs to a session that is open and reaches it, but *)
(* for the three ways named with the property (manager.ts).                  *)
THEOREM AgentsKeepTheirSession == Spec => []EveryAgentHasItsSession
<1>1. Inv => EveryAgentHasItsSession
  BY DEF Inv, Owned, EveryAgentHasItsSession
<1>. QED BY InvAlways, <1>1, PTL

(* No message reaches an adapter whose start() has not finished, whatever    *)
(* closes, failures and re-attaches it raced (ensureLive).                   *)
THEOREM InputAlwaysMeetsAStartedAgent == Spec => []InputMeetsAStartedAgent
<1>1. Inv => InputMeetsAStartedAgent
  BY DEF Inv
<1>. QED BY InvAlways, <1>1, PTL

(* A close revokes the session's credential, and a reopen that was asked for *)
(* after it prevails (runClose, reopenSession).                              *)
THEOREM ClosesAreAlwaysSafe == Spec => []CloseSafety
<1>1. Inv => ReopenWins
  BY DEF Inv, Asked, ReopenWins, InFlight
<1>2. Inv => CloseSafety
  BY <1>1 DEF Inv, CloseSafety
<1>. QED BY InvAlways, <1>2, PTL

-----------------------------------------------------------------------------
(* Whoever waits, waits for something that is under way *)

(* A request that waits for a close, a re-attach or a promotion is joined   *)
(* to one in flight, and a start() that is awaited can still settle: its    *)
(* process is to be spawned, is to answer, or is dead.                      *)
NobodyWaitsForNothing ==
  /\ \A r \in Requests :
       /\ pc[r] = "waitClose" => closing
       /\ pc[r] = "joining" => attaching # "none"
       /\ pc[r] = "promoting" => promoting # "none"
  /\ starting # Detached => proc[starting] \in {"new", "spawned", "dead"}

(* A fresh adapter is one that can settle. *)
LEMMA FreshCanSettle ==
  ASSUME TypeOK, NEW p \in [Adapters -> {"unused", "new", "spawned", "live", "dead"}], StartFresh(p)
  PROVE  starting' # Detached /\ proc'[starting'] = "new"
<1>1. Fresh \in Adapters /\ Fresh # Detached
  BY FreshIsUnused DEF StartFresh
<1>. QED BY <1>1 DEF StartFresh

(* A message that goes on is answered, or joins what is in flight or begins. *)
LEMMA GoLiveWaits ==
  ASSUME Inv, NobodyWaitsForNothing, NEW r \in Sends, GoLive(r), UNCHANGED closing
  PROVE  NobodyWaitsForNothing'
<1>. USE DEF NobodyWaitsForNothing
<1>0. TypeOK /\ r \in Requests
  BY DEF Inv, Requests
<1>1. CASE MustJoin /\ pc' = [pc EXCEPT ![r] = "joining"] /\ UNCHANGED <<proc, promoting, starting>>
           /\ attaching' = (IF attaching = "none" THEN "listing" ELSE attaching)
  BY <1>0, <1>1 DEF TypeOK
<1>2. CASE promoting # "none" /\ pc' = [pc EXCEPT ![r] = "promoting"]
           /\ UNCHANGED <<proc, attaching, promoting, starting>>
  BY <1>0, <1>2 DEF TypeOK
<1>3. CASE StartFresh(proc) /\ promoting' = "starting" /\ pc' = [pc EXCEPT ![r] = "promoting"]
           /\ UNCHANGED attaching
  <2>1. starting' # Detached /\ proc'[starting'] = "new"
    BY <1>0, <1>3, FreshCanSettle DEF TypeOK
  <2>. QED BY <1>0, <1>3, <2>1 DEF TypeOK
<1>4. CASE pc' = [pc EXCEPT ![r] = "done"] /\ UNCHANGED <<proc, attaching, promoting, starting>>
  BY <1>0, <1>4 DEF TypeOK
<1>5. CASE Deliver({r}, proc, adapter) /\ UNCHANGED <<proc, attaching, promoting, starting>>
  BY <1>0, <1>5 DEF TypeOK, Deliver
<1>. QED BY <1>1, <1>2, <1>3, <1>4, <1>5 DEF GoLive

(* What stops processes leaves what is being started able to settle. *)
LEMMA KilledCanSettle ==
  ASSUME TypeOK, NEW a, starting # Detached, proc[starting] \in {"new", "spawned", "dead"}
  PROVE  Killed(proc, a)[starting] \in {"new", "spawned", "dead"}
BY KilledHolds DEF TypeOK

LEMMA WaitsKept ==
  ASSUME Inv, NobodyWaitsForNothing, [Next]_vars
  PROVE  NobodyWaitsForNothing'
<1>. USE DEF NobodyWaitsForNothing
<1>0. /\ TypeOK /\ DOMAIN pc = Requests /\ pc = [q \in Requests |-> pc[q]]
      /\ Sends \subseteq Requests /\ Reopens \subseteq Requests
  BY DEF Inv, TypeOK, Requests
<1>1. CASE UNCHANGED vars
  BY <1>1 DEF vars, tasks, requests
<1>2. ASSUME NEW r \in Sends, Send(r) PROVE NobodyWaitsForNothing'
  <2>1. CASE /\ closing \/ closed
             /\ pc' = [pc EXCEPT ![r] = IF closing THEN "waitClose" ELSE "reopening"]
             /\ UNCHANGED <<proc, closing, attaching, promoting, starting>>
    BY <1>0, <2>1
  <2>2. CASE GoLive(r) /\ UNCHANGED closing
    BY <2>2, GoLiveWaits
  <2>. QED BY <1>2, <2>1, <2>2 DEF Send
<1>3. ASSUME NEW r \in Reopens, Reopen(r) PROVE NobodyWaitsForNothing'
  BY <1>0, <1>3 DEF Reopen, tasks
<1>4. ASSUME NEW r \in Requests, ReopenFinish(r) PROVE NobodyWaitsForNothing'
  <2>1. CASE pc' = [pc EXCEPT ![r] = "done"] /\ UNCHANGED <<proc, closing, attaching, promoting, starting>>
    BY <1>0, <2>1
  <2>. QED BY <1>4, <2>1, GoLiveWaits DEF ReopenFinish
<1>5. CASE Subscribe \/ Attach
  BY <1>5 DEF Subscribe, Attach, requests
<1>6. CASE AttachInstall
  <2>1. starting' # Detached /\ proc'[starting'] = "new"
    BY <1>0, <1>6, FreshCanSettle, KilledHolds DEF AttachInstall
  <2>. QED BY <1>6, <2>1 DEF AttachInstall, requests
<1>7. CASE Spawn
  BY <1>0, <1>7 DEF Spawn, tasks, requests, TypeOK
<1>8. CASE AttachStarted
  BY <1>0, <1>8 DEF AttachStarted, Started, Deliver, Waiting, TypeOK
<1>9. CASE PromoteStarted \/ PicksApplied
  <2>1. UNCHANGED <<closing, attaching>> /\ (starting' = Detached \/ UNCHANGED <<starting, proc>>)
    BY <1>9 DEF PromoteStarted, PicksApplied, Started
  <2>2. \/ promoting' = "picks" /\ UNCHANGED pc
        \/ pc' = [r \in Requests |-> IF r \in Waiting("promoting") THEN "done" ELSE pc[r]]
    BY <1>9 DEF PromoteStarted, PicksApplied, Promoted, Deliver, requests
  <2>. QED BY <1>0, <2>1, <2>2 DEF Waiting
<1>10. CASE AttachFailed \/ PromoteFailed
  <2>1. UNCHANGED closing /\ starting' = Detached
    BY <1>10 DEF AttachFailed, PromoteFailed, Failed
  <2>2. CASE AttachFailed
    BY <1>0, <2>1, <2>2 DEF AttachFailed, Deliver, Waiting
  <2>3. CASE PromoteFailed
    BY <1>0, <2>1, <2>3 DEF PromoteFailed
  <2>. QED BY <1>10, <2>2, <2>3
<1>11. CASE UserClose \/ Sweep \/ CloseFinish
  <2>1. UNCHANGED <<attaching, promoting, starting>>
    BY <1>11 DEF UserClose, Sweep, Close, CloseFinish
  <2>2. CASE Teardown
    BY <1>0, <2>1, <2>2, KilledCanSettle DEF Teardown
  <2>3. CASE ~Teardown
    <3>1. closing' = TRUE /\ UNCHANGED <<proc, pc>>
      BY <1>11, <2>3 DEF UserClose, Sweep, Close, CloseFinish, requests
    <3>. QED BY <2>1, <3>1
  <2>. QED BY <2>2, <2>3
<1>12. CASE Kill
  BY <1>0, <1>12, KilledCanSettle DEF Kill, tasks, requests
<1>13. ASSUME NEW a \in Adapters, AgentExits(a) PROVE NobodyWaitsForNothing'
  BY <1>0, <1>13 DEF AgentExits, tasks, requests, TypeOK
<1>14. CASE TurnEnds \/ GoQuiet
  BY <1>14 DEF TurnEnds, GoQuiet, tasks, requests
<1>. QED BY <1>1, <1>2, <1>3, <1>4, <1>5, <1>6, <1>7, <1>8, <1>9, <1>10, <1>11, <1>12, <1>13, <1>14 DEF Next

(* No message waits for a close, a re-attach or a promotion that is over,   *)
(* whatever closes, kills, exits and failures it raced: each of them, when  *)
(* it settles, takes along whoever waits for it (manager.ts: closeInFlight, *)
(* reattachInFlight, promoteInFlight).                                      *)
THEOREM NobodyEverWaitsForNothing == Spec => []NobodyWaitsForNothing
<1>1. Init => NobodyWaitsForNothing
  BY DEF Init, NobodyWaitsForNothing
<1>2. Inv /\ NobodyWaitsForNothing /\ [Next]_vars => NobodyWaitsForNothing'
  BY WaitsKept
<1>. QED BY InvAlways, <1>1, <1>2, PTL DEF Spec
=============================================================================
