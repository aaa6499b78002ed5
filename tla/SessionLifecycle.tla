-------------------------- MODULE SessionLifecycle --------------------------
(***************************************************************************)
(* How one session gets and loses its agent: SessionManager                *)
(* (server/src/manager.ts) promotes a draft, closes, reopens, re-attaches  *)
(* and kills, the idle reaper (server/src/idle_reaper.ts) closes what went *)
(* quiet, and `send.message` and `sub` bring a cold session back.          *)
(*                                                                         *)
(* Every operation is asynchronous and the session changes while it waits: *)
(* for the agent's close, for `git worktree list`, for an agent to start.  *)
(* An action is what runs from one such wait to the next.  An `await` of a *)
(* promise that is already settled (kill() never waits) does not let other *)
(* requests in, and whoever waits for a promise goes on in the step that   *)
(* settles it.  The session is bound to a worktree of a known project.     *)
(*                                                                         *)
(* A restart of the server loses everything but the persisted row, so its  *)
(* outcomes are initial states.  A definition whose comment starts with    *)
(* "Mutant:" is not part of the specification: it is a plausible bug in    *)
(* the definition that follows, and shows that a property is sensitive to  *)
(* that code.                                                              *)
(***************************************************************************)
EXTENDS Integers, FiniteSets

CONSTANTS
  Sends,        \* messages clients send
  Reopens,      \* requests to reopen the session
  AgentsFail,   \* may an agent exit or fail to start by itself?
  UsersClose,   \* do users close and kill the session?
  MaxAdapters,  \* bound: agent adapters created
  MaxCloses     \* bound: closes, by a user or by the reaper

ASSUME RequestsAssumption == Sends \cap Reopens = {}
ASSUME FlagsAssumption == AgentsFail \in BOOLEAN /\ UsersClose \in BOOLEAN
ASSUME BoundsAssumption == MaxAdapters \in Nat /\ MaxCloses \in Nat

VARIABLES
  registered,   \* it is in `sessions`: false once killed
  draft,        \* lifecycle.phase
  closed,
  resumable,    \* it holds a native session id
  adapter,      \* its adapter, Detached for the placeholder
  token,        \* its agent credential authenticates
  busy,         \* isBusy(status)
  quiet,        \* lastActivityAt is older than the idle window
  proc,         \* per adapter: what became of its process
  closing,      \* closeInFlight
  attaching,    \* reattachInFlight: "none", "listing" or "starting"
  promoting,    \* promoteInFlight: "none", "starting" or "picks"
  starting,     \* the adapter whose start() is awaited
  pc, outcome,  \* per request: where it waits, and what a message met
  (* history *)
  lastAsk,      \* what was last asked for: "open" or "close"
  escaped,      \* adapters whose process the session lost hold of
  late,         \* an agent was started for a session closed, closing or killed
  closes

session == <<registered, draft, closed, resumable, adapter, token>>
activity == <<busy, quiet>>
tasks == <<closing, attaching, promoting, starting>>
requests == <<pc, outcome>>
history == <<lastAsk, escaped, late, closes>>
vars == <<session, activity, proc, tasks, requests, history>>

Detached == 0
Adapters == 1..MaxAdapters
Requests == Sends \cup Reopens

(* A new draft, or a row of the store after a restart. *)
Init ==
  /\ registered = TRUE /\ adapter = Detached /\ token = FALSE
  /\ draft \in BOOLEAN
  /\ closed \in (IF draft THEN {FALSE} ELSE BOOLEAN)
  /\ resumable \in (IF draft THEN {FALSE} ELSE BOOLEAN)
  /\ busy = FALSE /\ quiet = ~draft
  /\ proc = [a \in Adapters |-> "unused"]
  /\ closing = FALSE /\ attaching = "none" /\ promoting = "none" /\ starting = Detached
  /\ pc = [r \in Requests |-> "new"] /\ outcome = [r \in Requests |-> "none"]
  /\ lastAsk = (IF closed THEN "close" ELSE "open") /\ escaped = {}
  /\ late = FALSE /\ closes = 0

-----------------------------------------------------------------------------
(* Adapters *)

Running == {"spawned", "live"}
Unused == {a \in Adapters : proc[a] = "unused"}
Fresh == CHOOSE a \in Unused : TRUE

(* adapter.kill(): an agent that was not spawned yet is spawned all the    *)
(* same (AcpAdapter.start awaits realpath before it connects).             *)
Killed(p, a) ==
  [b \in Adapters |-> IF b = a /\ p[b] \in Running THEN "dead" ELSE p[b]]
KillMisses(a) == IF a # Detached /\ proc[a] = "new" THEN {a} ELSE {}

(* What a message that is handed to adapter a meets. *)
Met(p, a) ==
  CASE a = Detached -> "cold"
    [] a # Detached /\ p[a] = "live" -> "agent"
    [] a # Detached /\ p[a] = "dead" -> "dead"
    [] OTHER -> "unstarted"

(* The messages rs are handed to adapter a, and the requests rs are over. *)
Deliver(rs, p, a) ==
  /\ pc' = [r \in Requests |-> IF r \in rs THEN "done" ELSE pc[r]]
  /\ outcome' = [r \in Requests |-> IF r \in rs \cap Sends THEN Met(p, a) ELSE outcome[r]]

Waiting(where) == {r \in Requests : pc[r] = where}

(* Bound: an adapter is left for every message that may still need one. *)
Room == Cardinality(Unused) >
          Cardinality(Sends \cap (Waiting("waitClose") \cup Waiting("reopening")))
          + IF attaching = "listing" THEN 1 ELSE 0

(* start() of the fresh adapter, which replaces the session's; startOpts   *)
(* mints the token.  Bound: there is an adapter left.                       *)
StartFresh(p) ==
  /\ Unused # {}
  /\ adapter' = Fresh /\ starting' = Fresh
  /\ proc' = [p EXCEPT ![Fresh] = "new"]
  /\ token' = TRUE
  /\ late' = (late \/ closed' \/ closing \/ ~registered)

-----------------------------------------------------------------------------
(* Bringing a session back *)

(* Mutant: a session that is being re-attached does not look cold. *)
MustJoinIfCold == registered /\ adapter = Detached /\ ~draft /\ resumable

(* ensureLive of an open session: there is a re-attach to wait for, one in *)
(* flight or one it starts.                                                *)
MustJoin ==
  attaching # "none" \/ (registered /\ adapter = Detached /\ ~draft /\ resumable)

(* A message goes on with a session that is open: ensureLive, then         *)
(* promotePendingSession, then sendUserMessage.                            *)
GoLive(r) ==
  \/ (* wait for a re-attach *)
     /\ MustJoin
     /\ attaching' = (IF attaching = "none" THEN "listing" ELSE attaching)
     /\ pc' = [pc EXCEPT ![r] = "joining"]
     /\ UNCHANGED <<adapter, token, activity, proc, promoting, starting, outcome, escaped, late>>
  \/ (* a draft that is being promoted *)
     /\ draft /\ promoting # "none"
     /\ pc' = [pc EXCEPT ![r] = "promoting"]
     /\ UNCHANGED <<adapter, token, activity, proc, attaching, promoting, starting, outcome,
                    escaped, late>>
  \/ (* a draft to promote; the agent of an attempt that failed is not killed *)
     /\ draft /\ promoting = "none" /\ registered
     /\ escaped' = escaped \cup {a \in Adapters : a = adapter /\ proc[a] \in Running}
     /\ StartFresh(proc)
     /\ promoting' = "starting" /\ pc' = [pc EXCEPT ![r] = "promoting"]
     /\ UNCHANGED <<activity, attaching, outcome>>
  \/ (* a draft that was killed: the promotion reports an error *)
     /\ draft /\ promoting = "none" /\ ~registered
     /\ pc' = [pc EXCEPT ![r] = "done"] /\ outcome' = [outcome EXCEPT ![r] = "refused"]
     /\ quiet' = FALSE
     /\ UNCHANGED <<adapter, token, busy, proc, attaching, promoting, starting, escaped, late>>
  \/ (* nothing to do, or nothing that can be done *)
     /\ ~draft /\ ~MustJoin
     /\ Deliver({r}, proc, adapter)
     /\ busy' = (busy \/ Met(proc, adapter) = "agent") /\ quiet' = FALSE
     /\ UNCHANGED <<adapter, token, proc, attaching, promoting, starting, escaped, late>>

(* `send.message`, up to its first wait (ensureLiveForInput). *)
Send(r) ==
  /\ pc[r] = "new" /\ registered /\ Room
  /\ lastAsk' = "open"
  /\ UNCHANGED <<registered, draft, closed, resumable, closing, closes>>
  /\ \/ /\ closing \/ closed
        /\ pc' = [pc EXCEPT ![r] = IF closing THEN "waitClose" ELSE "reopening"]
        /\ UNCHANGED <<adapter, token, activity, proc, attaching, promoting, starting, outcome,
                       escaped, late>>
     \/ ~closing /\ ~closed /\ GoLive(r)

(* Mutant: a reopen does not wait for the close in flight. *)
ReopenAtOnce(r) ==
  /\ pc[r] = "new" /\ registered
  /\ lastAsk' = "open"
  /\ pc' = [pc EXCEPT ![r] = IF closed THEN "reopening" ELSE "done"]
  /\ UNCHANGED <<session, activity, proc, tasks, outcome, escaped, late, closes>>

(* reopenSession, up to its first wait. *)
Reopen(r) ==
  /\ pc[r] = "new" /\ registered
  /\ lastAsk' = "open"
  /\ pc' = [pc EXCEPT ![r] = IF closing THEN "waitClose"
                             ELSE IF closed THEN "reopening" ELSE "done"]
  /\ UNCHANGED <<session, activity, proc, tasks, outcome, escaped, late, closes>>

(* reopenSession has the worktrees, and opens the session. *)
ReopenFinish(r) ==
  /\ pc[r] = "reopening"
  /\ closed' = FALSE
  /\ \/ /\ r \in Reopens
        /\ pc' = [pc EXCEPT ![r] = "done"]
        /\ UNCHANGED <<adapter, token, activity, proc, attaching, promoting, starting, outcome,
                       escaped, late>>
     \/ r \in Sends /\ GoLive(r)
  /\ UNCHANGED <<registered, draft, resumable, closing, lastAsk, closes>>

(* `sub`: ensureLive, with nobody waiting for it. *)
Subscribe ==
  /\ attaching = "none" /\ Room /\ MustJoin /\ ~closed
  /\ attaching' = "listing"
  /\ UNCHANGED <<session, activity, proc, closing, promoting, starting, requests, history>>

(* `session.attach`: a re-attach of whatever the session is now. *)
Attach ==
  /\ registered /\ attaching = "none" /\ Room /\ resumable
  /\ attaching' = "listing"
  /\ UNCHANGED <<session, activity, proc, closing, promoting, starting, requests, history>>

(* Mutant: the agent that is swapped out is not stopped. *)
AttachInstallOnly ==
  /\ attaching = "listing"
  /\ UNCHANGED <<registered, draft, closed, resumable, activity, closing, promoting, requests,
                 lastAsk, closes>>
  /\ StartFresh(proc)
  /\ attaching' = "starting"
  /\ escaped' = escaped \cup IF closed \/ ~registered THEN {Fresh} ELSE {}

(* doReattachSession has the worktrees: swap the adapters, stop the old    *)
(* one, start the new one.  Nothing looks again at the session, which may  *)
(* have been closed or killed in the meantime.                             *)
AttachInstall ==
  /\ attaching = "listing"
  /\ UNCHANGED <<registered, draft, closed, resumable, activity, closing, promoting, requests,
                 lastAsk, closes>>
  /\ StartFresh(Killed(proc, adapter))
  /\ attaching' = "starting"
  /\ escaped' = escaped \cup IF closed \/ ~registered THEN {Fresh} ELSE {}

-----------------------------------------------------------------------------
(* Starting an agent *)

(* start() spawned the process. *)
Spawn ==
  /\ starting # Detached /\ proc[starting] = "new"
  /\ proc' = [proc EXCEPT ![starting] = "spawned"]
  /\ UNCHANGED <<session, activity, tasks, requests, history>>

(* start() resolves: the agent reported `idle`, to the session if it is    *)
(* still bound to it.                                                      *)
Started ==
  /\ starting # Detached /\ proc[starting] = "spawned"
  /\ proc' = [proc EXCEPT ![starting] = "live"]
  /\ starting' = Detached

Idle == IF adapter = starting THEN busy' = FALSE /\ quiet' = FALSE ELSE UNCHANGED activity

AttachStarted ==
  /\ Started /\ attaching = "starting"
  /\ attaching' = "none"
  /\ LET joined == Waiting("joining")
     IN  /\ Deliver(joined, proc', adapter)
         /\ IF joined = {} THEN Idle
            ELSE busy' = (Met(proc', adapter) = "agent") /\ quiet' = FALSE
  /\ UNCHANGED <<session, closing, promoting, history>>

(* markStarted, and the messages that waited for the promotion. *)
Promoted(p) ==
  /\ promoting' = "none" /\ draft' = FALSE
  /\ resumable' = (resumable \/ adapter # Detached)
  /\ Deliver(Waiting("promoting"), p, adapter)
  /\ busy' = (Met(p, adapter) = "agent") /\ quiet' = FALSE

(* The picks of the draft's configuration, if any, are applied first. *)
PromoteStarted ==
  /\ Started /\ promoting = "starting"
  /\ \/ promoting' = "picks" /\ Idle /\ UNCHANGED <<draft, resumable, requests>>
     \/ Promoted(proc')
  /\ UNCHANGED <<registered, closed, adapter, token, closing, attaching, history>>

PicksApplied ==
  /\ promoting = "picks" /\ Promoted(proc)
  /\ UNCHANGED <<registered, closed, adapter, token, proc, closing, attaching, starting, history>>

(* start() rejects: the agent was missing, died, was killed, or did not    *)
(* get through its handshake although its process runs.                    *)
Failed ==
  /\ starting # Detached
  /\ proc[starting] \in (IF AgentsFail THEN {"new", "spawned", "dead"} ELSE {"dead"})
  /\ starting' = Detached

Unspawned(p) == [a \in Adapters |-> IF a = starting /\ p[a] = "new" THEN "dead" ELSE p[a]]

(* Mutant: a failed re-attach stays in flight. *)
AttachFailedUncleared ==
  /\ Failed /\ attaching = "starting"
  /\ attaching' = "starting"
  /\ proc' = Unspawned(Killed(proc, adapter)) /\ adapter' = Detached
  /\ busy' = FALSE /\ quiet' = FALSE
  /\ UNCHANGED <<registered, draft, closed, resumable, token, closing, promoting, requests,
                 history>>

(* doReattachSession rolls back to the placeholder and stops the adapter   *)
(* the session has now.                                                    *)
AttachFailed ==
  /\ Failed /\ attaching = "starting"
  /\ attaching' = "none"
  /\ proc' = Unspawned(Killed(proc, adapter)) /\ adapter' = Detached
  /\ Deliver(Waiting("joining"), proc', Detached)
  /\ busy' = FALSE
  /\ quiet' \in (IF Waiting("joining") = {} THEN {FALSE, quiet} ELSE {FALSE})
  /\ UNCHANGED <<registered, draft, closed, resumable, token, closing, promoting, history>>

(* promotePendingSession records the error; the adapter stays. *)
PromoteFailed ==
  /\ Failed /\ promoting = "starting"
  /\ promoting' = "none"
  /\ proc' = Unspawned(proc)
  /\ pc' = [r \in Requests |-> IF pc[r] = "promoting" THEN "done" ELSE pc[r]]
  /\ outcome' = [r \in Requests |-> IF pc[r] = "promoting" THEN "refused" ELSE outcome[r]]
  /\ quiet' = FALSE
  /\ UNCHANGED <<session, busy, closing, attaching, history>>

-----------------------------------------------------------------------------
(* Closing *)

(* The end of runClose: the agent answered its close, or was given up on.  *)
(* Whoever waited for the close reopens the session it now finds closed.   *)
Teardown ==
  /\ proc' = Killed(proc, adapter)
  /\ escaped' = escaped \cup KillMisses(adapter)
  /\ adapter' = Detached /\ closed' = TRUE /\ closing' = FALSE
  /\ busy' = FALSE
  /\ quiet' = (quiet /\ (adapter = Detached \/ proc[adapter] = "dead"))
  /\ pc' = [r \in Requests |->
              IF pc[r] # "waitClose" THEN pc[r]
              ELSE IF registered \/ r \in Reopens THEN "reopening" ELSE "done"]
  /\ outcome' = [r \in Requests |-> IF pc[r] = "waitClose" /\ pc'[r] = "done"
                                    THEN "cold" ELSE outcome[r]]

(* closeSession: revoke the token, then ask the agent to close, which only *)
(* a process that runs is waited for.                                      *)
Close ==
  /\ registered /\ ~closed /\ ~closing /\ closes < MaxCloses
  /\ closes' = closes + 1 /\ lastAsk' = "close"
  /\ token' = FALSE
  /\ \/ /\ adapter # Detached /\ proc[adapter] \in Running
        /\ closing' = TRUE
        /\ UNCHANGED <<closed, adapter, activity, proc, requests, escaped>>
     \/ Teardown
  /\ UNCHANGED <<registered, draft, resumable, attaching, promoting, starting, late>>

CloseFinish ==
  /\ closing /\ Teardown
  /\ UNCHANGED <<registered, draft, resumable, token, attaching, promoting, starting, lastAsk,
                 late, closes>>

(* IdleReaper.closable, checked in the step that closes. *)
Closable == ~closed /\ ~draft /\ adapter # Detached /\ ~busy /\ resumable /\ quiet

UserClose == UsersClose /\ Close
Sweep == Closable /\ Close

(* killSession *)
Kill ==
  /\ UsersClose /\ registered /\ registered' = FALSE
  /\ token' = FALSE
  /\ proc' = Killed(proc, adapter)
  /\ escaped' = escaped \cup KillMisses(adapter)
  /\ busy' = FALSE /\ quiet' = FALSE
  /\ UNCHANGED <<draft, closed, resumable, adapter, tasks, requests, lastAsk, late, closes>>

-----------------------------------------------------------------------------
(* The agent and the clock *)

AgentExits(a) ==
  /\ AgentsFail /\ proc[a] \in Running
  /\ proc' = [proc EXCEPT ![a] = "dead"]
  /\ IF a = adapter THEN busy' = FALSE /\ quiet' = FALSE ELSE UNCHANGED activity
  /\ UNCHANGED <<session, tasks, requests, history>>

TurnEnds ==
  /\ busy /\ busy' = FALSE /\ quiet' = FALSE
  /\ UNCHANGED <<session, proc, tasks, requests, history>>

InFlight == closing \/ attaching # "none" \/ promoting # "none"
            \/ \E r \in Requests : pc[r] \notin {"new", "done"}

(* The idle window, minutes long, passes between requests. *)
GoQuiet ==
  /\ ~quiet /\ ~InFlight /\ quiet' = TRUE
  /\ UNCHANGED <<session, busy, proc, tasks, requests, history>>

-----------------------------------------------------------------------------
Next ==
  \/ \E r \in Sends : Send(r)
  \/ \E r \in Reopens : Reopen(r)
  \/ \E r \in Requests : ReopenFinish(r)
  \/ Subscribe \/ Attach \/ AttachInstall
  \/ Spawn \/ AttachStarted \/ PromoteStarted \/ PicksApplied \/ AttachFailed \/ PromoteFailed
  \/ UserClose \/ Sweep \/ CloseFinish \/ Kill
  \/ \E a \in Adapters : AgentExits(a)
  \/ TurnEnds \/ GoQuiet

(* git answers, start() settles (every request of a handshake has a        *)
(* deadline), the configuration's picks settle, and a close has a deadline *)
(* of its own (closeGraceMs).                                              *)
Fairness ==
  /\ WF_vars(AttachInstall)
  /\ WF_vars(Spawn \/ AttachStarted \/ PromoteStarted \/ AttachFailed \/ PromoteFailed)
  /\ WF_vars(PicksApplied)
  /\ WF_vars(CloseFinish)
  /\ \A r \in Requests : WF_vars(ReopenFinish(r))

Spec == Init /\ [][Next]_vars
FairSpec == Spec /\ Fairness

-----------------------------------------------------------------------------
(* Properties *)

(* Every variable has its type, and an adapter is being started exactly    *)
(* while a re-attach or a promotion waits for it, never both: a draft is   *)
(* promoted and a started session is re-attached (ensureLive).             *)
TypeOK ==
  /\ registered \in BOOLEAN /\ draft \in BOOLEAN /\ closed \in BOOLEAN
  /\ resumable \in BOOLEAN /\ token \in BOOLEAN /\ busy \in BOOLEAN /\ quiet \in BOOLEAN
  /\ adapter \in Adapters \cup {Detached} /\ starting \in Adapters \cup {Detached}
  /\ proc \in [Adapters -> {"unused", "new", "spawned", "live", "dead"}]
  /\ closing \in BOOLEAN
  /\ attaching \in {"none", "listing", "starting"}
  /\ promoting \in {"none", "starting", "picks"}
  /\ pc \in [Requests -> {"new", "waitClose", "reopening", "joining", "promoting", "done"}]
  /\ outcome \in [Requests -> {"none", "cold", "agent", "dead", "unstarted", "refused"}]
  /\ lastAsk \in {"open", "close"} /\ escaped \subseteq Adapters
  /\ late \in BOOLEAN /\ closes \in 0..MaxCloses
  /\ starting # Detached <=> attaching = "starting" \/ promoting = "starting"
  /\ attaching = "none" \/ promoting = "none"

(* Every agent process belongs to a session that is open and can reach it, *)
(* however starts, closes, kills and re-attaches interleave: there are     *)
(* never two agents on one thread, and a close releases the one there is.  *)
(* The agents that escape are those killed before they were spawned, those *)
(* of a re-attach that finds its session closed or killed after `git       *)
(* worktree list`, and those of a promotion that failed half-way.          *)
EveryAgentHasItsSession ==
  \A a \in Adapters :
    proc[a] \in Running => a \in escaped \/ (a = adapter /\ registered /\ ~closed)

(* A session that is closed, being closed or killed has no credential that *)
(* still authenticates, unless a re-attach was started for it since        *)
(* (runClose drops the token before its first wait).                       *)
ClosedIsRevoked ==
  (closed \/ closing \/ ~registered) /\ token => late

(* No message is handed to an adapter whose start() has not finished: it   *)
(* would be rejected as "send before start" (ensureLive joins the re-      *)
(* attach in flight, promotePendingSession the promotion).                 *)
InputMeetsAStartedAgent ==
  \A r \in Sends : outcome[r] # "unstarted"

(* When everything has settled, a session that was last asked to open is   *)
(* open: a close in flight does not overwrite a later reopen or message    *)
(* (reopenSession, ensureLiveForInput).                                    *)
ReopenWins ==
  ~InFlight /\ registered /\ lastAsk = "open" => ~closed

(* Every message gets an answer: no close, re-attach or promotion it waits *)
(* for waits for ever, or for it.                                          *)
SendsSettle ==
  \A r \in Sends : (pc[r] # "new") ~> (pc[r] = "done")

(* A close is complete, and gives way to a reopen (runClose, reopenSession). *)
CloseSafety == TypeOK /\ ClosedIsRevoked /\ ReopenWins
=============================================================================
