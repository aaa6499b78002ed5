----------------------------- MODULE TurnQueue -----------------------------
(***************************************************************************)
(* How a session hands user messages to its agent: the mid-turn queue of   *)
(* Session (server/src/session.ts), the TurnStatusTracker that says when   *)
(* the agent is busy (adapters/turn-status.ts), and the send, steer and    *)
(* compact paths of the two kinds of adapter (adapters/acp.ts and          *)
(* adapters/codex.ts), down to the exit of the agent process               *)
(* (adapters/subprocess-adapter.ts).                                       *)
(*                                                                         *)
(* The status a tracker emits is delivered synchronously, so the settling  *)
(* of a turn, the session's reaction to `idle` and the first half of the   *)
(* send it triggers are ONE step; a step ends where the code awaits I/O.   *)
(* An ACP send awaits nothing (the prompt is not awaited), so `flushing`   *)
(* is only ever observable with codex, whose send awaits turn/start.       *)
(*                                                                         *)
(* A definition whose comment starts with "Mutant:" is not part of the     *)
(* specification: it is a plausible bug in the definition that follows,    *)
(* and shows that a property is sensitive to that code.                    *)
(***************************************************************************)
EXTENDS Integers, FiniteSets, SequencesExt

CONSTANTS
  Messages,         \* user messages, each submitted at most once
  Agent,            \* the adapter behind the session: "acp" or "codex"
  MaxQueued,        \* MAX_QUEUED_MESSAGES (50 in the code)
  AttachmentsFail,  \* may materialising a message's attachments fail?
  CompactFails,     \* may the agent refuse or fail a /compact?
  MaxGates,         \* bound: approval prompts open at once
  MaxSignals        \* bound: gates, stray chunks, running flags, manual
                    \* compactions and high usage readings in a behaviour

ASSUME AgentAssumption == Agent \in {"acp", "codex"}
ASSUME QueueAssumption == MaxQueued \in Nat \ {0}
ASSUME FailAssumption == AttachmentsFail \in BOOLEAN /\ CompactFails \in BOOLEAN
ASSUME SignalsAssumption == MaxGates \in Nat /\ MaxSignals \in Nat

VARIABLES
  (* Session *)
  status,          \* the recorded session status
  queue,           \* queued: messages waiting for the agent
  flushing,        \* the message flushNext is awaiting, or NoMessage
  compactPending,  \* autoCompactPending
  compactFired,    \* autoCompactFired
  fraction,        \* lastContextFraction: below the reset line, between, above the trigger
  (* TurnStatusTracker and SubprocessAdapter *)
  turns,           \* keys of the turns in flight
  approvals,       \* open gates
  agentRunning,    \* the agent's own running flag
  strayQuiet,      \* nothing followed the chunk that opened the work turn
  exited,          \* the agent process is gone
  (* codex only *)
  starting,        \* messages whose turn/start request is unanswered
  agentTurn,       \* what became of each turn/start at the agent
  taken,           \* history: how often the agent took each message
  (* histories and bounds *)
  at,              \* where each message is
  signals          \* counts towards MaxSignals

session == <<status, queue, flushing, compactPending, compactFired, fraction>>
tracker == <<turns, approvals, agentRunning, strayQuiet, exited>>
codex == <<starting, agentTurn, taken>>
vars == <<session, tracker, codex, at, signals>>

NoMessage == "none"
Work == "work"                     \* the key of the turn noteWork opens
Compactions == {"auto", "auto2", "manual"}  \* the keys of /compact command prompts
TurnKeys == Messages \cup Compactions \cup {Work}

ASSUME MessagesAssumption == Messages \cap (Compactions \cup {Work, NoMessage}) = {}

Statuses == {"idle", "running", "awaiting", "exited"}  \* "awaiting": approval or input

BUSY_STATUSES == {"running", "awaiting"}
Busy == status \in BUSY_STATUSES

Signal == signals < MaxSignals /\ signals' = signals + 1

Init ==
  /\ status = "idle" /\ queue = <<>> /\ flushing = NoMessage
  /\ compactPending = FALSE /\ compactFired = FALSE /\ fraction = "low"
  /\ turns = {} /\ approvals = 0 /\ agentRunning = FALSE /\ strayQuiet = FALSE
  /\ exited = FALSE
  /\ starting = {} /\ agentTurn = [m \in Messages |-> "no"]
  /\ taken = [m \in Messages |-> 0]
  /\ at = [m \in Messages |-> "new"] /\ signals = 0

-----------------------------------------------------------------------------
(* adapter.send, and the session's reaction to `idle` *)

(* What materialising a message's attachments comes to: a turn, or a       *)
(* session.error and no turn (prepareTurnOrFail).                          *)
Prepared == IF AttachmentsFail THEN {"sent", "failed"} ELSE {"sent"}

(* adapter.send(m) up to its first await, with the turns in T in flight    *)
(* and the session showing s; by is what flushNext awaits from here on.    *)
Send(outcome, m, T, s, by) ==
  IF outcome = "failed"
  THEN /\ turns' = T /\ status' = s
       /\ UNCHANGED <<starting, agentTurn, flushing>>
  ELSE /\ status' = "running"
       /\ IF Agent = "acp"
          THEN turns' = T \cup {m} /\ UNCHANGED <<starting, agentTurn, flushing>>
          ELSE /\ turns' = T
               /\ starting' = starting \cup {m}
               /\ agentTurn' = [agentTurn EXCEPT ![m] = "asked"]
               /\ flushing' = by

(* Mutant: the newest message goes out first. *)
FlushNewest(T, s) ==
  \E outcome \in Prepared :
    /\ Send(outcome, Last(queue), T, s, Last(queue))
    /\ queue' = Front(queue)
    /\ at' = [at EXCEPT ![Last(queue)] = outcome]

(* flushNext for the head of the queue.  Its catch is left out: a started  *)
(* adapter reports every failure of a send itself, and its send rejects    *)
(* only when recording an event throws (EventLog has those).               *)
FlushHead(T, s) ==
  \E outcome \in Prepared :
    /\ Send(outcome, Head(queue), T, s, Head(queue))
    /\ queue' = Tail(queue)
    /\ at' = [at EXCEPT ![Head(queue)] = outcome]

Unsent(T, s) ==
  /\ turns' = T /\ status' = s
  /\ UNCHANGED <<queue, at, flushing, starting, agentTurn>>

(* fireAutoCompact goes through (the codex runs leave fraction low). *)
AutoCompactDue(reading) == reading = "high" /\ ~compactFired /\ ~compactPending

(* enterTurn's keys are fresh: a new compaction is told from the one that  *)
(* is just settling.                                                       *)
FreshAuto == IF "auto" \in turns THEN "auto2" ELSE "auto"

StartAutoCompact(T) ==
  /\ turns' = T \cup {FreshAuto} /\ status' = "running"
  /\ compactFired' = TRUE /\ compactPending' = TRUE

(* The session hears `idle`: a compaction that is due goes first, else the *)
(* head of the queue goes out.                                             *)
OnIdle(T) ==
  IF AutoCompactDue(fraction)
  THEN StartAutoCompact(T) /\ UNCHANGED <<queue, at, flushing, starting, agentTurn>>
  ELSE /\ IF queue # <<>> /\ ~compactPending /\ flushing = NoMessage
          THEN FlushHead(T, "idle")
          ELSE Unsent(T, "idle")
       /\ UNCHANGED <<compactFired, compactPending>>

(* Nothing holds the session busy any more (settleIdle's condition). *)
Settled(T, gates, running) == T = {} /\ gates = 0 /\ ~running /\ ~exited

(* settleIdle, once the turns in T, this many gates and this running flag are left. *)
SettleIdle(T, gates, running) ==
  IF Settled(T, gates, running)
  THEN OnIdle(T)
  ELSE Unsent(T, status) /\ UNCHANGED <<compactFired, compactPending>>

-----------------------------------------------------------------------------
(* Session.sendUserMessage *)

Enqueue(m) ==
  IF Len(queue) >= MaxQueued
  THEN at' = [at EXCEPT ![m] = "refused"] /\ UNCHANGED queue
  ELSE at' = [at EXCEPT ![m] = "queued"] /\ queue' = Append(queue, m)

(* releaseStrayWork drops the turn ONE stray chunk opened. *)
Releasable ==
  /\ Busy /\ Work \in turns /\ strayQuiet
  /\ ~agentRunning /\ approvals = 0 /\ turns = {Work} /\ ~exited

MustWait == queue # <<>> \/ flushing # NoMessage \/ compactPending

(* The stray turn is dropped and `idle` emitted: that may start a          *)
(* compaction or flush the queue, and m falls in behind either.            *)
SendReleasing(m) ==
  /\ at[m] = "new" /\ Releasable
  /\ strayQuiet' = FALSE
  /\ IF AutoCompactDue(fraction)
     THEN /\ StartAutoCompact({}) /\ Enqueue(m)
          /\ UNCHANGED <<flushing, starting, agentTurn>>
     ELSE /\ UNCHANGED <<compactFired, compactPending>>
          /\ IF queue # <<>> /\ ~compactPending /\ flushing = NoMessage
             THEN \E outcome \in Prepared :
                    /\ Send(outcome, Head(queue), {}, "idle", Head(queue))
                    /\ queue' = Append(Tail(queue), m)
                    /\ at' = [at EXCEPT ![Head(queue)] = outcome, ![m] = "queued"]
             ELSE IF MustWait
             THEN /\ Enqueue(m) /\ turns' = {} /\ status' = "idle"
                  /\ UNCHANGED <<flushing, starting, agentTurn>>
             ELSE \E outcome \in Prepared :
                    /\ Send(outcome, m, {}, "idle", flushing)
                    /\ at' = [at EXCEPT ![m] = outcome]
                    /\ UNCHANGED queue
  /\ UNCHANGED <<fraction, approvals, agentRunning, exited, taken, signals>>

SendQueueing(m) ==
  /\ at[m] = "new" /\ ~Releasable
  /\ \/ MustWait
     \/ Busy /\ (Agent = "acp" \/ turns = {})  \* nothing to steer into
  /\ Enqueue(m)
  /\ UNCHANGED <<status, flushing, compactPending, compactFired, fraction,
                 tracker, codex, signals>>

(* codex: turn/steer is requested; on an attachment failure it never is. *)
SendSteering(m) ==
  /\ at[m] = "new" /\ ~MustWait /\ Busy /\ Agent = "codex" /\ turns # {}
  /\ \E outcome \in {"steering"} \cup (Prepared \ {"sent"}) :
       at' = [at EXCEPT ![m] = outcome]
  /\ UNCHANGED <<session, tracker, codex, signals>>

SendNow(m) ==
  /\ at[m] = "new" /\ ~MustWait /\ ~Busy
  /\ \E outcome \in Prepared :
       /\ Send(outcome, m, turns, status, flushing)
       /\ at' = [at EXCEPT ![m] = outcome]
  /\ UNCHANGED <<queue, compactPending, compactFired, fraction, approvals,
                 agentRunning, strayQuiet, exited, taken, signals>>

SendUserMessage(m) ==
  SendReleasing(m) \/ SendQueueing(m) \/ SendSteering(m) \/ SendNow(m)

(* The steered message was folded into the running turn. *)
SteerAccepted(m) ==
  /\ at[m] = "steering" /\ ~exited
  /\ at' = [at EXCEPT ![m] = "steered"]
  /\ taken' = [taken EXCEPT ![m] = @ + 1]
  /\ UNCHANGED <<session, tracker, starting, agentTurn, signals>>

(* Mutant: a timed-out steer is queued like a rejected one. *)
SteerTimedOutRequeued(m) ==
  /\ at[m] = "steering"
  /\ \E n \in {0, 1} : taken' = [taken EXCEPT ![m] = @ + n]
  /\ Enqueue(m)
  /\ UNCHANGED <<status, flushing, compactPending, compactFired, fraction,
                 tracker, starting, agentTurn, signals>>

(* No answer within 15 s: the agent may or may not have taken it, and it   *)
(* is echoed, never queued again.                                          *)
SteerTimedOut(m) ==
  /\ at[m] = "steering"
  /\ \E n \in {0, 1} : taken' = [taken EXCEPT ![m] = @ + n]
  /\ at' = [at EXCEPT ![m] = "steered"]
  /\ UNCHANGED <<session, tracker, starting, agentTurn, signals>>

(* The steer was refused: look again, then queue or send. *)
SteerRejected(m) ==
  /\ at[m] = "steering"
  /\ IF MustWait \/ Busy
     THEN Enqueue(m) /\ UNCHANGED <<status, flushing, turns, starting, agentTurn>>
     ELSE /\ \E outcome \in Prepared :
               /\ Send(outcome, m, turns, status, flushing)
               /\ at' = [at EXCEPT ![m] = outcome]
          /\ UNCHANGED queue
  /\ UNCHANGED <<compactPending, compactFired, fraction, approvals, agentRunning,
                 strayQuiet, exited, taken, signals>>

-----------------------------------------------------------------------------
(* Editing the queue *)

QueueEdited == UNCHANGED <<status, flushing, compactPending, compactFired, fraction,
                           tracker, codex, signals>>

Dropped(fate) == [m \in Messages |-> IF at[m] = "queued" THEN fate ELSE at[m]]

(* How reorderQueue arranges the queue: named ids first, in the order they *)
(* are first named; the others keep their order.                           *)
Ahead(ids, a, b) ==
  \/ \E i \in DOMAIN ids : ids[i] = a /\ \A j \in 1..i : ids[j] # b
  \/ /\ ~Contains(ids, a) /\ ~Contains(ids, b)
     /\ \E i, j \in DOMAIN queue : i < j /\ queue[i] = a /\ queue[j] = b

(* cancelQueued, and updateQueued with a blank text. *)
CancelQueued(m) ==
  /\ \E i \in DOMAIN queue : queue[i] = m /\ queue' = RemoveAt(queue, i)
  /\ at' = [at EXCEPT ![m] = "cancelled"]
  /\ QueueEdited

ReorderQueue(ids) ==
  /\ \E m \in ToSet(ids) : Contains(queue, m)
  /\ queue' \in [DOMAIN queue -> ToSet(queue)]
  /\ \A i, j \in DOMAIN queue : i < j => Ahead(ids, queue'[i], queue'[j])
  /\ UNCHANGED at
  /\ QueueEdited

(* promoteQueued: m goes to the head and the turn is interrupted, which    *)
(* shows only in the agent settling that turn sooner.                      *)
PromoteQueued(m) == ReorderQueue(<<m>>)

(* The cancel command: stop means stop. *)
CancelTurn ==
  /\ queue # <<>>
  /\ queue' = <<>>
  /\ at' = Dropped("cancelled")
  /\ QueueEdited

-----------------------------------------------------------------------------
(* The tracker, driven by the agent *)

(* enterApproval; codex and ACP open gates alike, and neither asks whether *)
(* the process still lives.                                                *)
OpenGate ==
  /\ Signal /\ approvals < MaxGates
  /\ approvals' = approvals + 1
  /\ status' = IF approvals = 0 THEN "awaiting" ELSE status
  /\ UNCHANGED <<queue, flushing, compactPending, compactFired, fraction,
                 turns, agentRunning, strayQuiet, exited, codex, at>>

(* Mutant: closing the last gate resumes a turn but never settles. *)
CloseGateWithoutSettle ==
  /\ approvals > 0
  /\ approvals' = approvals - 1
  /\ status' = IF approvals = 1 /\ ~exited /\ (turns # {} \/ agentRunning)
               THEN "running" ELSE status
  /\ UNCHANGED <<queue, flushing, compactPending, compactFired, fraction,
                 turns, agentRunning, strayQuiet, exited, codex, at, signals>>

(* leaveApproval: the user answered, or the request timed out. *)
CloseGate ==
  /\ approvals > 0
  /\ approvals' = approvals - 1
  /\ IF approvals > 1 \/ exited
     THEN Unsent(turns, status) /\ UNCHANGED <<compactFired, compactPending>>
     ELSE IF turns # {} \/ agentRunning
     THEN Unsent(turns, "running") /\ UNCHANGED <<compactFired, compactPending>>
     ELSE SettleIdle(turns, 0, agentRunning)
  /\ UNCHANGED <<fraction, agentRunning, strayQuiet, exited, taken, signals>>

(* noteWork that opens a turn: a chunk outside any turn. *)
StrayChunk ==
  /\ Agent = "acp" /\ Signal /\ ~exited /\ ~agentRunning /\ turns = {}
  /\ turns' = {Work} /\ strayQuiet' = TRUE /\ status' = "running"
  /\ UNCHANGED <<queue, flushing, compactPending, compactFired, fraction,
                 approvals, agentRunning, exited, codex, at>>

(* noteWork inside the turn it opened: the agent is really at work. *)
MoreStrayWork ==
  /\ Agent = "acp" /\ ~exited /\ ~agentRunning /\ Work \in turns /\ strayQuiet
  /\ strayQuiet' = FALSE
  /\ UNCHANGED <<session, turns, approvals, agentRunning, exited, codex, at, signals>>

NoteAgentRunning ==
  /\ Agent = "acp" /\ Signal /\ ~exited /\ ~agentRunning
  /\ agentRunning' = TRUE
  /\ status' = IF turns = {} THEN "running" ELSE status
  /\ UNCHANGED <<queue, flushing, compactPending, compactFired, fraction,
                 turns, approvals, strayQuiet, exited, codex, at>>

(* noteAgentSettled settles only what that signal, or a stray chunk, held. *)
NoteAgentSettled ==
  /\ Agent = "acp" /\ (agentRunning \/ Work \in turns)
  /\ agentRunning' = FALSE
  /\ strayQuiet' = (strayQuiet /\ Work \notin turns)
  /\ SettleIdle(turns \ {Work}, approvals, FALSE)
  /\ UNCHANGED <<fraction, approvals, exited, taken, signals>>

(* handleExit: status `exited`, and the session's onExit drops the queue.  *)
Exit ==
  /\ ~exited
  /\ exited' = TRUE /\ status' = "exited"
  /\ queue' = <<>> /\ at' = Dropped("dropped")
  /\ UNCHANGED <<flushing, compactPending, compactFired, fraction,
                 turns, approvals, agentRunning, strayQuiet, codex, signals>>

-----------------------------------------------------------------------------
(* ACP: prompts and /compact command prompts *)

(* The prompt of m settles, answered or failed: leaveTurn. *)
PromptSettled(m) ==
  /\ Agent = "acp" /\ m \in turns
  /\ SettleIdle(turns \ {m}, approvals, agentRunning)
  /\ UNCHANGED <<fraction, approvals, agentRunning, strayQuiet, exited, taken, signals>>

(* A session.usage reading: updateContextFraction.  The bound counts the   *)
(* readings that rise to the trigger.                                      *)
ReportUsage(reading) ==
  /\ Agent = "acp"
  /\ IF reading = "high" /\ fraction # "high" THEN Signal ELSE UNCHANGED signals
  /\ fraction' = reading
  /\ IF status = "idle" /\ AutoCompactDue(reading)
     THEN StartAutoCompact(turns)
     ELSE /\ compactFired' = (compactFired /\ reading # "low")
          /\ UNCHANGED <<turns, status, compactPending>>
  /\ UNCHANGED <<queue, flushing, approvals, agentRunning, strayQuiet, exited,
                 codex, at>>

(* The user's /compact; the bound lets one be in flight. *)
ManualCompact ==
  /\ Agent = "acp" /\ Signal /\ "manual" \notin turns
  /\ compactFired' = TRUE /\ compactPending' = TRUE
  /\ turns' = turns \cup {"manual"} /\ status' = "running"
  /\ UNCHANGED <<queue, flushing, fraction, approvals, agentRunning, strayQuiet,
                 exited, codex, at>>

(* sendAction's finally, when the compaction left the turns T behind and   *)
(* the session showing s: the action no longer holds messages back.        *)
CompactReleased(T, s) ==
  /\ compactPending' = FALSE
  /\ IF queue # <<>> /\ s \notin BUSY_STATUSES
     THEN FlushHead(T, s)
     ELSE Unsent(T, s)

(* /compact with a newline in its instructions is refused at once. *)
CompactRefused ==
  /\ Agent = "acp" /\ Signal
  /\ compactFired' = FALSE
  /\ CompactReleased(turns, status)
  /\ UNCHANGED <<fraction, approvals, agentRunning, strayQuiet, exited, taken>>

(* A command prompt settles: leaveTurn inside sendCommandPrompt, then      *)
(* catch and finally of Session.sendAction.                                *)
CompactSettled(k, ok) ==
  /\ k \in turns /\ (ok \/ CompactFails)
  /\ LET left == turns \ {k}
     IN  IF ~Settled(left, approvals, agentRunning)
         THEN CompactReleased(left, status) /\ compactFired' = (compactFired /\ ok)
         ELSE IF AutoCompactDue(fraction)  \* another compaction had cleared both flags
         THEN /\ turns' = left \cup {FreshAuto} /\ status' = "running"
              /\ compactPending' = FALSE /\ compactFired' = ok
              /\ UNCHANGED <<queue, at, flushing, starting, agentTurn>>
         ELSE CompactReleased(left, "idle") /\ compactFired' = (compactFired /\ ok)
  /\ UNCHANGED <<fraction, approvals, agentRunning, strayQuiet, exited, taken, signals>>

(* The idle watchdog cancelled a silent command prompt, the agent ignored  *)
(* it, and the adapter is killed before the action is released.            *)
CompactWedged(k) ==
  /\ k \in turns /\ ~exited
  /\ exited' = TRUE /\ status' = "exited"
  /\ queue' = <<>> /\ at' = Dropped("dropped")
  /\ turns' = turns \ {k}
  /\ compactPending' = FALSE /\ compactFired' = FALSE
  /\ UNCHANGED <<flushing, fraction, approvals, agentRunning, strayQuiet, codex, signals>>

-----------------------------------------------------------------------------
(* codex: turn/start requests and turn notifications *)

AgentBusy == \E m \in Messages : agentTurn[m] \in {"owed", "on"}

(* The agent takes a turn/start: as a turn of its own, or folded into the  *)
(* one it is running (then no turn is announced for it).                   *)
AgentTakes(m) ==
  /\ agentTurn[m] = "asked" /\ ~exited
  /\ agentTurn' = [agentTurn EXCEPT ![m] = IF AgentBusy THEN "over" ELSE "owed"]
  /\ taken' = [taken EXCEPT ![m] = @ + 1]
  /\ UNCHANGED <<session, tracker, starting, at, signals>>

AgentRefuses(m) ==
  /\ agentTurn[m] = "asked" /\ ~exited
  /\ agentTurn' = [agentTurn EXCEPT ![m] = "refused"]
  /\ UNCHANGED <<session, tracker, starting, taken, at, signals>>

AgentCompletes(m) ==
  /\ agentTurn[m] = "on" /\ ~exited
  /\ agentTurn' = [agentTurn EXCEPT ![m] = "over"]
  /\ UNCHANGED <<session, tracker, starting, taken, at, signals>>

(* The turn id of the reply is ignored; only flushNext's await ends.       *)
StartReplied(m) ==
  /\ m \in starting /\ agentTurn[m] \in {"owed", "on", "over"}
  /\ starting' = starting \ {m}
  /\ flushing' = IF flushing = m THEN NoMessage ELSE flushing
  /\ UNCHANGED <<status, queue, compactPending, compactFired, fraction, tracker,
                 agentTurn, taken, at, signals>>

(* The request fails: refused by the agent, timed out, or dropped because  *)
(* the agent exited.  send reports it and settles to idle; when flushNext  *)
(* is the caller it still holds `flushing`, and looks no further after.    *)
StartFailed(m) ==
  /\ m \in starting
  /\ LET idle == Settled(turns, approvals, agentRunning)
         h == Head(queue)
     IN  IF idle /\ queue # <<>> /\ flushing = NoMessage
         THEN \E outcome \in Prepared :
                /\ queue' = Tail(queue)
                /\ at' = [at EXCEPT ![m] = "failed", ![h] = outcome]
                /\ IF outcome = "failed"
                   THEN /\ status' = "idle" /\ starting' = starting \ {m}
                        /\ UNCHANGED <<agentTurn, flushing>>
                   ELSE /\ status' = "running" /\ flushing' = h
                        /\ starting' = (starting \ {m}) \cup {h}
                        /\ agentTurn' = [agentTurn EXCEPT ![h] = "asked"]
         ELSE /\ starting' = starting \ {m}
              /\ flushing' = IF flushing = m THEN NoMessage ELSE flushing
              /\ status' = IF idle THEN "idle" ELSE status
              /\ at' = [at EXCEPT ![m] = "failed"]
              /\ UNCHANGED <<queue, agentTurn>>
  /\ UNCHANGED <<compactPending, compactFired, fraction, tracker, taken, signals>>

(* Notifications arrive in the order the agent sent them. *)
TurnStarted(m) ==
  /\ agentTurn[m] = "owed" /\ \A n \in turns : agentTurn[n] = "on"
  /\ agentTurn' = [agentTurn EXCEPT ![m] = "on"]
  /\ turns' = turns \cup {m} /\ status' = "running"
  /\ UNCHANGED <<queue, flushing, compactPending, compactFired, fraction, approvals,
                 agentRunning, strayQuiet, exited, starting, taken, at, signals>>

TurnCompleted(m) ==
  /\ Agent = "codex" /\ m \in turns /\ agentTurn[m] = "over"
  /\ SettleIdle(turns \ {m}, approvals, agentRunning)
  /\ UNCHANGED <<fraction, approvals, agentRunning, strayQuiet, exited, taken, signals>>

-----------------------------------------------------------------------------
(* What the app asks for: two ids, maybe the same one or one already sent. *)
ReorderHints == Messages \X Messages

UserSteps ==
  \/ \E m \in Messages : SendUserMessage(m) \/ CancelQueued(m) \/ PromoteQueued(m)
  \/ \E ids \in ReorderHints : ReorderQueue(ids)
  \/ CancelTurn

GateSteps == OpenGate \/ CloseGate

AcpSteps ==
  \/ StrayChunk \/ MoreStrayWork \/ NoteAgentRunning \/ NoteAgentSettled
  \/ \E m \in Messages : PromptSettled(m)
  \/ \E reading \in {"low", "mid", "high"} : ReportUsage(reading)
  \/ ManualCompact \/ CompactRefused
  \/ \E k \in Compactions, ok \in BOOLEAN : CompactSettled(k, ok)
  \/ \E k \in Compactions : CompactWedged(k)

CodexSteps ==
  \E m \in Messages :
    \/ SteerAccepted(m) \/ SteerTimedOut(m) \/ SteerRejected(m)
    \/ AgentTakes(m) \/ AgentRefuses(m) \/ AgentCompletes(m)
    \/ StartReplied(m) \/ StartFailed(m)
    \/ TurnStarted(m) \/ TurnCompleted(m)

Next == UserSteps \/ GateSteps \/ AcpSteps \/ CodexSteps \/ Exit

(* The agent clears the running flag it has set. *)
RunningEnds == agentRunning /\ NoteAgentSettled

(* Nothing obliges the user to act, the agent to die, or anybody to end a  *)
(* turn that a stray chunk opened: its only closer may be past already.    *)
(* A gate closes by its own timeout, a request by its answer or its        *)
(* timeout; that the agent ends a prompt, and a running flag it has set,   *)
(* is its part of the protocol.  A compaction that is tried again and      *)
(* again succeeds at last: one that failed for ever would be started anew  *)
(* by every idle, ahead of the queue.                                      *)
Fairness ==
  /\ WF_vars(CloseGate) /\ WF_vars(RunningEnds)
  /\ \A m \in Messages :
       /\ WF_vars(PromptSettled(m))
       /\ WF_vars(SteerRejected(m) \/ SteerTimedOut(m) \/ SteerAccepted(m))
       /\ WF_vars(AgentTakes(m) \/ AgentRefuses(m))
       /\ WF_vars(AgentCompletes(m))
       /\ WF_vars(StartReplied(m) \/ StartFailed(m))
       /\ WF_vars(TurnStarted(m)) /\ WF_vars(TurnCompleted(m))
  /\ \A k \in Compactions :
       /\ WF_vars(\E ok \in BOOLEAN : CompactSettled(k, ok))
       /\ SF_vars(CompactSettled(k, TRUE))

Spec == Init /\ [][Next]_vars
FairSpec == Spec /\ Fairness

-----------------------------------------------------------------------------
(* Properties *)

(* Every variable has its type, and the queue never outgrows its cap.      *)
TypeOK ==
  /\ status \in Statuses
  /\ queue \in Seq(Messages) /\ Len(queue) <= MaxQueued
  /\ flushing \in Messages \cup {NoMessage}
  /\ compactPending \in BOOLEAN /\ compactFired \in BOOLEAN
  /\ fraction \in {"low", "mid", "high"}
  /\ turns \subseteq TurnKeys /\ approvals \in 0..MaxGates
  /\ agentRunning \in BOOLEAN /\ strayQuiet \in BOOLEAN /\ exited \in BOOLEAN
  /\ starting \subseteq Messages
  /\ agentTurn \in [Messages -> {"no", "asked", "owed", "on", "over", "refused"}]
  /\ taken \in [Messages -> Nat]
  /\ at \in [Messages -> {"new", "steering", "steered", "queued", "sent", "failed",
                          "cancelled", "dropped", "refused"}]
  /\ signals \in 0..MaxSignals

(* A pending message has one place in the queue, and whatever became of a  *)
(* message that left the queue was said: it was sent, reported, cancelled, *)
(* or dropped with the session (enqueue, reorderQueue, flushNext).         *)
OnePlaceEach ==
  /\ \A m \in Messages : at[m] = "queued" <=> Contains(queue, m)
  /\ Cardinality(ToSet(queue)) = Len(queue)

(* m goes to the agent in this step, by send or as a steer request. *)
Handed(m) ==
  \/ at[m] \in {"new", "queued", "steering"} /\ at'[m] = "sent"
  \/ at[m] = "new" /\ at'[m] = "steering"

(* "never overtake an earlier message" that waits in the queue: what goes  *)
(* to the agent is its head, or comes when nothing is queued               *)
(* (sendUserMessage).  A message whose steer is being refused is not in    *)
(* the queue yet, and one sent meanwhile goes before it                    *)
(* (session.ts:1009-1016).                                                 *)
NeverOvertakes ==
  [][\A m \in Messages :
       Handed(m) => queue = <<>> \/ m = Head(queue)]_vars

(* A fresh turn is only started when the last one ended: the agent never   *)
(* has two user prompts at once (BUSY_STATUSES, the tracker).              *)
OnePromptAtATime == ~exited => Cardinality(turns \cap Messages) <= 1

(* `idle` is shown only when no turn, gate or running flag is open; a      *)
(* message sent then would be a second turn.                               *)
IdleMeansSettled ==
  status = "idle" => turns = {} /\ approvals = 0 /\ ~agentRunning

(* A busy session always has something open whose end will be reported: a  *)
(* status nothing can leave queues every later message for ever            *)
(* (turn-status.ts: leaveApproval, releaseStrayWork).                      *)
BusyHasACloser ==
  Busy /\ ~exited =>
    \/ turns # {} \/ approvals > 0 \/ agentRunning
    \/ starting # {} \/ \E m \in Messages : agentTurn[m] = "owed"

(* "incoming user messages queue so they cannot overtake the compact       *)
(* action": no message goes to the agent while a compaction is in flight   *)
(* (with ACP: codex compacts by itself, and its model has no compaction).  *)
CompactNotOvertaken ==
  [][\A m \in Messages :
       Handed(m) /\ ~exited => turns' \cap Compactions = {}]_vars

(* A session that shows `idle` is not sitting on a queued message: it      *)
(* flushes on every idle, and once a compaction lets go.  (With codex, and *)
(* when an attachment cannot be prepared, the rest of the queue waits for  *)
(* the next turn to end.)                                                  *)
IdleHoldsNoQueue == status = "idle" => queue = <<>>

(* codex takes a message at most once, however a steer or a turn/start is  *)
(* refused, answered late or times out.  (What an ACP agent takes is its   *)
(* prompts, each sent once: `taken` stays 0.)                              *)
TakenAtMostOnce == \A m \in Messages : taken[m] <= 1

(* Nothing but a stray turn holds the session (noteWork).  Nobody need end *)
(* it: while it is quiet the next message of the user does                 *)
(* (releaseStrayWork), and once the agent streamed more into it only the   *)
(* agent can.                                                              *)
HeldByStrayWork == turns = {Work} /\ approvals = 0 /\ ~agentRunning

(* Left behind by an idle that sent nothing: with codex, one raised while  *)
(* flushNext awaited the send (session.ts:1138, nothing looks again when   *)
(* the await ends); with either agent, one that met a message whose        *)
(* attachments could not be prepared.                                      *)
PassedByAnIdle(m) == status = "idle" /\ at[m] = "queued"

(* A message queued in a live session eventually leaves the queue, unless  *)
(* the agent dies, a stray turn that nobody ends holds the session from    *)
(* some time on, or an idle has passed the message by for good (never with *)
(* ACP where attachments can be prepared: IdleHoldsNoQueue).  No other     *)
(* state may keep it waiting for ever: flushNext, leaveApproval, the ends  *)
(* of compactions, steers and turns.                                       *)
QueueDrains ==
  \A m \in Messages :
    [](at[m] = "queued" =>
         \/ <>(at[m] # "queued" \/ exited)
         \/ <>[]HeldByStrayWork
         \/ <>[]PassedByAnIdle(m))

(* The queue and the status together: nothing is in two places, one prompt *)
(* at a time, and a status that is neither idle too early nor busy for ever *)
(* (Session's queue, TurnStatusTracker).                                   *)
QueueSafety ==
  /\ TypeOK /\ OnePlaceEach /\ OnePromptAtATime
  /\ IdleMeansSettled /\ BusyHasACloser /\ TakenAtMostOnce
  /\ Agent = "acp" /\ ~AttachmentsFail => IdleHoldsNoQueue

(* Order is kept in the queue, and between messages and compactions.       *)
OrderKept == NeverOvertakes /\ CompactNotOvertaken
=============================================================================
