--------------------------- MODULE TurnQueueProofs ---------------------------
(* Proofs about TurnQueue for every number of messages, size of the queue,   *)
(* either agent, and whatever fails.                                         *)
EXTENDS TurnQueue, FiniteSetTheorems, TLAPS

-----------------------------------------------------------------------------
(* The invariant: `idle` means that nothing is open, and codex, whose        *)
(* compactions are its own, has none in flight.                              *)
Inv ==
  /\ status \in Statuses /\ (status = "exited" => exited)
  /\ IdleMeansSettled
  /\ Agent = "codex" => fraction # "high" /\ turns \cap Compactions = {}
  /\ approvals \in Nat /\ DOMAIN at = Messages

(* What a step hands over is the head of the queue, or there is no queue,    *)
(* and leaves no compaction in flight.                                       *)
Goes ==
  \A m \in Messages :
    Handed(m) => (queue = <<>> \/ m = Head(queue)) /\ (~exited => turns' \cap Compactions = {})

LEMMA NothingGoes ==
  ASSUME \A m \in Messages : at'[m] = at[m] \/ at'[m] \notin {"sent", "steering"}
  PROVE  Goes
BY DEF Goes, Handed

LEMMA MessageIsNoCompaction == \A m \in Messages : m \notin Compactions
BY MessagesAssumption DEF MessagesAssumption

(* adapter.send: the session runs, or stays as it was. *)
LEMMA SendHolds ==
  ASSUME NEW outcome, NEW m, NEW T, NEW s, NEW by, Send(outcome, m, T, s, by)
  PROVE  /\ turns' = T \/ (Agent = "acp" /\ turns' = T \cup {m})
         /\ status' = "running" \/ (status' = s /\ turns' = T)
BY DEF Send

(* A message m is sent when no compaction is among what is in flight. *)
LEMMA SentKept ==
  ASSUME Inv, NEW m \in Messages, NEW outcome, NEW T, NEW s \in Statuses, NEW by, Send(outcome, m, T, s, by),
         at' = [at EXCEPT ![m] = outcome], queue = <<>> \/ m = Head(queue),
         ~exited \/ Agent = "codex" => T \cap Compactions = {},
         s = "idle" => T = {} /\ approvals' = 0 /\ ~agentRunning',
         s = "exited" => exited',
         UNCHANGED <<fraction, exited>>, approvals' \in Nat
  PROVE  Inv' /\ Goes
<1>1. /\ turns' = T \/ (Agent = "acp" /\ turns' = T \cup {m})
      /\ status' = "running" \/ (status' = s /\ turns' = T)
  BY SendHolds
<1>2. Agent = "codex" => turns' \cap Compactions = {}
  BY <1>1, AgentAssumption
<1>3. Inv'
  BY <1>1, <1>2 DEF Inv, IdleMeansSettled, Statuses
<1>4. ~exited => turns' \cap Compactions = {}
  BY <1>1, MessageIsNoCompaction
<1>5. \A q \in Messages : q # m => at'[q] = at[q]
  BY DEF Inv
<1>6. Goes
  BY <1>4, <1>5 DEF Goes, Handed
<1>. QED BY <1>3, <1>6

(* The head of the queue is sent, whatever it is. *)
LEMMA FlushKept ==
  ASSUME Inv, NEW T, NEW s \in Statuses, FlushHead(T, s),
         ~exited \/ Agent = "codex" => T \cap Compactions = {},
         s = "idle" => T = {} /\ approvals' = 0 /\ ~agentRunning',
         s = "exited" => exited',
         UNCHANGED <<fraction, exited>>, approvals' \in Nat
  PROVE  Inv' /\ Goes
<1>1. PICK outcome \in Prepared : /\ Send(outcome, Head(queue), T, s, Head(queue))
                                  /\ at' = [at EXCEPT ![Head(queue)] = outcome]
  BY DEF FlushHead
<1>2. CASE Head(queue) \in Messages
  BY <1>1, <1>2, SentKept
<1>3. CASE Head(queue) \notin Messages
  <2>1. /\ turns' = T \/ (Agent = "acp" /\ turns' = T \cup {Head(queue)})
        /\ status' = "running" \/ (status' = s /\ turns' = T)
    BY <1>1, SendHolds
  <2>2. Agent = "codex" => turns' \cap Compactions = {}
    BY <2>1, AgentAssumption
  <2>3. DOMAIN at' = Messages /\ \A q \in Messages : at'[q] = at[q]
    BY <1>1, <1>3 DEF Inv
  <2>4. Inv'
    BY <2>1, <2>2, <2>3 DEF Inv, IdleMeansSettled, Statuses
  <2>. QED BY <2>3, <2>4, NothingGoes
<1>. QED BY <1>2, <1>3

LEMMA OnIdleKept ==
  ASSUME Inv, OnIdle({}), ~exited, approvals' = 0, ~agentRunning', UNCHANGED <<fraction, exited>>
  PROVE  Inv' /\ Goes
<1>1. CASE AutoCompactDue(fraction)
  <2>1. status' = "running" /\ UNCHANGED at /\ Agent # "codex"
    BY <1>1 DEF OnIdle, StartAutoCompact, AutoCompactDue, Inv
  <2>2. Inv'
    BY <2>1 DEF Inv, IdleMeansSettled, Statuses
  <2>. QED BY <2>1, <2>2, NothingGoes
<1>2. CASE ~AutoCompactDue(fraction) /\ FlushHead({}, "idle")
  BY <1>2, FlushKept DEF Statuses
<1>3. CASE ~AutoCompactDue(fraction) /\ Unsent({}, "idle")
  <2>1. turns' = {} /\ status' = "idle" /\ UNCHANGED at
    BY <1>3 DEF Unsent
  <2>2. Inv'
    BY <2>1 DEF Inv, IdleMeansSettled, Statuses
  <2>. QED BY <2>1, <2>2, NothingGoes
<1>. QED BY <1>1, <1>2, <1>3 DEF OnIdle

(* What is left in flight is shown as it was. *)
LEMMA UnsentKept ==
  ASSUME Inv, NEW T, T \subseteq turns, NEW s, Unsent(T, s),
         s = status \/ s = "running",
         approvals' \in Nat, status = "idle" => approvals' = 0 /\ ~agentRunning',
         UNCHANGED <<fraction, exited>>
  PROVE  Inv' /\ Goes
<1>1. turns' = T /\ status' = s /\ UNCHANGED at
  BY DEF Unsent
<1>2. Inv'
  BY <1>1 DEF Inv, IdleMeansSettled, Statuses
<1>. QED BY <1>1, <1>2, NothingGoes

LEMMA SettleKept ==
  ASSUME Inv, NEW T, T \subseteq turns, NEW gates \in Nat, NEW running, SettleIdle(T, gates, running),
         approvals' = gates, agentRunning' = running, UNCHANGED <<fraction, exited>>,
         status = "idle" => gates = 0 /\ ~running
  PROVE  Inv' /\ Goes
<1>1. CASE Settled(T, gates, running)
  <2>1. OnIdle({}) /\ ~exited /\ approvals' = 0 /\ ~agentRunning'
    BY <1>1 DEF SettleIdle, Settled
  <2>. QED BY <2>1, OnIdleKept
<1>2. CASE ~Settled(T, gates, running)
  <2>1. Unsent(T, status)
    BY <1>2 DEF SettleIdle
  <2>. QED BY <2>1, UnsentKept
<1>. QED BY <1>1, <1>2

LEMMA EnqueueKept ==
  ASSUME NEW m \in Messages, Enqueue(m), DOMAIN at = Messages
  PROVE  DOMAIN at' = Messages /\ \A q \in Messages : at'[q] = at[q] \/ at'[q] \notin {"sent", "steering"}
BY DEF Enqueue

LEMMA DroppedKept ==
  ASSUME NEW fate \in {"cancelled", "dropped"}, at' = Dropped(fate)
  PROVE  DOMAIN at' = Messages /\ \A q \in Messages : at'[q] = at[q] \/ at'[q] \notin {"sent", "steering"}
BY DEF Dropped

-----------------------------------------------------------------------------
(* The user's steps *)

LEMMA SendReleasingStep == ASSUME Inv, NEW m \in Messages, SendReleasing(m) PROVE Inv' /\ Goes
<1>1. ~exited /\ approvals = 0 /\ ~agentRunning /\ UNCHANGED <<fraction, approvals, agentRunning, exited>>
  BY DEF SendReleasing, Releasable
<1>2. CASE AutoCompactDue(fraction)
  <2>1. Enqueue(m) /\ status' = "running" /\ Agent # "codex"
    BY <1>2 DEF SendReleasing, StartAutoCompact, AutoCompactDue, Inv
  <2>2. DOMAIN at' = Messages /\ \A q \in Messages : at'[q] = at[q] \/ at'[q] \notin {"sent", "steering"}
    BY <2>1, EnqueueKept DEF Inv
  <2>3. Inv'
    BY <1>1, <2>1, <2>2 DEF Inv, IdleMeansSettled, Statuses
  <2>. QED BY <2>2, <2>3, NothingGoes
<1>3. CASE ~AutoCompactDue(fraction) /\ queue # <<>> /\ ~compactPending /\ flushing = NoMessage
  <2>1. PICK outcome \in Prepared : /\ Send(outcome, Head(queue), {}, "idle", Head(queue))
                                    /\ at' = [at EXCEPT ![Head(queue)] = outcome, ![m] = "queued"]
    BY <1>3 DEF SendReleasing
  <2>2. /\ turns' = {} \/ (Agent = "acp" /\ turns' = {Head(queue)})
        /\ status' = "running" \/ (status' = "idle" /\ turns' = {})
    BY <2>1, SendHolds
  <2>3. DOMAIN at' = Messages /\ \A q \in Messages : q # Head(queue) => at'[q] = at[q] \/ at'[q] = "queued"
    BY <2>1 DEF Inv
  <2>4. Inv'
    BY <1>1, <2>2, <2>3, AgentAssumption DEF Inv, IdleMeansSettled, Statuses
  <2>5. ASSUME NEW q \in Messages, Handed(q)
        PROVE  q = Head(queue) /\ turns' \cap Compactions = {}
    <3>1. q = Head(queue)
      BY <2>3, <2>5 DEF Handed
    <3>. QED BY <3>1, <2>2, MessageIsNoCompaction
  <2>. QED BY <2>4, <2>5 DEF Goes
<1>4. CASE ~AutoCompactDue(fraction) /\ ~(queue # <<>> /\ ~compactPending /\ flushing = NoMessage) /\ MustWait
  <2>1. Enqueue(m) /\ turns' = {} /\ status' = "idle"
    BY <1>4 DEF SendReleasing
  <2>2. DOMAIN at' = Messages /\ \A q \in Messages : at'[q] = at[q] \/ at'[q] \notin {"sent", "steering"}
    BY <2>1, EnqueueKept DEF Inv
  <2>3. Inv'
    BY <1>1, <2>1, <2>2 DEF Inv, IdleMeansSettled, Statuses
  <2>. QED BY <2>2, <2>3, NothingGoes
<1>5. CASE ~AutoCompactDue(fraction) /\ ~(queue # <<>> /\ ~compactPending /\ flushing = NoMessage) /\ ~MustWait
  <2>1. PICK outcome \in Prepared : Send(outcome, m, {}, "idle", flushing) /\ at' = [at EXCEPT ![m] = outcome]
    BY <1>5 DEF SendReleasing
  <2>2. queue = <<>>
    BY <1>5 DEF MustWait
  <2>. QED BY <1>1, <2>1, <2>2, SentKept DEF Statuses, Inv
<1>. QED BY <1>2, <1>3, <1>4, <1>5

LEMMA SendQueueingStep == ASSUME Inv, NEW m \in Messages, SendQueueing(m) PROVE Inv' /\ Goes
<1>1. Enqueue(m) /\ UNCHANGED <<status, fraction, tracker>>
  BY DEF SendQueueing
<1>2. DOMAIN at' = Messages /\ \A q \in Messages : at'[q] = at[q] \/ at'[q] \notin {"sent", "steering"}
  BY <1>1, EnqueueKept DEF Inv
<1>3. Inv'
  BY <1>1, <1>2 DEF Inv, IdleMeansSettled, tracker
<1>. QED BY <1>2, <1>3, NothingGoes

LEMMA SendSteeringStep == ASSUME Inv, NEW m \in Messages, SendSteering(m) PROVE Inv' /\ Goes
<1>1. /\ Agent = "codex" /\ queue = <<>> /\ UNCHANGED <<status, fraction, tracker>>
      /\ DOMAIN at' = Messages
  BY DEF SendSteering, MustWait, session, Inv
<1>2. Inv'
  BY <1>1 DEF Inv, IdleMeansSettled, tracker
<1>. QED BY <1>1, <1>2 DEF Goes, Inv, tracker

LEMMA SendNowStep == ASSUME Inv, NEW m \in Messages, SendNow(m) PROVE Inv' /\ Goes
<1>1. PICK outcome \in Prepared : Send(outcome, m, turns, status, flushing) /\ at' = [at EXCEPT ![m] = outcome]
  BY DEF SendNow
<1>2. queue = <<>> /\ status \in {"idle", "exited"} /\ UNCHANGED <<fraction, exited, approvals, agentRunning>>
  BY DEF SendNow, MustWait, Busy, BUSY_STATUSES, Inv, Statuses
<1>3. /\ status = "idle" => turns = {} /\ approvals' = 0 /\ ~agentRunning'
      /\ status = "exited" => exited'
      /\ ~exited \/ Agent = "codex" => turns \cap Compactions = {}
  BY <1>2 DEF Inv, IdleMeansSettled
<1>. QED BY <1>1, <1>2, <1>3, SentKept DEF Inv

LEMMA EditStep ==
  ASSUME Inv, QueueEdited, DOMAIN at' = Messages,
         \A q \in Messages : at'[q] = at[q] \/ at'[q] \notin {"sent", "steering"}
  PROVE  Inv' /\ Goes
<1>1. Inv'
  BY DEF Inv, IdleMeansSettled, QueueEdited, tracker
<1>. QED BY <1>1, NothingGoes

LEMMA UserStep == ASSUME Inv, UserSteps PROVE Inv' /\ Goes
<1>1. ASSUME NEW m \in Messages, SendUserMessage(m) PROVE Inv' /\ Goes
  BY <1>1, SendReleasingStep, SendQueueingStep, SendSteeringStep, SendNowStep DEF SendUserMessage
<1>2. ASSUME NEW m \in Messages, CancelQueued(m) PROVE Inv' /\ Goes
  BY <1>2, EditStep DEF CancelQueued, Inv
<1>3. ASSUME NEW ids, ReorderQueue(ids) PROVE Inv' /\ Goes
  <2>1. QueueEdited /\ UNCHANGED at
    BY <1>3 DEF ReorderQueue
  <2>. QED BY <2>1, EditStep DEF Inv
<1>4. CASE CancelTurn
  <2>1. QueueEdited /\ at' = Dropped("cancelled")
    BY <1>4 DEF CancelTurn
  <2>. QED BY <2>1, DroppedKept, EditStep
<1>. QED BY <1>1, <1>2, <1>3, <1>4 DEF UserSteps, PromoteQueued

-----------------------------------------------------------------------------
(* The tracker's steps *)

(* Nothing is handed over and no turn ends: what opens keeps the session busy. *)
LEMMA OpensKept ==
  ASSUME Inv, UNCHANGED <<at, fraction, exited>>, approvals' \in Nat,
         status' = "awaiting" \/ status' = "running" \/ (status' = status /\ status # "idle"),
         Agent = "codex" => turns' \subseteq turns
  PROVE  Inv' /\ Goes
<1>1. Inv'
  BY DEF Inv, IdleMeansSettled, Statuses
<1>. QED BY <1>1, NothingGoes

LEMMA GateStep == ASSUME Inv, GateSteps PROVE Inv' /\ Goes
<1>1. CASE OpenGate
  <2>1. /\ UNCHANGED <<at, fraction, exited, turns>> /\ approvals' = approvals + 1
        /\ status' = IF approvals = 0 THEN "awaiting" ELSE status
    BY <1>1 DEF OpenGate
  <2>2. approvals' \in Nat /\ (approvals # 0 => status # "idle")
    BY <2>1 DEF Inv, IdleMeansSettled
  <2>. QED BY <2>1, <2>2, OpensKept
<1>2. CASE CloseGate
  <2>1. /\ approvals > 0 /\ approvals' = approvals - 1 /\ UNCHANGED <<fraction, agentRunning, exited>>
        /\ approvals' \in Nat /\ status # "idle"
    BY <1>2 DEF CloseGate, Inv, IdleMeansSettled
  <2>2. CASE approvals > 1 \/ exited
    BY <1>2, <2>1, <2>2, UnsentKept DEF CloseGate
  <2>3. CASE ~(approvals > 1 \/ exited) /\ (turns # {} \/ agentRunning)
    BY <1>2, <2>1, <2>3, UnsentKept DEF CloseGate
  <2>4. CASE ~(approvals > 1 \/ exited) /\ ~(turns # {} \/ agentRunning)
    <3>1. approvals' = 0 /\ SettleIdle(turns, 0, agentRunning)
      BY <1>2, <2>1, <2>4 DEF CloseGate, Inv
    <3>. QED BY <3>1, <2>1, SettleKept
  <2>. QED BY <2>2, <2>3, <2>4
<1>. QED BY <1>1, <1>2 DEF GateSteps

LEMMA ExitStep == ASSUME Inv, Exit PROVE Inv' /\ Goes
<1>1. /\ exited' /\ status' = "exited" /\ at' = Dropped("dropped")
      /\ UNCHANGED <<fraction, turns, approvals, agentRunning>>
  BY DEF Exit
<1>2. DOMAIN at' = Messages /\ \A q \in Messages : at'[q] = at[q] \/ at'[q] \notin {"sent", "steering"}
  BY <1>1, DroppedKept
<1>3. Inv'
  BY <1>1, <1>2 DEF Inv, IdleMeansSettled, Statuses
<1>. QED BY <1>2, <1>3, NothingGoes

-----------------------------------------------------------------------------
(* ACP's steps *)

LEMMA ReleasedKept ==
  ASSUME Inv, NEW T, T \subseteq turns, NEW s \in Statuses, CompactReleased(T, s),
         UNCHANGED <<fraction, exited, approvals, agentRunning>>,
         s = status \/ (s = "idle" /\ ~exited),
         s = "idle" => T = {} /\ approvals = 0 /\ ~agentRunning
  PROVE  Inv' /\ Goes
<1>1. CASE queue # <<>> /\ s \notin BUSY_STATUSES
  <2>1. FlushHead(T, s) /\ s \in {"idle", "exited"}
    BY <1>1 DEF CompactReleased, BUSY_STATUSES, Statuses
  <2>2. /\ s = "exited" => exited'
        /\ ~exited \/ Agent = "codex" => T \cap Compactions = {}
    BY <2>1 DEF Inv
  <2>. QED BY <2>1, <2>2, FlushKept DEF Inv
<1>2. CASE ~(queue # <<>> /\ s \notin BUSY_STATUSES)
  <2>1. turns' = T /\ status' = s /\ UNCHANGED at
    BY <1>2 DEF CompactReleased, Unsent
  <2>2. Inv'
    BY <2>1 DEF Inv, IdleMeansSettled
  <2>. QED BY <2>1, <2>2, NothingGoes
<1>. QED BY <1>1, <1>2

LEMMA CompactSettledStep ==
  ASSUME Inv, NEW k \in Compactions, NEW ok \in BOOLEAN, CompactSettled(k, ok)
  PROVE  Inv' /\ Goes
<1>. DEFINE left == turns \ {k}
<1>1. /\ k \in turns /\ UNCHANGED <<fraction, approvals, agentRunning, exited>>
      /\ Agent = "acp" /\ status # "idle" /\ status \in Statuses /\ left \subseteq turns
  BY AgentAssumption DEF CompactSettled, Inv, IdleMeansSettled
<1>2. CASE ~Settled(left, approvals, agentRunning)
  <2>1. CompactReleased(left, status)
    BY <1>2 DEF CompactSettled
  <2>. QED BY <1>1, <2>1, ReleasedKept
<1>3. CASE Settled(left, approvals, agentRunning) /\ AutoCompactDue(fraction)
  <2>1. status' = "running" /\ UNCHANGED at
    BY <1>3 DEF CompactSettled
  <2>. QED BY <1>1, <2>1, OpensKept DEF Inv
<1>4. CASE Settled(left, approvals, agentRunning) /\ ~AutoCompactDue(fraction)
  <2>1. CompactReleased(left, "idle")
    BY <1>4 DEF CompactSettled
  <2>2. left = {} /\ approvals = 0 /\ ~agentRunning /\ ~exited
    BY <1>4 DEF Settled
  <2>. QED BY <1>1, <2>1, <2>2, ReleasedKept DEF Statuses
<1>. QED BY <1>2, <1>3, <1>4

LEMMA AcpStep == ASSUME Inv, AcpSteps PROVE Inv' /\ Goes
<1>1. CASE StrayChunk
  BY <1>1, OpensKept DEF StrayChunk, Inv
<1>2. CASE MoreStrayWork
  <2>1. UNCHANGED <<at, status, fraction, exited, turns, approvals, agentRunning>>
    BY <1>2 DEF MoreStrayWork, session
  <2>2. Inv'
    BY <2>1 DEF Inv, IdleMeansSettled
  <2>. QED BY <2>1, <2>2, NothingGoes
<1>3. CASE NoteAgentRunning
  BY <1>3, OpensKept DEF NoteAgentRunning, Inv, IdleMeansSettled
<1>4. CASE NoteAgentSettled
  <2>1. /\ SettleIdle(turns \ {Work}, approvals, FALSE)
        /\ agentRunning' = FALSE /\ UNCHANGED <<fraction, approvals, exited>>
    BY <1>4 DEF NoteAgentSettled
  <2>. QED BY <2>1, SettleKept DEF Inv, IdleMeansSettled
<1>5. ASSUME NEW m \in Messages, PromptSettled(m) PROVE Inv' /\ Goes
  <2>1. /\ SettleIdle(turns \ {m}, approvals, agentRunning)
        /\ UNCHANGED <<fraction, approvals, agentRunning, exited>>
    BY <1>5 DEF PromptSettled
  <2>. QED BY <2>1, SettleKept DEF Inv, IdleMeansSettled
<1>6. ASSUME NEW reading, ReportUsage(reading) PROVE Inv' /\ Goes
  <2>1. /\ Agent = "acp" /\ UNCHANGED <<approvals, agentRunning, exited, at>>
        /\ status' = "running" \/ UNCHANGED <<turns, status>>
    BY <1>6 DEF ReportUsage, StartAutoCompact
  <2>2. Inv'
    BY <2>1 DEF Inv, IdleMeansSettled, Statuses
  <2>. QED BY <2>1, <2>2, NothingGoes
<1>7. CASE ManualCompact
  BY <1>7, OpensKept DEF ManualCompact, Inv
<1>8. CASE CompactRefused
  <2>1. CompactReleased(turns, status) /\ UNCHANGED <<fraction, approvals, agentRunning, exited>>
    BY <1>8 DEF CompactRefused
  <2>2. status \in Statuses /\ (status = "idle" => turns = {} /\ approvals = 0 /\ ~agentRunning)
    BY DEF Inv, IdleMeansSettled
  <2>. QED BY <2>1, <2>2, ReleasedKept
<1>9. ASSUME NEW k \in Compactions, CompactWedged(k) PROVE Inv' /\ Goes
  <2>1. /\ exited' /\ status' = "exited" /\ at' = Dropped("dropped") /\ turns' = turns \ {k}
        /\ UNCHANGED <<fraction, approvals>>
    BY <1>9 DEF CompactWedged
  <2>2. DOMAIN at' = Messages /\ \A q \in Messages : at'[q] = at[q] \/ at'[q] \notin {"sent", "steering"}
    BY <2>1, DroppedKept
  <2>3. Inv'
    BY <2>1, <2>2 DEF Inv, IdleMeansSettled, Statuses
  <2>. QED BY <2>2, <2>3, NothingGoes
<1>. QED BY <1>1, <1>2, <1>3, <1>4, <1>5, <1>6, <1>7, <1>8, <1>9, CompactSettledStep DEF AcpSteps

-----------------------------------------------------------------------------
(* codex's steps *)

(* A step that moves no turn and no status, and hands over nothing. *)
LEMMA QuietKept ==
  ASSUME Inv, UNCHANGED <<status, fraction, turns, approvals, agentRunning, exited>>,
         DOMAIN at' = Messages, \A q \in Messages : at'[q] = at[q] \/ at'[q] \notin {"sent", "steering"}
  PROVE  Inv' /\ Goes
<1>1. Inv'
  BY DEF Inv, IdleMeansSettled
<1>. QED BY <1>1, NothingGoes

LEMMA SteerStep ==
  ASSUME Inv, NEW m \in Messages, SteerAccepted(m) \/ SteerTimedOut(m) \/ SteerRejected(m)
  PROVE  Inv' /\ Goes
<1>1. CASE SteerAccepted(m) \/ SteerTimedOut(m)
  <2>1. UNCHANGED <<session, tracker>> /\ at' = [at EXCEPT ![m] = "steered"]
    BY <1>1 DEF SteerAccepted, SteerTimedOut
  <2>. QED BY <2>1, QuietKept DEF session, tracker, Inv
<1>2. CASE SteerRejected(m) /\ (MustWait \/ Busy)
  <2>1. Enqueue(m) /\ UNCHANGED <<status, fraction, turns, approvals, agentRunning, exited>>
    BY <1>2 DEF SteerRejected
  <2>. QED BY <2>1, EnqueueKept, QuietKept DEF Inv
<1>3. CASE SteerRejected(m) /\ ~(MustWait \/ Busy)
  <2>1. PICK outcome \in Prepared : Send(outcome, m, turns, status, flushing) /\ at' = [at EXCEPT ![m] = outcome]
    BY <1>3 DEF SteerRejected
  <2>2. queue = <<>> /\ status \in {"idle", "exited"} /\ UNCHANGED <<fraction, exited, approvals, agentRunning>>
    BY <1>3 DEF SteerRejected, MustWait, Busy, BUSY_STATUSES, Inv, Statuses
  <2>3. /\ status = "idle" => turns = {} /\ approvals' = 0 /\ ~agentRunning'
        /\ status = "exited" => exited'
        /\ ~exited \/ Agent = "codex" => turns \cap Compactions = {}
    BY <2>2 DEF Inv, IdleMeansSettled
  <2>. QED BY <2>1, <2>2, <2>3, SentKept DEF Inv
<1>. QED BY <1>1, <1>2, <1>3

LEMMA StartFailedStep == ASSUME Inv, NEW m \in Messages, StartFailed(m) PROVE Inv' /\ Goes
<1>. DEFINE idle == Settled(turns, approvals, agentRunning)
<1>1. UNCHANGED <<fraction, turns, approvals, agentRunning, exited>>
  BY DEF StartFailed, tracker
<1>2. CASE idle /\ queue # <<>> /\ flushing = NoMessage
  <2>1. /\ turns = {} /\ approvals = 0 /\ ~agentRunning /\ status' \in {"idle", "running"}
        /\ DOMAIN at' = Messages /\ \A q \in Messages : q # Head(queue) => at'[q] \in {at[q], "failed"}
    BY <1>2 DEF StartFailed, Settled, Inv
  <2>2. Inv'
    BY <1>1, <2>1 DEF Inv, IdleMeansSettled, Statuses
  <2>. QED BY <1>1, <2>1, <2>2 DEF Goes, Handed
<1>3. CASE ~(idle /\ queue # <<>> /\ flushing = NoMessage)
  <2>1. /\ status' = IF idle THEN "idle" ELSE status
        /\ at' = [at EXCEPT ![m] = "failed"]
    BY <1>3 DEF StartFailed
  <2>2. DOMAIN at' = Messages /\ \A q \in Messages : at'[q] \in {at[q], "failed"}
    BY <2>1 DEF Inv
  <2>3. Inv'
    BY <1>1, <2>1, <2>2 DEF Inv, IdleMeansSettled, Statuses, Settled
  <2>. QED BY <2>2, <2>3, NothingGoes
<1>. QED BY <1>2, <1>3

LEMMA CodexStep == ASSUME Inv, CodexSteps PROVE Inv' /\ Goes
<1>1. PICK m \in Messages :
        \/ SteerAccepted(m) \/ SteerTimedOut(m) \/ SteerRejected(m)
        \/ AgentTakes(m) \/ AgentRefuses(m) \/ AgentCompletes(m)
        \/ StartReplied(m) \/ StartFailed(m)
        \/ TurnStarted(m) \/ TurnCompleted(m)
  BY DEF CodexSteps
<1>2. CASE AgentTakes(m) \/ AgentRefuses(m) \/ AgentCompletes(m) \/ StartReplied(m)
  <2>1. UNCHANGED <<status, fraction, turns, approvals, agentRunning, exited, at>>
    BY <1>2 DEF AgentTakes, AgentRefuses, AgentCompletes, StartReplied, session, tracker
  <2>. QED BY <2>1, QuietKept DEF Inv
<1>3. CASE TurnStarted(m)
  <2>1. /\ status' = "running" /\ turns' = turns \cup {m}
        /\ UNCHANGED <<fraction, approvals, agentRunning, exited, at>>
    BY <1>3 DEF TurnStarted
  <2>2. Inv'
    BY <2>1, MessageIsNoCompaction DEF Inv, IdleMeansSettled, Statuses
  <2>. QED BY <2>1, <2>2, NothingGoes
<1>4. CASE TurnCompleted(m)
  <2>1. /\ SettleIdle(turns \ {m}, approvals, agentRunning)
        /\ UNCHANGED <<fraction, approvals, agentRunning, exited>>
    BY <1>4 DEF TurnCompleted
  <2>. QED BY <2>1, SettleKept DEF Inv, IdleMeansSettled
<1>. QED BY <1>1, <1>2, <1>3, <1>4, SteerStep, StartFailedStep

-----------------------------------------------------------------------------
LEMMA InitInv == Init => Inv
BY DEF Init, Inv, IdleMeansSettled, Statuses

LEMMA StepKept == Inv /\ [Next]_vars => Inv' /\ [Goes]_vars
<1>. SUFFICES ASSUME Inv, [Next]_vars PROVE Inv' /\ [Goes]_vars
  OBVIOUS
<1>1. CASE Next
  BY <1>1, UserStep, GateStep, AcpStep, CodexStep, ExitStep DEF Next
<1>2. CASE UNCHANGED vars
  BY <1>2 DEF Inv, IdleMeansSettled, vars, session, tracker, codex
<1>. QED BY <1>1, <1>2

(* Whatever is queued, edited or fails, a message goes to the agent as the   *)
(* head of the queue or past an empty one, and with ACP never while a        *)
(* compaction is in flight (sendUserMessage, flushNext, sendAction).  With   *)
(* codex nothing is said of a message whose steer is unanswered: until it    *)
(* queues, a later one may go first.                                         *)
THEOREM OrderIsAlwaysKept == Spec => OrderKept
<1>1. [Goes]_vars => /\ [\A m \in Messages : Handed(m) => queue = <<>> \/ m = Head(queue)]_vars
                     /\ [\A m \in Messages : Handed(m) /\ ~exited => turns' \cap Compactions = {}]_vars
  BY DEF Goes
<1>. QED BY <1>1, InitInv, StepKept, PTL DEF Spec, OrderKept, NeverOvertakes, CompactNotOvertaken

-----------------------------------------------------------------------------
(* The invariant of what is queued and what is in flight *)

(* Each pending message has one place in the queue, within the cap. *)
Placed(q, where) ==
  /\ q \in Seq(Messages) /\ Len(q) <= MaxQueued
  /\ \A m \in Messages : where[m] = "queued" <=> \E i \in DOMAIN q : q[i] = m
  /\ \A i, j \in DOMAIN q : q[i] = q[j] => i = j

Fates == {"new", "steering", "steered", "queued", "sent", "failed", "cancelled", "dropped", "refused"}

(* What codex knows of a message: nothing before it was sent, and it takes *)
(* only a turn it was asked for, or a steer.                               *)
Asked(where, asked, turn, took) ==
  /\ where \in [Messages -> Fates] /\ asked \subseteq Messages
  /\ turn \in [Messages -> {"no", "asked", "owed", "on", "over", "refused"}]
  /\ took \in [Messages -> Nat]
  /\ \A m \in Messages :
       /\ where[m] \in {"new", "queued", "steering", "steered"} => turn[m] = "no"
       /\ m \in asked => turn[m] # "no"
       /\ turn[m] \in {"asked", "refused"} => took[m] = 0
       /\ turn[m] = "no" /\ where[m] # "steered" => took[m] = 0
       /\ took[m] <= 1
       /\ Agent = "acp" => turn[m] = "no" /\ where[m] # "steering"
  /\ \A m, n \in Messages : turn[m] \in {"owed", "on"} /\ turn[n] \in {"owed", "on"} => m = n

MessageInv ==
  /\ Placed(queue, at)
  /\ Asked(at, starting, agentTurn, taken)
  /\ flushing \in Messages \cup {NoMessage}
  /\ Agent = "acp" => flushing = NoMessage

(* At most one user prompt is in flight; a pending compaction is; and what  *)
(* codex has in flight are the turns it announced.                          *)
TurnInv ==
  /\ turns \subseteq TurnKeys
  /\ compactPending => turns \cap Compactions # {}
  /\ ~exited => \A m, n \in turns \cap Messages : m = n
  /\ Agent = "codex" =>
       /\ ~agentRunning /\ turns \subseteq Messages
       /\ \A m \in Messages : agentTurn[m] = "on" => m \in turns
       /\ \A m \in turns : agentTurn[m] \in {"on", "over"}

(* A busy session has something open that ends, or codex owes it an answer  *)
(* or a turn.                                                               *)
CloserInv ==
  Busy /\ ~exited =>
    \/ turns # {} \/ approvals > 0 \/ agentRunning
    \/ \E m \in Messages : agentTurn[m] = "owed"
    \/ \E m \in starting : agentTurn[m] \in {"asked", "refused"}

RestInv == Agent = "acp" /\ ~AttachmentsFail => IdleHoldsNoQueue

(* The counters and flags that stand alone. *)
FlagsInv ==
  /\ compactPending \in BOOLEAN /\ compactFired \in BOOLEAN
  /\ fraction \in {"low", "mid", "high"}
  /\ approvals \in 0..MaxGates /\ signals \in 0..MaxSignals
  /\ agentRunning \in BOOLEAN /\ strayQuiet \in BOOLEAN /\ exited \in BOOLEAN

-----------------------------------------------------------------------------
(* The queue *)

LEMMA PlacesCounted ==
  \A n \in Nat : IsFiniteSet(1..n) /\ Cardinality(1..n) = n
BY FS_Interval

LEMMA PlacedHolds ==
  ASSUME NEW q, NEW where, Placed(q, where)
  PROVE  Cardinality(ToSet(q)) = Len(q)
<1>1. q \in Seq(Messages) /\ Len(q) \in Nat /\ DOMAIN q = 1..Len(q)
  BY DEF Placed
<1>2. q \in Surjection(1..Len(q), ToSet(q))
  <2>1. q \in [1..Len(q) -> ToSet(q)]
    BY <1>1 DEF ToSet
  <2>2. \A t \in ToSet(q) : \E i \in 1..Len(q) : q[i] = t
    BY <1>1 DEF ToSet
  <2>. QED BY <2>1, <2>2 DEF Surjection
<1>3. q \in Injection(1..Len(q), ToSet(q))
  <2>1. q \in [1..Len(q) -> ToSet(q)]
    BY <1>2 DEF Surjection
  <2>. QED BY <1>1, <2>1 DEF Placed, Injection, IsInjective
<1>4. IsFiniteSet(1..Len(q)) /\ Cardinality(1..Len(q)) = Len(q)
  BY <1>1, FS_Interval
<1>. QED BY <1>2, <1>3, <1>4, FS_Surjection

(* A message that is not queued joins at the end. *)
LEMMA PlacedAppend ==
  ASSUME NEW q, NEW where, Placed(q, where), NEW m \in Messages, where[m] # "queued",
         where \in [Messages -> Fates], Len(q) < MaxQueued
  PROVE  Placed(Append(q, m), [where EXCEPT ![m] = "queued"])
<1>. DEFINE r == Append(q, m)
            w == [where EXCEPT ![m] = "queued"]
<1>1. /\ q \in Seq(Messages) /\ Len(q) \in Nat /\ DOMAIN q = 1..Len(q)
      /\ \A i \in DOMAIN q : q[i] \in Messages /\ q[i] # m
  BY DEF Placed
<1>2. /\ r \in Seq(Messages) /\ Len(r) = Len(q) + 1 /\ DOMAIN r = 1..Len(q) + 1
      /\ \A i \in DOMAIN q : r[i] = q[i]
      /\ r[Len(q) + 1] = m
  BY <1>1
<1>3. Len(r) <= MaxQueued
  BY <1>1, <1>2, QueueAssumption
<1>. HIDE DEF r
<1>4. \A i \in DOMAIN r : i \in DOMAIN q \/ i = Len(q) + 1
  BY <1>1, <1>2
<1>5. \A i, j \in DOMAIN r : r[i] = r[j] => i = j
  BY <1>1, <1>2, <1>4 DEF Placed
<1>6. \A n \in Messages : w[n] = "queued" <=> \E i \in DOMAIN r : r[i] = n
  <2>1. ASSUME NEW n \in Messages
        PROVE  w[n] = "queued" <=> \E i \in DOMAIN r : r[i] = n
    <3>1. CASE n = m
      BY <1>1, <1>2, <3>1
    <3>2. CASE n # m
      <4>1. w[n] = where[n]
        BY <3>2
      <4>2. (\E i \in DOMAIN r : r[i] = n) <=> \E i \in DOMAIN q : q[i] = n
        BY <1>1, <1>2, <1>4, <3>2
      <4>. QED BY <4>1, <4>2 DEF Placed
    <3>. QED BY <3>1, <3>2
  <2>. QED BY <2>1
<1>. QED BY <1>2, <1>3, <1>5, <1>6 DEF Placed, r

(* The message at place k leaves. *)
LEMMA PlacedWithout ==
  ASSUME NEW q, NEW where, Placed(q, where), where \in [Messages -> Fates],
         NEW k \in DOMAIN q, NEW fate, fate # "queued",
         NEW r, r \in Seq(Messages), Len(r) = Len(q) - 1,
         \A i \in 1..Len(q) - 1 : r[i] = q[IF i < k THEN i ELSE i + 1]
  PROVE  Placed(r, [where EXCEPT ![q[k]] = fate])
<1>. DEFINE w == [where EXCEPT ![q[k]] = fate]
            old(i) == IF i < k THEN i ELSE i + 1
<1>1. /\ q \in Seq(Messages) /\ Len(q) \in Nat /\ DOMAIN q = 1..Len(q) /\ k \in 1..Len(q)
      /\ DOMAIN r = 1..Len(q) - 1 /\ q[k] \in Messages /\ Len(r) \in Nat
      /\ Len(q) <= MaxQueued
  BY DEF Placed
<1>2. \A i \in DOMAIN r : old(i) \in DOMAIN q /\ old(i) # k /\ r[i] = q[old(i)]
  BY <1>1
<1>3. \A i, j \in DOMAIN r : old(i) = old(j) => i = j
  BY <1>1
<1>4. \A j \in DOMAIN q : j # k => \E i \in DOMAIN r : old(i) = j
  <2>1. ASSUME NEW j \in DOMAIN q, j # k
        PROVE  \E i \in DOMAIN r : old(i) = j
    <3>1. CASE j < k
      BY <1>1, <2>1, <3>1
    <3>2. CASE j > k
      <4>1. j - 1 \in DOMAIN r /\ old(j - 1) = j
        BY <1>1, <2>1, <3>2
      <4>. QED BY <4>1
    <3>. QED BY <1>1, <2>1, <3>1, <3>2
  <2>. QED BY <2>1
<1>. HIDE DEF old
<1>5. \A i, j \in DOMAIN r : r[i] = r[j] => i = j
  BY <1>2, <1>3 DEF Placed
<1>6. ASSUME NEW n \in Messages
      PROVE  w[n] = "queued" <=> \E i \in DOMAIN r : r[i] = n
  <2>1. CASE n = q[k]
    <3>1. w[n] # "queued"
      BY <1>1, <2>1
    <3>2. \A i \in DOMAIN r : r[i] # n
      BY <1>2, <2>1 DEF Placed
    <3>. QED BY <3>1, <3>2
  <2>2. CASE n # q[k]
    <3>1. w[n] = where[n]
      BY <2>2
    <3>2. (\E i \in DOMAIN r : r[i] = n) <=> \E j \in DOMAIN q : q[j] = n
      BY <1>2, <1>4, <2>2
    <3>. QED BY <3>1, <3>2 DEF Placed
  <2>. QED BY <2>1, <2>2
<1>7. Len(r) <= MaxQueued
  BY <1>1, QueueAssumption
<1>. QED BY <1>5, <1>6, <1>7 DEF Placed

LEMMA PlacedTail ==
  ASSUME NEW q, NEW where, Placed(q, where), where \in [Messages -> Fates], q # <<>>,
         NEW fate, fate # "queued"
  PROVE  /\ Placed(Tail(q), [where EXCEPT ![Head(q)] = fate])
         /\ Head(q) \in Messages /\ where[Head(q)] = "queued"
         /\ Len(Tail(q)) < MaxQueued
<1>1. /\ q \in Seq(Messages) /\ Len(q) \in Nat /\ DOMAIN q = 1..Len(q) /\ Len(q) # 0
      /\ Len(q) <= MaxQueued
  BY DEF Placed
<1>2. /\ 1 \in DOMAIN q /\ Head(q) = q[1] /\ Tail(q) \in Seq(Messages)
      /\ Len(Tail(q)) = Len(q) - 1
      /\ \A i \in 1..Len(q) - 1 : Tail(q)[i] = q[i + 1]
  BY <1>1
<1>3. \A i \in 1..Len(q) - 1 : Tail(q)[i] = q[IF i < 1 THEN i ELSE i + 1]
  BY <1>1, <1>2
<1>4. Placed(Tail(q), [where EXCEPT ![q[1]] = fate])
  BY <1>2, <1>3, PlacedWithout
<1>. QED BY <1>1, <1>2, <1>4, QueueAssumption DEF Placed

LEMMA PlacedRemoveAt ==
  ASSUME NEW q, NEW where, Placed(q, where), where \in [Messages -> Fates],
         NEW k \in DOMAIN q, NEW fate, fate # "queued"
  PROVE  Placed(RemoveAt(q, k), [where EXCEPT ![q[k]] = fate])
<1>. DEFINE r == RemoveAt(q, k)
<1>1. /\ q \in Seq(Messages) /\ Len(q) \in Nat /\ DOMAIN q = 1..Len(q) /\ k \in 1..Len(q)
  BY DEF Placed
<1>2. /\ SubSeq(q, 1, k - 1) \in Seq(Messages) /\ Len(SubSeq(q, 1, k - 1)) = k - 1
      /\ SubSeq(q, k + 1, Len(q)) \in Seq(Messages) /\ Len(SubSeq(q, k + 1, Len(q))) = Len(q) - k
      /\ \A i \in 1..k - 1 : SubSeq(q, 1, k - 1)[i] = q[i]
      /\ \A i \in 1..Len(q) - k : SubSeq(q, k + 1, Len(q))[i] = q[k + i]
  BY <1>1
<1>3. r \in Seq(Messages) /\ Len(r) = Len(q) - 1
  BY <1>1, <1>2 DEF RemoveAt
<1>4. ASSUME NEW i \in 1..Len(q) - 1
      PROVE  r[i] = q[IF i < k THEN i ELSE i + 1]
  <2>. DEFINE a == SubSeq(q, 1, k - 1)
              b == SubSeq(q, k + 1, Len(q))
  <2>1. /\ a \in Seq(Messages) /\ Len(a) = k - 1 /\ b \in Seq(Messages) /\ Len(b) = Len(q) - k
        /\ \A j \in 1..k - 1 : a[j] = q[j]
        /\ \A j \in 1..Len(q) - k : b[j] = q[k + j]
        /\ r = a \o b
    BY <1>2 DEF RemoveAt
  <2>. HIDE DEF a, b, r
  <2>2. CASE i < k
    BY <1>1, <2>1, <2>2
  <2>3. CASE i >= k
    <3>1. i - (k - 1) \in 1..Len(q) - k /\ k + (i - (k - 1)) = i + 1
      BY <1>1, <2>3
    <3>2. r[i] = b[i - (k - 1)]
      <4>1. i \in 1..Len(a) + Len(b) /\ i > Len(a)
        BY <1>1, <2>1, <2>3
      <4>2. (a \o b)[i] = b[i - Len(a)]
        BY <2>1, <4>1
      <4>. QED BY <2>1, <4>2
    <3>3. b[i - (k - 1)] = q[i + 1]
      BY <2>1, <3>1
    <3>4. (IF i < k THEN i ELSE i + 1) = i + 1
      BY <1>1, <2>3
    <3>. QED BY <3>2, <3>3, <3>4
  <2>. QED BY <1>1, <2>2, <2>3
<1>. HIDE DEF r
<1>. QED BY <1>3, <1>4, PlacedWithout DEF r

(* A queue of the same messages, each once, is a rearrangement. *)
LEMMA PlacedAgain ==
  ASSUME NEW q, NEW where, Placed(q, where), NEW r \in [DOMAIN q -> ToSet(q)],
         \A i, j \in DOMAIN q : r[i] = r[j] => i = j
  PROVE  Placed(r, where)
<1>1. /\ q \in Seq(Messages) /\ Len(q) \in Nat /\ DOMAIN q = 1..Len(q)
      /\ ToSet(q) \subseteq Messages /\ Len(q) <= MaxQueued
  BY DEF Placed, ToSet
<1>. DEFINE D == 1..Len(q)
            S == ToSet(q)
<1>2. r \in [D -> S] /\ \A i, j \in D : r[i] = r[j] => i = j
  BY <1>1
<1>3. q \in Surjection(D, S)
  BY <1>1 DEF Surjection, ToSet
<1>4. IsFiniteSet(D) /\ Cardinality(D) = Len(q)
  BY <1>1, PlacesCounted
<1>5. Cardinality(S) = Len(q)
  BY PlacedHolds
<1>6. r \in Seq(Messages) /\ Len(r) = Len(q) /\ DOMAIN r = D
  <2>1. r \in [1..Len(q) -> Messages]
    BY <1>1, <1>2
  <2>2. r \in Seq(Messages) /\ DOMAIN r = 1..Len(q)
    BY <1>1, <2>1
  <2>. QED BY <1>1, <2>1, <2>2
<1>. HIDE DEF D, S
<1>7. IsFiniteSet(S)
  BY <1>3, <1>4, FS_Surjection
<1>8. r \in Injection(D, S)
  BY <1>2 DEF Injection, IsInjective
<1>9. r \in Surjection(D, S)
  BY <1>4, <1>5, <1>7, <1>8, FS_Injection
<1>10. ASSUME NEW m \in Messages
       PROVE  where[m] = "queued" <=> \E i \in DOMAIN r : r[i] = m
  <2>1. where[m] = "queued" <=> m \in S
    BY DEF Placed, S, ToSet
  <2>2. m \in S <=> \E i \in D : r[i] = m
    BY <1>2, <1>9 DEF Surjection
  <2>. QED BY <1>6, <2>1, <2>2
<1>11. \A i, j \in DOMAIN r : r[i] = r[j] => i = j
  BY <1>2, <1>6
<1>. QED BY <1>1, <1>6, <1>10, <1>11 DEF Placed

(* The arrangement reorderQueue asks for places no message twice. *)
LEMMA AheadIsStrict ==
  ASSUME NEW ids, NEW a, \A i, j \in DOMAIN queue : queue[i] = queue[j] => i = j,
         DOMAIN queue \subseteq Int, DOMAIN ids \subseteq Nat \ {0}
  PROVE  ~Ahead(ids, a, a)
BY DEF Ahead

-----------------------------------------------------------------------------
(* The messages *)

Whole == Inv /\ MessageInv /\ TurnInv /\ CloserInv /\ RestInv /\ FlagsInv

(* What the steps below keep; the counters and flags follow on their own. *)
Kept == MessageInv' /\ TurnInv' /\ CloserInv' /\ RestInv'

LEMMA QuietMessages ==
  ASSUME MessageInv, UNCHANGED <<queue, at, flushing, starting, agentTurn, taken>>
  PROVE  MessageInv'
BY DEF MessageInv, Placed, Asked

(* A message that joins the queue, or is refused, is not codex's yet. *)
LEMMA EnqueueMessages ==
  ASSUME MessageInv, NEW m \in Messages, at[m] \in {"new", "steering"}, Enqueue(m),
         UNCHANGED <<flushing, starting, agentTurn, taken>>
  PROVE  MessageInv'
<1>1. at \in [Messages -> Fates] /\ Placed(queue, at)
  BY DEF MessageInv, Asked
<1>2. Placed(queue', at') /\ \E f \in {"queued", "refused"} : at' = [at EXCEPT ![m] = f]
  <2>1. CASE Len(queue) >= MaxQueued
    <3>1. queue' = queue /\ at' = [at EXCEPT ![m] = "refused"]
      BY <2>1 DEF Enqueue
    <3>. QED BY <1>1, <3>1 DEF Placed
  <2>2. CASE ~(Len(queue) >= MaxQueued)
    <3>1. queue' = Append(queue, m) /\ at' = [at EXCEPT ![m] = "queued"]
      BY <2>2 DEF Enqueue
    <3>2. Len(queue) < MaxQueued
      BY <1>1, <2>2, QueueAssumption DEF Placed
    <3>. QED BY <1>1, <3>1, <3>2, PlacedAppend
  <2>. QED BY <2>1, <2>2
<1>3. Asked(at', starting', agentTurn', taken')
  BY <1>1, <1>2 DEF MessageInv, Asked, Fates
<1>. QED BY <1>2, <1>3 DEF MessageInv

(* m goes out, or cannot be prepared; another message may join the queue. *)
HandsOver(m, outcome) ==
  /\ m \in Messages /\ at[m] \in {"new", "queued", "steering"} /\ outcome \in {"sent", "failed"}
  /\ Placed(queue', at') /\ at' \in [Messages -> Fates]
  /\ at'[m] = outcome
  /\ \A q \in Messages \ {m} : at'[q] = at[q] \/ (at[q] = "new" /\ at'[q] = "queued")
  /\ UNCHANGED taken

LEMMA SentMessages ==
  ASSUME MessageInv, NEW m, NEW outcome, HandsOver(m, outcome),
         NEW T, NEW s, NEW by \in Messages \cup {NoMessage}, Send(outcome, m, T, s, by)
  PROVE  MessageInv'
<1>1. m \in Messages /\ agentTurn[m] = "no" /\ taken[m] = 0 /\ m \notin starting
  BY DEF HandsOver, MessageInv, Asked
<1>2. CASE UNCHANGED <<starting, agentTurn, flushing>>
  <2>1. Asked(at', starting', agentTurn', taken')
    BY <1>1, <1>2 DEF MessageInv, Asked, HandsOver
  <2>. QED BY <1>2, <2>1 DEF MessageInv, HandsOver
<1>3. CASE /\ Agent = "codex" /\ outcome = "sent" /\ starting' = starting \cup {m}
           /\ agentTurn' = [agentTurn EXCEPT ![m] = "asked"]
           /\ flushing' = by
  <2>1. Asked(at', starting', agentTurn', taken')
    <3>1. /\ at' \in [Messages -> Fates] /\ starting' \subseteq Messages
          /\ agentTurn' \in [Messages -> {"no", "asked", "owed", "on", "over", "refused"}]
          /\ taken' \in [Messages -> Nat]
      BY <1>1, <1>3 DEF MessageInv, Asked, HandsOver
    <3>2. agentTurn'[m] = "asked" /\ taken'[m] = 0 /\ at'[m] = "sent"
      BY <1>1, <1>3 DEF HandsOver, MessageInv, Asked
    <3>3. \A n \in Messages \ {m} : /\ agentTurn'[n] = agentTurn[n] /\ taken'[n] = taken[n]
                                    /\ n \in starting' => n \in starting
                                    /\ at'[n] = at[n] \/ (at[n] = "new" /\ at'[n] = "queued")
      BY <1>1, <1>3 DEF HandsOver, MessageInv, Asked
    <3>. QED BY <1>1, <1>3, <3>1, <3>2, <3>3 DEF MessageInv, Asked
  <2>. QED BY <1>3, <2>1 DEF MessageInv, HandsOver
<1>. QED BY <1>2, <1>3, AgentAssumption DEF Send, HandsOver

(* The head of the queue goes out. *)
LEMMA HeadHandsOver ==
  ASSUME MessageInv, queue # <<>>, NEW outcome \in {"sent", "failed"},
         queue' = Tail(queue), at' = [at EXCEPT ![Head(queue)] = outcome], UNCHANGED taken
  PROVE  HandsOver(Head(queue), outcome)
<1>1. at \in [Messages -> Fates] /\ Placed(queue, at)
  BY DEF MessageInv, Asked
<1>2. /\ Placed(Tail(queue), [at EXCEPT ![Head(queue)] = outcome])
      /\ Head(queue) \in Messages /\ at[Head(queue)] = "queued"
  BY <1>1, PlacedTail
<1>3. at' \in [Messages -> Fates] /\ at'[Head(queue)] = outcome
  BY <1>1, <1>2 DEF Fates
<1>4. \A q \in Messages \ {Head(queue)} : at'[q] = at[q]
  BY <1>1
<1>. QED BY <1>2, <1>3, <1>4 DEF HandsOver

(* The head goes out, and m falls in behind. *)
LEMMA HeadHandsOverFirst ==
  ASSUME MessageInv, queue # <<>>, NEW outcome \in {"sent", "failed"},
         NEW m \in Messages, at[m] = "new", queue' = Append(Tail(queue), m),
         at' = [at EXCEPT ![Head(queue)] = outcome, ![m] = "queued"], UNCHANGED taken
  PROVE  HandsOver(Head(queue), outcome)
<1>. DEFINE h == Head(queue)
            between == [at EXCEPT ![h] = outcome]
<1>1. at \in [Messages -> Fates] /\ Placed(queue, at)
  BY DEF MessageInv, Asked
<1>2. /\ Placed(Tail(queue), between)
      /\ h \in Messages /\ at[h] = "queued"
      /\ Len(Tail(queue)) < MaxQueued
  BY <1>1, PlacedTail
<1>3. h # m
  BY <1>2
<1>4. at' = [between EXCEPT ![m] = "queued"]
  BY <1>1
<1>5. between \in [Messages -> Fates] /\ outcome \in Fates /\ "queued" \in Fates
  BY <1>1, <1>2 DEF Fates
<1>. HIDE DEF h
<1>6. between[h] = outcome /\ \A q \in Messages \ {h} : between[q] = at[q]
  BY <1>1, <1>2
<1>. HIDE DEF between
<1>7. Placed(queue', at')
  <2>1. between[m] # "queued"
    BY <1>3, <1>6
  <2>2. queue' = Append(Tail(queue), m)
    BY DEF h
  <2>3. Placed(Append(Tail(queue), m), [between EXCEPT ![m] = "queued"])
    BY <1>2, <1>5, <2>1, PlacedAppend
  <2>. QED BY <1>4, <2>2, <2>3
<1>8. at' \in [Messages -> Fates] /\ at'[h] = outcome
  BY <1>2, <1>3, <1>4, <1>5, <1>6
<1>9. \A q \in Messages \ {h} : at'[q] = at[q] \/ (at[q] = "new" /\ at'[q] = "queued")
  BY <1>4, <1>5, <1>6
<1>10. HandsOver(h, outcome)
  BY <1>2, <1>7, <1>8, <1>9 DEF HandsOver
<1>. QED BY <1>10 DEF h

(* A message that is not queued goes out past an empty queue. *)
LEMMA NewHandsOver ==
  ASSUME MessageInv, NEW m \in Messages, at[m] \in {"new", "steering"},
         NEW outcome \in {"sent", "failed"},
         UNCHANGED <<queue, taken>>, at' = [at EXCEPT ![m] = outcome]
  PROVE  HandsOver(m, outcome)
<1>1. at \in [Messages -> Fates] /\ Placed(queue, at)
  BY DEF MessageInv, Asked
<1>2. Placed(queue', at')
  BY <1>1 DEF Placed
<1>. QED BY <1>1, <1>2 DEF HandsOver, Fates

-----------------------------------------------------------------------------
(* What is left in flight *)

(* T is what a step leaves of the turns: none that codex is running ends. *)
Leaves(T) ==
  /\ T \subseteq turns
  /\ Agent = "codex" => ~agentRunning' /\ \A m \in Messages : agentTurn[m] = "on" => m \in T
  /\ UNCHANGED exited

LEMMA LeavesSame ==
  ASSUME TurnInv, UNCHANGED exited, Agent = "codex" => ~agentRunning'
  PROVE  Leaves(turns)
BY DEF TurnInv, Leaves

(* Where a message may be sent: no other prompt is in flight. *)
Room(T, s) ==
  /\ Leaves(T) /\ s \notin BUSY_STATUSES
  /\ T = {} \/ exited \/ Agent = "codex"
  /\ compactPending' => T \cap Compactions # {}

LEMMA LeftTurns ==
  ASSUME TurnInv, NEW T, Leaves(T), turns' = T, UNCHANGED agentTurn,
         compactPending' => T \cap Compactions # {}
  PROVE  TurnInv'
BY DEF TurnInv, Leaves

LEMMA OneMore ==
  ASSUME NEW m \in Messages
  PROVE  m \in TurnKeys /\ (Compactions \cup {Work}) \subseteq TurnKeys
BY DEF TurnKeys

LEMMA SendKeeps ==
  ASSUME MessageInv, TurnInv, NEW m, NEW outcome \in Prepared, HandsOver(m, outcome),
         NEW T, NEW s, NEW by \in Messages \cup {NoMessage}, Send(outcome, m, T, s, by), Room(T, s)
  PROVE  Kept
<1>1. MessageInv'
  BY SentMessages
<1>2. m \in Messages /\ agentTurn[m] = "no" /\ outcome \in {"sent", "failed"}
  BY DEF HandsOver, MessageInv, Asked
<1>3. CASE outcome = "failed"
  <2>1. turns' = T /\ status' = s /\ UNCHANGED agentTurn
    BY <1>3 DEF Send
  <2>2. TurnInv'
    BY <2>1, LeftTurns DEF Room
  <2>3. CloserInv'
    BY <2>1 DEF CloserInv, Busy, Room
  <2>4. RestInv'
    BY <1>3 DEF Prepared, RestInv
  <2>. QED BY <1>1, <2>2, <2>3, <2>4 DEF Kept
<1>4. CASE outcome = "sent" /\ Agent = "acp"
  <2>1. turns' = T \cup {m} /\ status' = "running" /\ UNCHANGED agentTurn
    BY <1>4 DEF Send
  <2>2. TurnInv'
    BY <1>2, <1>4, <2>1, OneMore DEF TurnInv, Room, Leaves
  <2>3. CloserInv' /\ RestInv'
    BY <2>1 DEF CloserInv, RestInv, IdleHoldsNoQueue
  <2>. QED BY <1>1, <2>2, <2>3 DEF Kept
<1>5. CASE outcome = "sent" /\ Agent = "codex"
  <2>1. /\ turns' = T /\ status' = "running" /\ starting' = starting \cup {m}
        /\ agentTurn' = [agentTurn EXCEPT ![m] = "asked"]
    BY <1>5 DEF Send
  <2>2. /\ agentTurn'[m] = "asked"
        /\ \A n \in Messages \ {m} : agentTurn'[n] = agentTurn[n]
        /\ m \notin turns
    BY <1>2, <1>5, <2>1 DEF MessageInv, Asked, TurnInv
  <2>3. TurnInv'
    BY <1>2, <1>5, <2>1, <2>2 DEF TurnInv, Room, Leaves
  <2>4. CloserInv'
    BY <2>1, <2>2 DEF CloserInv
  <2>5. RestInv'
    BY <1>5 DEF RestInv
  <2>. QED BY <1>1, <2>3, <2>4, <2>5 DEF Kept
<1>. QED BY <1>2, <1>3, <1>4, <1>5, AgentAssumption

(* Nothing is sent, and the turns in T stay. *)
LEMMA UnsentKeeps ==
  ASSUME MessageInv, TurnInv, NEW T, NEW s, Unsent(T, s), Leaves(T), UNCHANGED taken,
         compactPending' => T \cap Compactions # {},
         s \in BUSY_STATUSES /\ ~exited => T # {} \/ approvals' > 0 \/ agentRunning',
         Agent = "acp" /\ ~AttachmentsFail /\ s = "idle" => queue = <<>>
  PROVE  Kept
<1>1. turns' = T /\ status' = s /\ UNCHANGED <<queue, at, flushing, starting, agentTurn>>
  BY DEF Unsent
<1>2. MessageInv'
  BY <1>1, QuietMessages
<1>3. TurnInv'
  BY <1>1, LeftTurns
<1>4. CloserInv' /\ RestInv'
  BY <1>1 DEF CloserInv, RestInv, IdleHoldsNoQueue, Busy, Leaves
<1>. QED BY <1>2, <1>3, <1>4 DEF Kept

(* The head of the queue goes out where there is room. *)
LEMMA FlushKeeps ==
  ASSUME MessageInv, TurnInv, NEW T, NEW s, queue # <<>>, FlushHead(T, s), Room(T, s), UNCHANGED taken
  PROVE  Kept
<1>1. PICK outcome \in Prepared : /\ Send(outcome, Head(queue), T, s, Head(queue))
                                  /\ queue' = Tail(queue)
                                  /\ at' = [at EXCEPT ![Head(queue)] = outcome]
  BY DEF FlushHead
<1>2. outcome \in {"sent", "failed"}
  BY DEF Prepared
<1>3. HandsOver(Head(queue), outcome)
  BY <1>1, <1>2, HeadHandsOver
<1>4. Head(queue) \in Messages \cup {NoMessage}
  BY <1>3 DEF HandsOver
<1>. QED BY <1>1, <1>3, <1>4, SendKeeps

LEMMA StartsCompaction ==
  ASSUME MessageInv, TurnInv, NEW T, T \subseteq TurnKeys, StartAutoCompact(T), Agent = "acp",
         T \cap Messages = {}, UNCHANGED agentTurn
  PROVE  TurnInv' /\ CloserInv' /\ RestInv'
<1>1. FreshAuto \in Compactions /\ FreshAuto \in TurnKeys /\ FreshAuto \notin Messages
  BY MessageIsNoCompaction DEF FreshAuto, Compactions, TurnKeys
<1>2. turns' = T \cup {FreshAuto} /\ status' = "running"
  BY DEF StartAutoCompact
<1>3. TurnInv'
  BY <1>1, <1>2 DEF TurnInv
<1>. QED BY <1>1, <1>2, <1>3 DEF CloserInv, RestInv, IdleHoldsNoQueue

(* Once nothing is in flight, the compaction that is due, the head of the *)
(* queue, or nothing goes.                                                *)
LEMMA OnIdleKeeps ==
  ASSUME Inv, MessageInv, TurnInv, OnIdle({}), Leaves({}), ~compactPending, UNCHANGED taken
  PROVE  Kept
<1>1. CASE AutoCompactDue(fraction)
  <2>1. StartAutoCompact({}) /\ UNCHANGED <<queue, at, flushing, starting, agentTurn>>
    BY <1>1 DEF OnIdle
  <2>2. Agent = "acp"
    BY <1>1, AgentAssumption DEF AutoCompactDue, Inv
  <2>3. MessageInv'
    BY <2>1, QuietMessages
  <2>. QED BY <2>1, <2>2, <2>3, StartsCompaction DEF Kept
<1>2. CASE ~AutoCompactDue(fraction) /\ queue # <<>> /\ flushing = NoMessage
  <2>1. FlushHead({}, "idle") /\ ~compactPending'
    BY <1>2 DEF OnIdle
  <2>2. Room({}, "idle")
    BY <2>1 DEF Room, BUSY_STATUSES
  <2>. QED BY <1>2, <2>1, <2>2, FlushKeeps
<1>3. CASE ~AutoCompactDue(fraction) /\ ~(queue # <<>> /\ flushing = NoMessage)
  <2>1. Unsent({}, "idle") /\ ~compactPending'
    BY <1>3 DEF OnIdle
  <2>2. Agent = "acp" => queue = <<>>
    BY <1>3 DEF MessageInv
  <2>3. "idle" \notin BUSY_STATUSES
    BY DEF BUSY_STATUSES
  <2>. QED BY <2>1, <2>2, <2>3, UnsentKeeps
<1>. QED BY <1>1, <1>2, <1>3

LEMMA SettleKeeps ==
  ASSUME Inv, MessageInv, TurnInv, RestInv, NEW T, NEW gates \in Nat, NEW running,
         SettleIdle(T, gates, running), approvals' = gates, agentRunning' = running, Leaves(T),
         compactPending => T \cap Compactions # {}, UNCHANGED taken
  PROVE  Kept
<1>1. CASE Settled(T, gates, running)
  <2>1. T = {} /\ OnIdle({}) /\ ~compactPending
    BY <1>1 DEF SettleIdle, Settled
  <2>. QED BY <2>1, OnIdleKeeps
<1>2. CASE ~Settled(T, gates, running)
  <2>1. Unsent(T, status) /\ UNCHANGED compactPending
    BY <1>2 DEF SettleIdle
  <2>2. ~exited => T # {} \/ approvals' > 0 \/ agentRunning'
    BY <1>2 DEF Settled
  <2>3. Agent = "acp" /\ ~AttachmentsFail /\ status = "idle" => queue = <<>>
    BY DEF RestInv, IdleHoldsNoQueue
  <2>. QED BY <2>1, <2>2, <2>3, UnsentKeeps
<1>. QED BY <1>1, <1>2

LEMMA ReleasedKeeps ==
  ASSUME Inv, MessageInv, TurnInv, NEW T, NEW s \in Statuses, CompactReleased(T, s), Leaves(T),
         s \notin BUSY_STATUSES => T = {} \/ exited, UNCHANGED taken,
         s \in BUSY_STATUSES /\ ~exited => T # {} \/ approvals' > 0 \/ agentRunning'
  PROVE  Kept
<1>1. CASE queue # <<>> /\ s \notin BUSY_STATUSES
  <2>1. FlushHead(T, s) /\ Room(T, s)
    BY <1>1 DEF CompactReleased, Room
  <2>. QED BY <1>1, <2>1, FlushKeeps
<1>2. CASE ~(queue # <<>> /\ s \notin BUSY_STATUSES)
  <2>1. Unsent(T, s) /\ ~compactPending'
    BY <1>2 DEF CompactReleased
  <2>2. s = "idle" => queue = <<>>
    BY <1>2 DEF BUSY_STATUSES
  <2>. QED BY <2>1, <2>2, UnsentKeeps
<1>. QED BY <1>1, <1>2

-----------------------------------------------------------------------------
(* The user's steps, on the messages and on what is in flight *)

(* Only the queue changes. *)
LEMMA QuietTurns ==
  ASSUME MessageInv', TurnInv, CloserInv,
         UNCHANGED <<status, turns, approvals, agentRunning, exited, compactPending, starting, agentTurn>>,
         Agent = "acp" /\ ~AttachmentsFail /\ status = "idle" => queue' = <<>>
  PROVE  Kept
BY DEF Kept, TurnInv, CloserInv, Busy, RestInv, IdleHoldsNoQueue

LEMMA SendReleasingKeeps == ASSUME Whole, NEW m \in Messages, SendReleasing(m) PROVE Kept
<1>1. /\ Inv /\ MessageInv /\ TurnInv /\ UNCHANGED <<agentRunning, exited, taken>>
      /\ at[m] = "new" /\ turns = {Work} /\ ~agentRunning
  BY DEF Whole, SendReleasing, Releasable
<1>2. Agent = "acp" /\ flushing = NoMessage /\ ~compactPending
  BY <1>1, AgentAssumption, MessagesAssumption DEF TurnInv, MessageInv, Work, Compactions
<1>3. Leaves({})
  BY <1>1, <1>2 DEF Leaves
<1>4. CASE AutoCompactDue(fraction)
  <2>1. StartAutoCompact({}) /\ Enqueue(m) /\ UNCHANGED <<flushing, starting, agentTurn>>
    BY <1>4 DEF SendReleasing
  <2>2. MessageInv'
    BY <1>1, <2>1, EnqueueMessages
  <2>. QED BY <1>1, <1>2, <2>1, <2>2, StartsCompaction DEF Kept
<1>5. CASE ~AutoCompactDue(fraction) /\ queue # <<>>
  <2>1. PICK outcome \in Prepared : /\ Send(outcome, Head(queue), {}, "idle", Head(queue))
                                    /\ queue' = Append(Tail(queue), m)
                                    /\ at' = [at EXCEPT ![Head(queue)] = outcome, ![m] = "queued"]
    BY <1>2, <1>5 DEF SendReleasing
  <2>2. outcome \in {"sent", "failed"} /\ ~compactPending'
    BY <1>2, <1>5 DEF Prepared, SendReleasing
  <2>3. HandsOver(Head(queue), outcome)
    BY <1>1, <1>5, <2>1, <2>2, HeadHandsOverFirst
  <2>4. Room({}, "idle") /\ Head(queue) \in Messages \cup {NoMessage}
    BY <1>3, <2>2, <2>3 DEF Room, BUSY_STATUSES, HandsOver
  <2>. QED BY <1>1, <2>1, <2>3, <2>4, SendKeeps
<1>6. CASE ~AutoCompactDue(fraction) /\ queue = <<>>
  <2>1. PICK outcome \in Prepared : /\ Send(outcome, m, {}, "idle", flushing)
                                    /\ at' = [at EXCEPT ![m] = outcome]
                                    /\ UNCHANGED queue
    BY <1>2, <1>6 DEF SendReleasing, MustWait
  <2>2. outcome \in {"sent", "failed"} /\ ~compactPending'
    BY <1>2, <1>6 DEF Prepared, SendReleasing
  <2>3. HandsOver(m, outcome)
    BY <1>1, <2>1, <2>2, NewHandsOver
  <2>4. Room({}, "idle") /\ flushing \in Messages \cup {NoMessage}
    BY <1>2, <1>3, <2>2 DEF Room, BUSY_STATUSES
  <2>. QED BY <1>1, <2>1, <2>3, <2>4, SendKeeps
<1>. QED BY <1>4, <1>5, <1>6

LEMMA SendQueueingKeeps == ASSUME Whole, NEW m \in Messages, SendQueueing(m) PROVE Kept
<1>1. /\ Inv /\ MessageInv /\ TurnInv /\ CloserInv /\ RestInv /\ at[m] = "new" /\ Enqueue(m)
      /\ UNCHANGED <<status, flushing, compactPending, turns, approvals, agentRunning, exited,
                     starting, agentTurn, taken>>
  BY DEF Whole, SendQueueing, tracker, codex
<1>2. MessageInv'
  BY <1>1, EnqueueMessages
<1>3. Agent = "acp" /\ ~AttachmentsFail => status # "idle"
  <2>1. SUFFICES ASSUME Agent = "acp", ~AttachmentsFail, status = "idle" PROVE FALSE
    OBVIOUS
  <2>2. queue = <<>> /\ turns = {} /\ flushing = NoMessage /\ ~compactPending
    BY <1>1, <2>1 DEF RestInv, IdleHoldsNoQueue, Inv, IdleMeansSettled, TurnInv, MessageInv
  <2>. QED BY <2>1, <2>2 DEF SendQueueing, MustWait, Busy, BUSY_STATUSES
<1>. QED BY <1>1, <1>2, <1>3, QuietTurns

(* A message that is not queued changes its fate for another. *)
LEMMA PlacedElsewhere ==
  ASSUME NEW q, NEW where, Placed(q, where), where \in [Messages -> Fates],
         NEW m \in Messages, where[m] # "queued", NEW fate, fate # "queued"
  PROVE  Placed(q, [where EXCEPT ![m] = fate])
BY DEF Placed

LEMMA SendSteeringKeeps == ASSUME Whole, NEW m \in Messages, SendSteering(m) PROVE Kept
<1>1. /\ Inv /\ MessageInv /\ TurnInv /\ CloserInv /\ RestInv /\ at[m] = "new" /\ Agent = "codex"
      /\ UNCHANGED <<status, queue, flushing, compactPending, turns, approvals, agentRunning, exited,
                     starting, agentTurn, taken>>
  BY DEF Whole, SendSteering, session, tracker, codex
<1>2. PICK outcome \in {"steering", "failed"} : at' = [at EXCEPT ![m] = outcome]
  BY DEF SendSteering, Prepared
<1>3. at \in [Messages -> Fates] /\ Placed(queue, at)
  BY <1>1 DEF MessageInv, Asked
<1>4. Placed(queue', at')
  BY <1>1, <1>2, <1>3, PlacedElsewhere
<1>5. Asked(at', starting', agentTurn', taken')
  BY <1>1, <1>2 DEF MessageInv, Asked, Fates
<1>6. MessageInv'
  BY <1>1, <1>4, <1>5 DEF MessageInv
<1>. QED BY <1>1, <1>6, QuietTurns

(* A message that waits for nothing goes out. *)
LEMMA GoesOut ==
  ASSUME Whole, NEW m \in Messages, at[m] \in {"new", "steering"}, ~MustWait, ~Busy,
         \E outcome \in Prepared :
           Send(outcome, m, turns, status, flushing) /\ at' = [at EXCEPT ![m] = outcome],
         UNCHANGED <<queue, taken, exited, agentRunning, compactPending>>
  PROVE  Kept
<1>1. Inv /\ MessageInv /\ TurnInv
  BY DEF Whole
<1>2. PICK outcome \in Prepared :
        Send(outcome, m, turns, status, flushing) /\ at' = [at EXCEPT ![m] = outcome]
  OBVIOUS
<1>3. outcome \in {"sent", "failed"}
  BY DEF Prepared
<1>4. HandsOver(m, outcome)
  BY <1>1, <1>2, <1>3, NewHandsOver
<1>5. Room(turns, status)
  <2>1. status \notin BUSY_STATUSES /\ ~compactPending'
    BY DEF Busy, MustWait
  <2>2. status = "idle" \/ exited
    BY <1>1, <2>1 DEF Inv, Statuses, BUSY_STATUSES
  <2>3. turns = {} \/ exited
    BY <1>1, <2>2 DEF Inv, IdleMeansSettled
  <2>4. Leaves(turns)
    BY <1>1, LeavesSame DEF TurnInv
  <2>. QED BY <2>1, <2>3, <2>4 DEF Room
<1>6. flushing \in Messages \cup {NoMessage}
  BY <1>1 DEF MessageInv
<1>. QED BY <1>1, <1>2, <1>4, <1>5, <1>6, SendKeeps

LEMMA SendNowKeeps == ASSUME Whole, NEW m \in Messages, SendNow(m) PROVE Kept
<1>1. /\ at[m] \in {"new", "steering"} /\ ~MustWait /\ ~Busy
      /\ UNCHANGED <<queue, taken, exited, agentRunning, compactPending>>
      /\ \E outcome \in Prepared :
           Send(outcome, m, turns, status, flushing) /\ at' = [at EXCEPT ![m] = outcome]
  BY DEF SendNow
<1>. QED BY <1>1, GoesOut

(* An edit of the queue: nobody is idle over a queue. *)
LEMMA EditKeeps ==
  ASSUME Whole, QueueEdited, Placed(queue', at'), at' \in [Messages -> Fates],
         \A q \in Messages : at'[q] = at[q] \/ (at[q] = "queued" /\ at'[q] = "cancelled"),
         queue = <<>> => queue' = <<>>
  PROVE  Kept
<1>1. /\ MessageInv /\ TurnInv /\ CloserInv /\ RestInv
      /\ UNCHANGED <<status, flushing, compactPending, turns, approvals, agentRunning, exited,
                     starting, agentTurn, taken>>
  BY DEF Whole, QueueEdited, tracker, codex
<1>2. Asked(at', starting', agentTurn', taken')
  BY <1>1 DEF MessageInv, Asked
<1>3. MessageInv'
  BY <1>1, <1>2 DEF MessageInv
<1>4. Agent = "acp" /\ ~AttachmentsFail /\ status = "idle" => queue' = <<>>
  BY <1>1 DEF RestInv, IdleHoldsNoQueue
<1>. QED BY <1>1, <1>3, <1>4, QuietTurns

LEMMA CancelQueuedKeeps == ASSUME Whole, NEW m \in Messages, CancelQueued(m) PROVE Kept
<1>1. PICK i \in DOMAIN queue : queue[i] = m /\ queue' = RemoveAt(queue, i)
  BY DEF CancelQueued
<1>2. at \in [Messages -> Fates] /\ Placed(queue, at)
  BY DEF Whole, MessageInv, Asked
<1>3. at' = [at EXCEPT ![m] = "cancelled"] /\ QueueEdited
  BY DEF CancelQueued
<1>4. Placed(queue', at')
  BY <1>1, <1>2, <1>3, PlacedRemoveAt
<1>5. at[m] = "queued"
  BY <1>1, <1>2 DEF Placed
<1>6. queue # <<>>
  BY <1>1
<1>7. /\ at' \in [Messages -> Fates]
      /\ \A q \in Messages : at'[q] = at[q] \/ (at[q] = "queued" /\ at'[q] = "cancelled")
  BY <1>2, <1>3, <1>5 DEF Fates
<1>. QED BY <1>3, <1>4, <1>6, <1>7, EditKeeps

LEMMA ReorderKeeps ==
  ASSUME Whole, NEW ids \in Seq(Messages), ReorderQueue(ids) PROVE Kept
<1>1. at \in [Messages -> Fates] /\ Placed(queue, at)
  BY DEF Whole, MessageInv, Asked
<1>2. /\ queue' \in [DOMAIN queue -> ToSet(queue)]
      /\ \A i, j \in DOMAIN queue : i < j => Ahead(ids, queue'[i], queue'[j])
      /\ UNCHANGED at /\ QueueEdited
  BY DEF ReorderQueue
<1>3. DOMAIN queue \subseteq Int /\ DOMAIN ids \subseteq Nat \ {0}
  BY <1>1 DEF Placed
<1>4. \A a : ~Ahead(ids, a, a)
  <2>1. ASSUME NEW a PROVE ~Ahead(ids, a, a)
    BY <1>1, <1>3, AheadIsStrict DEF Placed
  <2>. QED BY <2>1
<1>5. \A i, j \in DOMAIN queue : queue'[i] = queue'[j] => i = j
  <2>1. ASSUME NEW i \in DOMAIN queue, NEW j \in DOMAIN queue, queue'[i] = queue'[j], i # j
        PROVE  FALSE
    <3>1. i < j \/ j < i
      BY <1>3, <2>1
    <3>2. Ahead(ids, queue'[i], queue'[j]) \/ Ahead(ids, queue'[j], queue'[i])
      BY <1>2, <3>1
    <3>. QED BY <1>4, <2>1, <3>2
  <2>. QED BY <2>1
<1>6. Placed(queue', at')
  BY <1>1, <1>2, <1>5, PlacedAgain
<1>7. queue # <<>>
  BY DEF ReorderQueue, Contains
<1>. QED BY <1>1, <1>2, <1>6, <1>7, EditKeeps

(* Nothing is queued any more. *)
LEMMA PlacedNone ==
  ASSUME at \in [Messages -> Fates], NEW fate \in {"cancelled", "dropped"}
  PROVE  Placed(<<>>, Dropped(fate)) /\ Dropped(fate) \in [Messages -> Fates]
<1>1. <<>> \in Seq(Messages) /\ Len(<<>>) = 0 /\ DOMAIN <<>> = {}
  OBVIOUS
<1>2. \A m \in Messages : Dropped(fate)[m] # "queued"
  BY DEF Dropped
<1>3. Dropped(fate) \in [Messages -> Fates]
  BY DEF Dropped, Fates
<1>4. 0 <= MaxQueued
  BY QueueAssumption
<1>. QED BY <1>1, <1>2, <1>3, <1>4 DEF Placed

LEMMA CancelTurnKeeps == ASSUME Whole, CancelTurn PROVE Kept
<1>1. at \in [Messages -> Fates]
  BY DEF Whole, MessageInv, Asked
<1>2. queue' = <<>> /\ at' = Dropped("cancelled") /\ QueueEdited
  BY DEF CancelTurn
<1>3. Placed(queue', at') /\ at' \in [Messages -> Fates]
  BY <1>1, <1>2, PlacedNone
<1>4. \A q \in Messages : at'[q] = at[q] \/ (at[q] = "queued" /\ at'[q] = "cancelled")
  BY <1>2 DEF Dropped
<1>. QED BY <1>2, <1>3, <1>4, EditKeeps

LEMMA UserKeeps == ASSUME Whole, UserSteps PROVE Kept
<1>1. ASSUME NEW m \in Messages, SendUserMessage(m) PROVE Kept
  BY <1>1, SendReleasingKeeps, SendQueueingKeeps, SendSteeringKeeps, SendNowKeeps DEF SendUserMessage
<1>2. ASSUME NEW m \in Messages, CancelQueued(m) PROVE Kept
  BY <1>2, CancelQueuedKeeps
<1>3. ASSUME NEW m \in Messages, PromoteQueued(m) PROVE Kept
  <2>1. <<m>> \in Seq(Messages)
    OBVIOUS
  <2>. QED BY <1>3, <2>1, ReorderKeeps DEF PromoteQueued
<1>4. ASSUME NEW ids \in ReorderHints, ReorderQueue(ids) PROVE Kept
  <2>1. PICK a \in Messages, b \in Messages : ids = <<a, b>>
    BY DEF ReorderHints
  <2>2. <<a, b>> \in Seq(Messages)
    OBVIOUS
  <2>3. ids \in Seq(Messages)
    BY <2>1, <2>2
  <2>. QED BY <1>4, <2>3, ReorderKeeps
<1>5. CASE CancelTurn
  BY <1>5, CancelTurnKeeps
<1>. QED BY <1>1, <1>2, <1>3, <1>4, <1>5 DEF UserSteps

-----------------------------------------------------------------------------
(* The tracker's and ACP's steps *)

(* Something opens: no message moves, and no prompt is added. *)
LEMMA OpensKeeps ==
  ASSUME Whole, UNCHANGED <<queue, at, flushing, codex, exited>>,
         turns' \subseteq TurnKeys, turns' \cap Messages = turns \cap Messages,
         Agent = "codex" => turns' = turns /\ ~agentRunning',
         compactPending' => turns' \cap Compactions # {},
         status' \in BUSY_STATUSES /\ ~exited => turns' # {} \/ approvals' > 0 \/ agentRunning',
         status' = "idle" => status = "idle"
  PROVE  Kept
<1>1. MessageInv' 
  BY QuietMessages DEF Whole, codex
<1>2. TurnInv'
  BY DEF Whole, TurnInv, codex
<1>3. CloserInv' /\ RestInv'
  BY DEF CloserInv, Busy, RestInv, IdleHoldsNoQueue, Whole
<1>. QED BY <1>1, <1>2, <1>3 DEF Kept

(* With ACP, what keeps the session busy is its own. *)
LEMMA AcpCloses ==
  ASSUME Whole, Agent = "acp", Busy, ~exited
  PROVE  turns # {} \/ approvals > 0 \/ agentRunning
BY DEF Whole, CloserInv, MessageInv, Asked

LEMMA OpenGateKeeps == ASSUME Whole, OpenGate PROVE Kept
<1>1. /\ approvals' = approvals + 1 /\ status' = IF approvals = 0 THEN "awaiting" ELSE status
      /\ UNCHANGED <<queue, at, flushing, codex, exited, turns, agentRunning, compactPending>>
  BY DEF OpenGate
<1>2. approvals' > 0
  BY <1>1 DEF Whole, Inv
<1>. QED BY <1>1, <1>2, OpensKeeps DEF Whole, TurnInv, Inv, IdleMeansSettled

LEMMA CloseGateKeeps == ASSUME Whole, CloseGate PROVE Kept
<1>1. /\ approvals > 0 /\ approvals' = approvals - 1 /\ approvals' \in Nat
      /\ UNCHANGED <<agentRunning, exited, taken>>
      /\ Inv /\ MessageInv /\ TurnInv /\ RestInv
  BY DEF CloseGate, Whole, Inv
<1>2. Leaves(turns) /\ (compactPending => turns \cap Compactions # {})
  BY <1>1, LeavesSame DEF TurnInv
<1>3. CASE approvals > 1 \/ exited
  <2>1. Unsent(turns, status) /\ UNCHANGED compactPending
    BY <1>3 DEF CloseGate
  <2>2. /\ ~exited => approvals' > 0
        /\ Agent = "acp" /\ ~AttachmentsFail /\ status = "idle" => queue = <<>>
    BY <1>1, <1>3 DEF RestInv, IdleHoldsNoQueue, Inv
  <2>. QED BY <1>1, <1>2, <2>1, <2>2, UnsentKeeps
<1>4. CASE ~(approvals > 1 \/ exited) /\ (turns # {} \/ agentRunning)
  <2>1. Unsent(turns, "running") /\ UNCHANGED compactPending
    BY <1>4 DEF CloseGate
  <2>2. turns # {} \/ agentRunning'
    BY <1>1, <1>4
  <2>. QED BY <1>1, <1>2, <2>1, <2>2, UnsentKeeps
<1>5. CASE ~(approvals > 1 \/ exited) /\ ~(turns # {} \/ agentRunning)
  <2>1. approvals' = 0 /\ SettleIdle(turns, 0, agentRunning)
    BY <1>1, <1>5 DEF CloseGate, Inv
  <2>. QED BY <1>1, <1>2, <2>1, SettleKeeps
<1>. QED BY <1>3, <1>4, <1>5

LEMMA StrayKeeps == ASSUME Whole, StrayChunk PROVE Kept
<1>1. /\ Agent = "acp" /\ turns = {} /\ turns' = {Work} /\ status' = "running"
      /\ UNCHANGED <<queue, at, flushing, codex, exited, approvals, agentRunning, compactPending>>
  BY DEF StrayChunk
<1>2. ~compactPending /\ Work \notin Messages /\ {Work} \subseteq TurnKeys
  BY <1>1, MessagesAssumption DEF Whole, TurnInv, TurnKeys
<1>3. /\ turns' \subseteq TurnKeys /\ turns' \cap Messages = turns \cap Messages /\ turns' # {}
      /\ ~compactPending' /\ status' # "idle"
  BY <1>1, <1>2
<1>. QED BY <1>1, <1>3, OpensKeeps

LEMMA RunningKeeps == ASSUME Whole, NoteAgentRunning PROVE Kept
<1>1. /\ Agent = "acp" /\ agentRunning' /\ status' = IF turns = {} THEN "running" ELSE status
      /\ UNCHANGED <<queue, at, flushing, codex, exited, turns, compactPending>>
  BY DEF NoteAgentRunning
<1>2. /\ turns' \subseteq TurnKeys /\ turns' \cap Messages = turns \cap Messages
      /\ compactPending' => turns' \cap Compactions # {}
      /\ status' = "idle" => status = "idle"
  BY <1>1 DEF Whole, TurnInv
<1>. QED BY <1>1, <1>2, OpensKeeps

LEMMA SettledKeeps ==
  ASSUME Whole, NEW k \in TurnKeys, k \notin Compactions, NEW gates, gates = approvals,
         NEW running, agentRunning' = running, Agent = "acp",
         SettleIdle(turns \ {k}, gates, running), UNCHANGED <<approvals, exited, taken>>
  PROVE  Kept
<1>1. Inv /\ MessageInv /\ TurnInv /\ RestInv /\ gates \in Nat /\ approvals' = gates
  BY DEF Whole, Inv
<1>2. /\ Leaves(turns \ {k})
      /\ compactPending => (turns \ {k}) \cap Compactions # {}
  BY <1>1 DEF Leaves, TurnInv
<1>. QED BY <1>1, <1>2, SettleKeeps

LEMMA NoteSettledKeeps == ASSUME Whole, NoteAgentSettled PROVE Kept
<1>1. /\ Agent = "acp" /\ agentRunning' = FALSE /\ SettleIdle(turns \ {Work}, approvals, FALSE)
      /\ UNCHANGED <<approvals, exited, taken>>
  BY DEF NoteAgentSettled
<1>2. Work \in TurnKeys /\ Work \notin Compactions
  BY DEF TurnKeys, Work, Compactions
<1>. QED BY <1>1, <1>2, SettledKeeps

LEMMA PromptKeeps == ASSUME Whole, NEW m \in Messages, PromptSettled(m) PROVE Kept
<1>1. /\ Agent = "acp" /\ SettleIdle(turns \ {m}, approvals, agentRunning)
      /\ UNCHANGED <<approvals, exited, taken, agentRunning>>
  BY DEF PromptSettled
<1>2. m \in TurnKeys /\ m \notin Compactions
  BY MessageIsNoCompaction DEF TurnKeys
<1>. QED BY <1>1, <1>2, SettledKeeps

LEMMA UsageKeeps == ASSUME Whole, NEW reading, ReportUsage(reading) PROVE Kept
<1>1. /\ Agent = "acp" /\ UNCHANGED <<queue, at, flushing, approvals, agentRunning, exited, codex>>
  BY DEF ReportUsage
<1>2. CASE status = "idle" /\ AutoCompactDue(reading)
  <2>1. StartAutoCompact(turns) /\ turns = {}
    BY <1>2 DEF ReportUsage, Whole, Inv, IdleMeansSettled
  <2>2. MessageInv' /\ MessageInv /\ TurnInv
    BY <1>1, QuietMessages DEF Whole, codex
  <2>3. turns \subseteq TurnKeys /\ turns \cap Messages = {} /\ UNCHANGED agentTurn
    BY <1>1, <2>1 DEF codex
  <2>. QED BY <1>1, <2>1, <2>2, <2>3, StartsCompaction DEF Kept
<1>3. CASE ~(status = "idle" /\ AutoCompactDue(reading))
  <2>1. UNCHANGED <<turns, status, compactPending>>
    BY <1>3 DEF ReportUsage
  <2>2. /\ TurnInv
        /\ status' \in BUSY_STATUSES /\ ~exited => turns' # {} \/ approvals' > 0 \/ agentRunning'
    BY <1>1, <2>1, AcpCloses DEF Whole, Busy
  <2>. QED BY <1>1, <2>1, <2>2, OpensKeeps, AgentAssumption DEF TurnInv
<1>. QED BY <1>2, <1>3

LEMMA ManualKeeps == ASSUME Whole, ManualCompact PROVE Kept
<1>1. /\ Agent = "acp" /\ turns' = turns \cup {"manual"} /\ status' = "running"
      /\ UNCHANGED <<queue, at, flushing, codex, exited>>
  BY DEF ManualCompact
<1>2. "manual" \in Compactions /\ "manual" \in TurnKeys /\ "manual" \notin Messages
  BY MessageIsNoCompaction DEF Compactions, TurnKeys
<1>3. /\ turns' \subseteq TurnKeys /\ turns' \cap Messages = turns \cap Messages /\ turns' # {}
      /\ turns' \cap Compactions # {} /\ status' # "idle"
  BY <1>1, <1>2 DEF Whole, TurnInv
<1>. QED BY <1>1, <1>3, OpensKeeps

LEMMA RefusedKeeps == ASSUME Whole, CompactRefused PROVE Kept
<1>1. /\ Inv /\ MessageInv /\ TurnInv /\ Agent = "acp" /\ CompactReleased(turns, status)
      /\ UNCHANGED <<approvals, agentRunning, exited, taken>> /\ status \in Statuses
  BY DEF CompactRefused, Whole, Inv
<1>2. Leaves(turns)
  BY <1>1, LeavesSame, AgentAssumption
<1>3. status \notin BUSY_STATUSES => turns = {} \/ exited
  BY <1>1 DEF Inv, IdleMeansSettled, Statuses, BUSY_STATUSES
<1>4. status \in BUSY_STATUSES /\ ~exited => turns # {} \/ approvals' > 0 \/ agentRunning'
  BY <1>1, AcpCloses DEF Busy
<1>. QED BY <1>1, <1>2, <1>3, <1>4, ReleasedKeeps

LEMMA CompactSettledKeeps ==
  ASSUME Whole, NEW k \in Compactions, NEW ok \in BOOLEAN, CompactSettled(k, ok)
  PROVE  Kept
<1>. DEFINE left == turns \ {k}
<1>1. /\ Inv /\ MessageInv /\ TurnInv /\ k \in turns /\ status \in Statuses /\ status # "idle"
      /\ UNCHANGED <<approvals, agentRunning, exited, taken>> /\ Agent = "acp"
  BY AgentAssumption DEF CompactSettled, Whole, Inv, IdleMeansSettled
<1>2. Leaves(left)
  BY <1>1 DEF Leaves
<1>3. CASE ~Settled(left, approvals, agentRunning)
  <2>1. CompactReleased(left, status)
    BY <1>3 DEF CompactSettled
  <2>2. ~exited => left # {} \/ approvals' > 0 \/ agentRunning'
    BY <1>1, <1>3 DEF Settled, Inv
  <2>3. status \notin BUSY_STATUSES => exited
    BY <1>1 DEF Inv, Statuses, BUSY_STATUSES
  <2>. HIDE DEF left
  <2>. QED BY <1>1, <1>2, <2>1, <2>2, <2>3, ReleasedKeeps
<1>4. CASE Settled(left, approvals, agentRunning) /\ AutoCompactDue(fraction)
  <2>1. /\ turns' = left \cup {FreshAuto} /\ status' = "running" /\ ~compactPending'
        /\ UNCHANGED <<queue, at, flushing, starting, agentTurn>>
    BY <1>4 DEF CompactSettled
  <2>2. FreshAuto \in TurnKeys /\ FreshAuto \notin Messages /\ k \notin Messages
    BY MessageIsNoCompaction DEF FreshAuto, Compactions, TurnKeys
  <2>3. /\ turns' \subseteq TurnKeys /\ turns' \cap Messages = turns \cap Messages /\ turns' # {}
        /\ UNCHANGED codex
    BY <1>1, <2>1, <2>2 DEF TurnInv, codex
  <2>. QED BY <1>1, <2>1, <2>3, OpensKeeps
<1>5. CASE Settled(left, approvals, agentRunning) /\ ~AutoCompactDue(fraction)
  <2>1. CompactReleased(left, "idle")
    BY <1>5 DEF CompactSettled
  <2>2. left = {} /\ "idle" \in Statuses /\ "idle" \notin BUSY_STATUSES
    BY <1>5 DEF Settled, Statuses, BUSY_STATUSES
  <2>. HIDE DEF left
  <2>. QED BY <1>1, <1>2, <2>1, <2>2, ReleasedKeeps
<1>. QED BY <1>3, <1>4, <1>5

(* The process is gone, and with it what was queued. *)
LEMMA GoneKeeps ==
  ASSUME Whole, exited', status' = "exited", queue' = <<>>, at' = Dropped("dropped"),
         turns' \subseteq turns, Agent = "codex" => turns' = turns,
         compactPending' => compactPending /\ turns' = turns,
         UNCHANGED <<flushing, agentRunning, starting, agentTurn, taken>>
  PROVE  Kept
<1>1. MessageInv /\ TurnInv /\ at \in [Messages -> Fates]
  BY DEF Whole, MessageInv, Asked
<1>2. Placed(queue', at') /\ at' \in [Messages -> Fates]
  BY <1>1, PlacedNone
<1>3. \A m \in Messages : at'[m] = at[m] \/ (at[m] = "queued" /\ at'[m] = "dropped")
  BY DEF Dropped
<1>4. Asked(at', starting', agentTurn', taken')
  BY <1>1, <1>2, <1>3 DEF MessageInv, Asked
<1>5. MessageInv'
  BY <1>1, <1>2, <1>4 DEF MessageInv
<1>6. TurnInv'
  BY <1>1 DEF TurnInv
<1>7. CloserInv' /\ RestInv'
  BY DEF CloserInv, RestInv, IdleHoldsNoQueue
<1>. QED BY <1>5, <1>6, <1>7 DEF Kept

LEMMA ExitKeeps == ASSUME Whole, Exit PROVE Kept
<1>1. /\ exited' /\ status' = "exited" /\ queue' = <<>> /\ at' = Dropped("dropped")
      /\ UNCHANGED <<flushing, compactPending, turns, agentRunning, starting, agentTurn, taken>>
  BY DEF Exit, codex
<1>. QED BY <1>1, GoneKeeps

LEMMA WedgedKeeps == ASSUME Whole, NEW k \in Compactions, CompactWedged(k) PROVE Kept
<1>1. /\ exited' /\ status' = "exited" /\ queue' = <<>> /\ at' = Dropped("dropped")
      /\ turns' = turns \ {k} /\ compactPending' = FALSE /\ k \in turns
      /\ UNCHANGED <<flushing, agentRunning, starting, agentTurn, taken>>
  BY DEF CompactWedged, codex
<1>2. Agent = "acp"
  BY <1>1, AgentAssumption DEF Whole, Inv
<1>. QED BY <1>1, <1>2, GoneKeeps

LEMMA AcpKeeps == ASSUME Whole, AcpSteps PROVE Kept
<1>1. CASE MoreStrayWork
  <2>1. UNCHANGED <<status, queue, at, flushing, turns, approvals, agentRunning, exited, compactPending,
                    starting, agentTurn, taken>>
    BY <1>1 DEF MoreStrayWork, session, codex
  <2>2. MessageInv' /\ TurnInv /\ CloserInv /\ RestInv
    BY <2>1, QuietMessages DEF Whole
  <2>. QED BY <2>1, <2>2, QuietTurns DEF RestInv, IdleHoldsNoQueue
<1>2. ASSUME NEW m \in Messages, PromptSettled(m) PROVE Kept
  BY <1>2, PromptKeeps
<1>3. ASSUME NEW reading, ReportUsage(reading) PROVE Kept
  BY <1>3, UsageKeeps
<1>4. ASSUME NEW k \in Compactions, NEW ok \in BOOLEAN, CompactSettled(k, ok) PROVE Kept
  BY <1>4, CompactSettledKeeps
<1>5. ASSUME NEW k \in Compactions, CompactWedged(k) PROVE Kept
  BY <1>5, WedgedKeeps
<1>. QED BY <1>1, <1>2, <1>3, <1>4, <1>5, StrayKeeps, RunningKeeps, NoteSettledKeeps,
            ManualKeeps, RefusedKeeps DEF AcpSteps

-----------------------------------------------------------------------------
(* codex's steps *)

(* The agent, or a steer, changes what is known of m alone. *)
LEMMA SteeredKeeps ==
  ASSUME Whole, NEW m \in Messages, at[m] = "steering", at' = [at EXCEPT ![m] = "steered"],
         NEW n \in {0, 1}, taken' = [taken EXCEPT ![m] = @ + n],
         UNCHANGED <<session, tracker, starting, agentTurn>>
  PROVE  Kept
<1>1. /\ MessageInv /\ TurnInv /\ CloserInv /\ RestInv /\ at \in [Messages -> Fates] /\ Placed(queue, at)
      /\ UNCHANGED <<status, queue, flushing, compactPending, turns, approvals, agentRunning, exited,
                     starting, agentTurn>>
  BY DEF Whole, MessageInv, Asked, session, tracker
<1>2. Placed(queue', at')
  BY <1>1, PlacedElsewhere
<1>3. Asked(at', starting', agentTurn', taken')
  <2>1. taken[m] = 0 /\ agentTurn[m] = "no" /\ taken \in [Messages -> Nat]
    BY <1>1 DEF MessageInv, Asked
  <2>2. taken' \in [Messages -> Nat] /\ taken'[m] = n /\ \A q \in Messages \ {m} : taken'[q] = taken[q]
    BY <2>1
  <2>3. at' \in [Messages -> Fates] /\ at'[m] = "steered" /\ \A q \in Messages \ {m} : at'[q] = at[q]
    BY <1>1 DEF Fates
  <2>. QED BY <1>1, <2>1, <2>2, <2>3 DEF MessageInv, Asked
<1>4. MessageInv'
  BY <1>1, <1>2, <1>3 DEF MessageInv
<1>. QED BY <1>1, <1>4, QuietTurns DEF RestInv, IdleHoldsNoQueue

LEMMA SteerRejectedKeeps == ASSUME Whole, NEW m \in Messages, SteerRejected(m) PROVE Kept
<1>1. /\ MessageInv /\ TurnInv /\ CloserInv /\ at[m] = "steering" /\ Agent = "codex"
      /\ UNCHANGED <<compactPending, approvals, agentRunning, exited, taken>>
  BY AgentAssumption DEF SteerRejected, Whole, MessageInv, Asked
<1>2. CASE MustWait \/ Busy
  <2>1. Enqueue(m) /\ UNCHANGED <<status, flushing, turns, starting, agentTurn>>
    BY <1>2 DEF SteerRejected
  <2>2. MessageInv'
    BY <1>1, <2>1, EnqueueMessages
  <2>. QED BY <1>1, <2>1, <2>2, QuietTurns
<1>3. CASE ~(MustWait \/ Busy)
  <2>1. /\ \E outcome \in Prepared :
             Send(outcome, m, turns, status, flushing) /\ at' = [at EXCEPT ![m] = outcome]
        /\ UNCHANGED queue
    BY <1>3 DEF SteerRejected
  <2>. QED BY <1>1, <1>3, <2>1, GoesOut
<1>. QED BY <1>2, <1>3

(* The agent answers m, or ends its turn: the session has not heard yet. *)
LEMMA AgentKeeps ==
  ASSUME Whole, NEW m \in Messages, NEW turn, agentTurn' = [agentTurn EXCEPT ![m] = turn],
         NEW n \in {0, 1}, taken' = [taken EXCEPT ![m] = @ + n],
         UNCHANGED <<session, tracker, starting, at>>,
         \/ agentTurn[m] = "asked" /\ turn = "refused" /\ n = 0
         \/ agentTurn[m] = "asked" /\ turn = "owed" /\ ~AgentBusy
         \/ agentTurn[m] = "asked" /\ turn = "over" /\ AgentBusy
         \/ agentTurn[m] = "on" /\ turn = "over" /\ n = 0
  PROVE  Kept
<1>1. /\ MessageInv /\ TurnInv /\ CloserInv /\ RestInv
      /\ UNCHANGED <<status, queue, flushing, compactPending, turns, approvals, agentRunning, exited,
                     starting, at>>
  BY DEF Whole, session, tracker
<1>2. /\ agentTurn \in [Messages -> {"no", "asked", "owed", "on", "over", "refused"}]
      /\ taken \in [Messages -> Nat] /\ agentTurn[m] \in {"asked", "on"}
      /\ Agent = "codex"
  BY <1>1, AgentAssumption DEF MessageInv, Asked
<1>3. /\ agentTurn' \in [Messages -> {"no", "asked", "owed", "on", "over", "refused"}]
      /\ agentTurn'[m] = turn /\ \A q \in Messages \ {m} : agentTurn'[q] = agentTurn[q]
      /\ taken' \in [Messages -> Nat] /\ taken'[m] = taken[m] + n
      /\ \A q \in Messages \ {m} : taken'[q] = taken[q]
  BY <1>2
<1>4. Asked(at', starting', agentTurn', taken')
  <2>1. /\ agentTurn[m] = "asked" => taken[m] = 0
        /\ taken[m] <= 1 /\ at[m] \notin {"new", "queued", "steering", "steered"}
    BY <1>1, <1>2 DEF MessageInv, Asked
  <2>2. turn = "owed" => \A q \in Messages \ {m} : agentTurn'[q] \notin {"owed", "on"}
    BY <1>2, <1>3 DEF AgentBusy
  <2>. QED BY <1>1, <1>2, <1>3, <2>1, <2>2 DEF MessageInv, Asked
<1>5. MessageInv'
  BY <1>1, <1>4 DEF MessageInv, Placed
<1>6. TurnInv'
  BY <1>1, <1>2, <1>3 DEF TurnInv
<1>7. CloserInv'
  <2>1. SUFFICES ASSUME Busy, ~exited, turns = {}, ~(approvals > 0), ~agentRunning
                 PROVE  \/ \E q \in Messages : agentTurn'[q] = "owed"
                        \/ \E q \in starting : agentTurn'[q] \in {"asked", "refused"}
    BY <1>1 DEF CloserInv, Busy
  <2>2. agentTurn[m] = "asked" /\ \A q \in Messages : agentTurn[q] # "on"
    BY <1>1, <1>2, <2>1 DEF TurnInv
  <2>3. \/ \E q \in Messages : agentTurn[q] = "owed"
        \/ \E q \in starting : agentTurn[q] \in {"asked", "refused"}
    BY <1>1, <2>1 DEF CloserInv
  <2>4. CASE \E q \in Messages : agentTurn[q] = "owed"
    BY <1>3, <2>2, <2>4
  <2>5. CASE ~AgentBusy /\ \E q \in starting : agentTurn[q] \in {"asked", "refused"}
    <3>1. turn \in {"refused", "owed"}
      BY <2>2, <2>5
    <3>2. starting \subseteq Messages
      BY <1>1 DEF MessageInv, Asked
    <3>. QED BY <1>3, <2>5, <3>1, <3>2
  <2>. QED BY <2>2, <2>3, <2>4, <2>5 DEF AgentBusy
<1>8. RestInv'
  BY <1>2 DEF RestInv
<1>. QED BY <1>5, <1>6, <1>7, <1>8 DEF Kept

LEMMA AgentSteps ==
  ASSUME Whole, NEW m \in Messages, AgentTakes(m) \/ AgentRefuses(m) \/ AgentCompletes(m)
  PROVE  Kept
<1>1. UNCHANGED <<session, tracker, starting, at>>
  BY DEF AgentTakes, AgentRefuses, AgentCompletes
<1>2. CASE AgentTakes(m)
  <2>1. agentTurn[m] = "asked" /\ taken' = [taken EXCEPT ![m] = @ + 1]
    BY <1>2 DEF AgentTakes
  <2>2. CASE AgentBusy
    <3>1. agentTurn' = [agentTurn EXCEPT ![m] = "over"]
      BY <1>2, <2>2 DEF AgentTakes
    <3>. QED BY <1>1, <2>1, <2>2, <3>1, AgentKeeps
  <2>3. CASE ~AgentBusy
    <3>1. agentTurn' = [agentTurn EXCEPT ![m] = "owed"]
      BY <1>2, <2>3 DEF AgentTakes
    <3>. QED BY <1>1, <2>1, <2>3, <3>1, AgentKeeps
  <2>. QED BY <2>2, <2>3
<1>3. taken \in [Messages -> Nat]
  BY DEF Whole, MessageInv, Asked
<1>4. CASE AgentRefuses(m) \/ AgentCompletes(m)
  <2>1. taken' = [taken EXCEPT ![m] = @ + 0]
    BY <1>3, <1>4 DEF AgentRefuses, AgentCompletes
  <2>2. CASE AgentRefuses(m)
    BY <1>1, <2>1, <2>2, AgentKeeps DEF AgentRefuses
  <2>3. CASE AgentCompletes(m)
    BY <1>1, <2>1, <2>3, AgentKeeps DEF AgentCompletes
  <2>. QED BY <1>4, <2>2, <2>3
<1>. QED BY <1>2, <1>4

LEMMA RepliedKeeps == ASSUME Whole, NEW m \in Messages, StartReplied(m) PROVE Kept
<1>1. /\ MessageInv /\ TurnInv /\ CloserInv /\ RestInv /\ agentTurn[m] \in {"owed", "on", "over"}
      /\ starting' = starting \ {m} /\ flushing' \in {NoMessage, flushing}
      /\ UNCHANGED <<status, queue, compactPending, turns, approvals, agentRunning, exited,
                     agentTurn, taken, at>>
  BY DEF StartReplied, Whole, tracker
<1>2. MessageInv'
  BY <1>1 DEF MessageInv, Placed, Asked
<1>3. TurnInv'
  BY <1>1 DEF TurnInv
<1>4. CloserInv'
  BY <1>1 DEF CloserInv, Busy
<1>5. RestInv'
  BY <1>1 DEF RestInv, IdleHoldsNoQueue
<1>. QED BY <1>2, <1>3, <1>4, <1>5 DEF Kept

LEMMA FailedKeeps == ASSUME Whole, NEW m \in Messages, StartFailed(m) PROVE Kept
<1>. DEFINE idle == Settled(turns, approvals, agentRunning)
            h == Head(queue)
<1>1. /\ Inv /\ MessageInv /\ TurnInv /\ CloserInv /\ m \in starting
      /\ UNCHANGED <<compactPending, turns, approvals, agentRunning, exited, taken>>
  BY DEF StartFailed, Whole, tracker
<1>2. /\ agentTurn[m] # "no" /\ at[m] \notin {"new", "queued", "steering", "steered"}
      /\ Agent = "codex" /\ at \in [Messages -> Fates] /\ Placed(queue, at)
  BY <1>1, AgentAssumption DEF MessageInv, Asked
<1>3. RestInv'
  BY <1>2 DEF RestInv
<1>4. CASE idle /\ queue # <<>> /\ flushing = NoMessage
  <2>1. PICK outcome \in Prepared :
          /\ queue' = Tail(queue)
          /\ at' = [at EXCEPT ![m] = "failed", ![h] = outcome]
          /\ IF outcome = "failed"
             THEN /\ status' = "idle" /\ starting' = starting \ {m}
                  /\ UNCHANGED <<agentTurn, flushing>>
             ELSE /\ status' = "running" /\ flushing' = h
                  /\ starting' = (starting \ {m}) \cup {h}
                  /\ agentTurn' = [agentTurn EXCEPT ![h] = "asked"]
    BY <1>4 DEF StartFailed
  <2>2. outcome \in {"sent", "failed"}
    BY DEF Prepared
  <2>3. Placed(queue, [at EXCEPT ![m] = "failed"]) /\ [at EXCEPT ![m] = "failed"] \in [Messages -> Fates]
    <3>1. [at EXCEPT ![m] = "failed"] \in [Messages -> Fates]
      BY <1>2 DEF Fates
    <3>. QED BY <1>2, <3>1, PlacedElsewhere
  <2>4. /\ Placed(queue', at') /\ h \in Messages /\ [at EXCEPT ![m] = "failed"][h] = "queued"
    <3>. DEFINE w == [at EXCEPT ![m] = "failed"]
    <3>1. at' = [w EXCEPT ![h] = outcome]
      BY <2>1
    <3>2. Placed(queue, w) /\ w \in [Messages -> Fates] /\ outcome # "queued"
      BY <2>2, <2>3
    <3>. DEFINE o == outcome
    <3>5. queue # <<>> /\ o # "queued"
      BY <1>4, <2>2
    <3>. HIDE DEF w, o
    <3>3. /\ Placed(Tail(queue), [w EXCEPT ![Head(queue)] = o])
          /\ Head(queue) \in Messages /\ w[Head(queue)] = "queued"
      BY <3>2, <3>5, PlacedTail
    <3>. QED BY <2>1, <3>1, <3>3 DEF w, o
  <2>. HIDE DEF h
  <2>5. h # m /\ at[h] = "queued"
    BY <1>2, <2>4
  <2>6. agentTurn[h] = "no" /\ taken[h] = 0 /\ h \notin starting /\ h \notin turns
    BY <1>1, <1>2, <2>4, <2>5 DEF MessageInv, Asked, TurnInv
  <2>7. /\ at' \in [Messages -> Fates] /\ at'[m] = "failed" /\ at'[h] = outcome
        /\ \A q \in Messages \ {m, h} : at'[q] = at[q]
    BY <1>2, <2>1, <2>2, <2>4, <2>5 DEF Fates
  <2>8. CASE outcome = "failed"
    <3>1. status' = "idle" /\ starting' = starting \ {m} /\ UNCHANGED <<agentTurn, flushing>>
      BY <2>1, <2>8
    <3>2. Asked(at', starting', agentTurn', taken')
      BY <1>1, <1>2, <2>6, <2>7, <2>8, <3>1 DEF MessageInv, Asked
    <3>3. MessageInv'
      BY <1>1, <1>2, <2>4, <3>1, <3>2 DEF MessageInv
    <3>4. TurnInv'
      BY <1>1, <3>1 DEF TurnInv
    <3>5. CloserInv'
      BY <3>1 DEF CloserInv, Busy, BUSY_STATUSES
    <3>. QED BY <1>3, <3>3, <3>4, <3>5 DEF Kept
  <2>9. CASE outcome = "sent"
    <3>1. /\ status' = "running" /\ flushing' = h /\ starting' = (starting \ {m}) \cup {h}
          /\ agentTurn' = [agentTurn EXCEPT ![h] = "asked"]
      BY <2>1, <2>9
    <3>2. /\ agentTurn' \in [Messages -> {"no", "asked", "owed", "on", "over", "refused"}]
          /\ agentTurn'[h] = "asked" /\ \A q \in Messages \ {h} : agentTurn'[q] = agentTurn[q]
      BY <1>1, <2>4, <3>1 DEF MessageInv, Asked
    <3>3. Asked(at', starting', agentTurn', taken')
      BY <1>1, <1>2, <2>4, <2>6, <2>7, <2>9, <3>1, <3>2 DEF MessageInv, Asked
    <3>4. MessageInv'
      BY <1>1, <1>2, <2>4, <3>1, <3>3 DEF MessageInv
    <3>5. TurnInv'
      BY <1>1, <2>6, <3>2 DEF TurnInv
    <3>6. CloserInv'
      BY <3>1, <3>2 DEF CloserInv
    <3>. QED BY <1>3, <3>4, <3>5, <3>6 DEF Kept
  <2>. QED BY <2>2, <2>8, <2>9
<1>5. CASE ~(idle /\ queue # <<>> /\ flushing = NoMessage)
  <2>1. /\ starting' = starting \ {m} /\ flushing' \in {NoMessage, flushing}
        /\ status' = IF idle THEN "idle" ELSE status
        /\ at' = [at EXCEPT ![m] = "failed"]
        /\ UNCHANGED <<queue, agentTurn>>
    BY <1>5 DEF StartFailed
  <2>2. Placed(queue', at')
    BY <1>2, <2>1, PlacedElsewhere
  <2>3. Asked(at', starting', agentTurn', taken')
    BY <1>1, <1>2, <2>1 DEF MessageInv, Asked, Fates
  <2>4. MessageInv'
    BY <1>1, <2>1, <2>2, <2>3 DEF MessageInv
  <2>5. TurnInv'
    BY <1>1, <2>1 DEF TurnInv
  <2>6. CloserInv'
    BY <1>1, <2>1 DEF CloserInv, Busy, BUSY_STATUSES, Settled, Inv
  <2>. QED BY <1>3, <2>4, <2>5, <2>6 DEF Kept
<1>. QED BY <1>4, <1>5

LEMMA StartedKeeps == ASSUME Whole, NEW m \in Messages, TurnStarted(m) PROVE Kept
<1>1. /\ MessageInv /\ TurnInv /\ agentTurn[m] = "owed" /\ \A n \in turns : agentTurn[n] = "on"
      /\ agentTurn' = [agentTurn EXCEPT ![m] = "on"]
      /\ turns' = turns \cup {m} /\ status' = "running"
      /\ UNCHANGED <<queue, flushing, compactPending, agentRunning, exited, starting, taken, at>>
  BY DEF TurnStarted, Whole
<1>2. Agent = "codex" /\ agentTurn \in [Messages -> {"no", "asked", "owed", "on", "over", "refused"}]
  BY <1>1, AgentAssumption DEF MessageInv, Asked
<1>3. /\ agentTurn' \in [Messages -> {"no", "asked", "owed", "on", "over", "refused"}]
      /\ agentTurn'[m] = "on" /\ \A q \in Messages \ {m} : agentTurn'[q] = agentTurn[q]
  BY <1>1, <1>2
<1>4. Asked(at', starting', agentTurn', taken')
  BY <1>1, <1>2, <1>3 DEF MessageInv, Asked
<1>5. MessageInv'
  BY <1>1, <1>4 DEF MessageInv, Placed
<1>6. turns = {}
  BY <1>1, <1>2 DEF TurnInv, MessageInv, Asked
<1>7. TurnInv'
  BY <1>1, <1>2, <1>3, <1>6, OneMore DEF TurnInv
<1>8. CloserInv' /\ RestInv'
  BY <1>1, <1>2 DEF CloserInv, RestInv
<1>. QED BY <1>5, <1>7, <1>8 DEF Kept

LEMMA CompletedKeeps == ASSUME Whole, NEW m \in Messages, TurnCompleted(m) PROVE Kept
<1>1. /\ Inv /\ MessageInv /\ TurnInv /\ RestInv /\ Agent = "codex" /\ agentTurn[m] = "over"
      /\ SettleIdle(turns \ {m}, approvals, agentRunning)
      /\ UNCHANGED <<approvals, agentRunning, exited, taken>>
      /\ approvals \in Nat
  BY DEF TurnCompleted, Whole, Inv
<1>2. /\ Leaves(turns \ {m})
      /\ compactPending => (turns \ {m}) \cap Compactions # {}
  BY <1>1, MessageIsNoCompaction DEF Leaves, TurnInv
<1>. QED BY <1>1, <1>2, SettleKeeps

LEMMA CodexKeeps == ASSUME Whole, CodexSteps PROVE Kept
<1>1. ASSUME NEW m \in Messages, SteerAccepted(m) \/ SteerTimedOut(m) PROVE Kept
  <2>1. /\ at[m] = "steering" /\ at' = [at EXCEPT ![m] = "steered"]
        /\ UNCHANGED <<session, tracker, starting, agentTurn>>
        /\ \E n \in {0, 1} : taken' = [taken EXCEPT ![m] = @ + n]
    BY <1>1 DEF SteerAccepted, SteerTimedOut
  <2>. QED BY <2>1, SteeredKeeps
<1>. QED BY <1>1, SteerRejectedKeeps, AgentSteps, RepliedKeeps, FailedKeeps, StartedKeeps, CompletedKeeps
         DEF CodexSteps

-----------------------------------------------------------------------------
(* The counters and flags, and the queue and the status together *)

LEMMA SettleFlags ==
  ASSUME FlagsInv, NEW T, NEW gates, NEW running, SettleIdle(T, gates, running)
  PROVE  compactPending' \in BOOLEAN /\ compactFired' \in BOOLEAN
BY DEF FlagsInv, SettleIdle, OnIdle, StartAutoCompact

LEMMA FlagsUser == ASSUME FlagsInv, UserSteps PROVE FlagsInv'
<1>1. ASSUME NEW m \in Messages, SendReleasing(m) PROVE FlagsInv'
  BY <1>1 DEF SendReleasing, StartAutoCompact, FlagsInv
<1>2. ASSUME NEW m \in Messages, SendQueueing(m) \/ SendSteering(m) \/ SendNow(m) PROVE FlagsInv'
  BY <1>2 DEF SendQueueing, SendSteering, SendNow, FlagsInv, session, tracker
<1>3. CASE QueueEdited
  BY <1>3 DEF QueueEdited, tracker, FlagsInv
<1>. QED BY <1>1, <1>2, <1>3 DEF UserSteps, SendUserMessage, CancelQueued, PromoteQueued, ReorderQueue, CancelTurn

LEMMA FlagsGate == ASSUME FlagsInv, GateSteps PROVE FlagsInv'
<1>1. CASE OpenGate
  BY <1>1, SignalsAssumption DEF OpenGate, Signal, FlagsInv
<1>2. CASE CloseGate
  <2>1. compactPending' \in BOOLEAN /\ compactFired' \in BOOLEAN
    BY <1>2, SettleFlags DEF CloseGate, FlagsInv
  <2>. QED BY <1>2, <2>1, SignalsAssumption DEF CloseGate, FlagsInv
<1>. QED BY <1>1, <1>2 DEF GateSteps

LEMMA SignalCounts == ASSUME FlagsInv, Signal PROVE signals' \in 0..MaxSignals
BY SignalsAssumption DEF FlagsInv, Signal

LEMMA FlagsAcp == ASSUME FlagsInv, AcpSteps PROVE FlagsInv'
<1>1. CASE StrayChunk \/ NoteAgentRunning \/ ManualCompact
  <2>1. signals' \in 0..MaxSignals
    BY <1>1, SignalCounts DEF StrayChunk, NoteAgentRunning, ManualCompact
  <2>. QED BY <1>1, <2>1 DEF StrayChunk, NoteAgentRunning, ManualCompact, FlagsInv
<1>2. CASE MoreStrayWork
  BY <1>2 DEF MoreStrayWork, session, FlagsInv
<1>3. CASE NoteAgentSettled
  <2>1. compactPending' \in BOOLEAN /\ compactFired' \in BOOLEAN
    BY <1>3, SettleFlags DEF NoteAgentSettled
  <2>2. strayQuiet' \in BOOLEAN /\ agentRunning' \in BOOLEAN
    BY <1>3 DEF NoteAgentSettled, FlagsInv
  <2>. QED BY <1>3, <2>1, <2>2 DEF NoteAgentSettled, FlagsInv
<1>4. ASSUME NEW m \in Messages, PromptSettled(m) PROVE FlagsInv'
  <2>1. compactPending' \in BOOLEAN /\ compactFired' \in BOOLEAN
    BY <1>4, SettleFlags DEF PromptSettled
  <2>. QED BY <1>4, <2>1 DEF PromptSettled, FlagsInv
<1>5. ASSUME NEW reading \in {"low", "mid", "high"}, ReportUsage(reading) PROVE FlagsInv'
  <2>1. signals' \in 0..MaxSignals
    BY <1>5, SignalCounts DEF ReportUsage, FlagsInv
  <2>2. compactPending' \in BOOLEAN /\ compactFired' \in BOOLEAN
    BY <1>5 DEF ReportUsage, StartAutoCompact, FlagsInv
  <2>. QED BY <1>5, <2>1, <2>2 DEF ReportUsage, FlagsInv
<1>6. CASE CompactRefused
  <2>1. signals' \in 0..MaxSignals
    BY <1>6, SignalCounts DEF CompactRefused
  <2>. QED BY <1>6, <2>1 DEF CompactRefused, CompactReleased, FlagsInv
<1>7. ASSUME NEW k \in Compactions, NEW ok \in BOOLEAN, CompactSettled(k, ok) PROVE FlagsInv'
  <2>1. compactPending' \in BOOLEAN /\ compactFired' \in BOOLEAN
    BY <1>7 DEF CompactSettled, CompactReleased, FlagsInv
  <2>. QED BY <1>7, <2>1 DEF CompactSettled, FlagsInv
<1>8. ASSUME NEW k \in Compactions, CompactWedged(k) PROVE FlagsInv'
  BY <1>8 DEF CompactWedged, FlagsInv
<1>. QED BY <1>1, <1>2, <1>3, <1>4, <1>5, <1>6, <1>7, <1>8 DEF AcpSteps

LEMMA FlagsCodex == ASSUME FlagsInv, CodexSteps PROVE FlagsInv'
<1>1. ASSUME NEW m \in Messages, SteerAccepted(m) \/ SteerTimedOut(m) \/ SteerRejected(m)
      PROVE  FlagsInv'
  BY <1>1 DEF SteerAccepted, SteerTimedOut, SteerRejected, session, tracker, FlagsInv
<1>2. ASSUME NEW m \in Messages, AgentTakes(m) \/ AgentRefuses(m) \/ AgentCompletes(m)
      PROVE  FlagsInv'
  BY <1>2 DEF AgentTakes, AgentRefuses, AgentCompletes, session, tracker, FlagsInv
<1>3. ASSUME NEW m \in Messages, StartReplied(m) \/ StartFailed(m) \/ TurnStarted(m)
      PROVE  FlagsInv'
  BY <1>3 DEF StartReplied, StartFailed, TurnStarted, tracker, FlagsInv
<1>4. ASSUME NEW m \in Messages, TurnCompleted(m) PROVE FlagsInv'
  <2>1. compactPending' \in BOOLEAN /\ compactFired' \in BOOLEAN
    BY <1>4, SettleFlags DEF TurnCompleted
  <2>. QED BY <1>4, <2>1 DEF TurnCompleted, FlagsInv
<1>. QED BY <1>1, <1>2, <1>3, <1>4 DEF CodexSteps

LEMMA FlagsStep == ASSUME FlagsInv, [Next]_vars PROVE FlagsInv'
<1>1. CASE Exit
  BY <1>1 DEF Exit, FlagsInv
<1>2. CASE UNCHANGED vars
  BY <1>2 DEF vars, session, tracker, FlagsInv
<1>. QED BY <1>1, <1>2, FlagsUser, FlagsGate, FlagsAcp, FlagsCodex DEF Next

LEMMA WholeInit == Init => Whole
<1>1. SUFFICES ASSUME Init PROVE Whole
  OBVIOUS
<1>2. Inv
  BY <1>1, InitInv
<1>3. <<>> \in Seq(Messages) /\ Len(<<>>) = 0 /\ DOMAIN <<>> = {} /\ 0 <= MaxQueued
  BY QueueAssumption
<1>4. Placed(queue, at) /\ Asked(at, starting, agentTurn, taken)
  BY <1>1, <1>3 DEF Init, Placed, Asked, Fates
<1>5. MessageInv
  BY <1>1, <1>4 DEF Init, MessageInv
<1>6. TurnInv /\ CloserInv /\ RestInv
  BY <1>1 DEF Init, TurnInv, CloserInv, Busy, BUSY_STATUSES, RestInv, IdleHoldsNoQueue
<1>7. FlagsInv
  <2>1. 0 \in 0..MaxGates /\ 0 \in 0..MaxSignals
    BY SignalsAssumption
  <2>2. approvals \in 0..MaxGates /\ signals \in 0..MaxSignals
    BY <1>1, <2>1 DEF Init
  <2>3. /\ compactPending \in BOOLEAN /\ compactFired \in BOOLEAN /\ fraction \in {"low", "mid", "high"}
        /\ agentRunning \in BOOLEAN /\ strayQuiet \in BOOLEAN /\ exited \in BOOLEAN
    BY <1>1 DEF Init
  <2>. QED BY <2>2, <2>3 DEF FlagsInv
<1>. QED BY <1>2, <1>5, <1>6, <1>7 DEF Whole

LEMMA WholeStep == Whole /\ [Next]_vars => Whole'
<1>1. SUFFICES ASSUME Whole, [Next]_vars PROVE Whole'
  OBVIOUS
<1>2. Inv' /\ FlagsInv'
  BY <1>1, StepKept, FlagsStep DEF Whole
<1>3. CASE UNCHANGED vars
  <2>. SUFFICES Kept
    BY <1>2 DEF Kept, Whole
  <2>1. UNCHANGED <<status, queue, at, flushing, turns, approvals, agentRunning, exited, compactPending,
                    starting, agentTurn, taken>>
    BY <1>3 DEF vars, session, tracker, codex
  <2>2. MessageInv' /\ TurnInv /\ CloserInv /\ RestInv
    BY <1>1, <2>1, QuietMessages DEF Whole
  <2>. QED BY <2>1, <2>2, QuietTurns DEF RestInv, IdleHoldsNoQueue
<1>4. CASE Next
  <2>. SUFFICES Kept
    BY <1>2 DEF Kept, Whole
  <2>. QED BY <1>1, <1>4, UserKeeps, AcpKeeps, CodexKeeps, OpenGateKeeps, CloseGateKeeps, ExitKeeps
              DEF Next, GateSteps
<1>. QED BY <1>1, <1>3, <1>4

LEMMA AtMostOne ==
  ASSUME NEW S, \A m, n \in S : m = n
  PROVE  Cardinality(S) <= 1
<1>1. CASE S = {}
  BY <1>1, FS_EmptySet
<1>2. CASE S # {}
  <2>1. PICK m : S = {m}
    BY <1>2
  <2>2. Cardinality({m}) = 1
    BY FS_Singleton
  <2>. QED BY <2>1, <2>2
<1>. QED BY <1>1, <1>2

LEMMA WholeIsSafe == Whole => QueueSafety
<1>1. SUFFICES ASSUME Whole PROVE QueueSafety
  OBVIOUS
<1>2. /\ Inv /\ MessageInv /\ TurnInv /\ CloserInv /\ RestInv /\ FlagsInv
      /\ Placed(queue, at) /\ Asked(at, starting, agentTurn, taken)
  BY <1>1 DEF Whole, MessageInv
<1>3. TypeOK
  BY <1>2 DEF TypeOK, Inv, MessageInv, TurnInv, FlagsInv, Placed, Asked, Fates
<1>4. OnePlaceEach
  <2>1. Cardinality(ToSet(queue)) = Len(queue)
    BY <1>2, PlacedHolds
  <2>2. DOMAIN queue = 1..Len(queue)
    BY <1>2 DEF Placed
  <2>3. \A m \in Messages : at[m] = "queued" <=> Contains(queue, m)
    BY <1>2, <2>2 DEF Placed, Contains
  <2>. QED BY <2>1, <2>3 DEF OnePlaceEach
<1>5. OnePromptAtATime
  BY <1>2, AtMostOne DEF OnePromptAtATime, TurnInv
<1>6. BusyHasACloser
  BY <1>2 DEF BusyHasACloser, CloserInv
<1>7. TakenAtMostOnce
  BY <1>2 DEF TakenAtMostOnce, Asked
<1>. QED BY <1>2, <1>3, <1>4, <1>5, <1>6, <1>7 DEF QueueSafety, RestInv, Inv

(* A pending message has one place in a queue within its cap, codex takes   *)
(* a message at most once, one prompt is in flight, and the status is       *)
(* neither idle too early nor busy with nothing left to end it              *)
(* (sendUserMessage, flushNext, settleIdle, steer's refusal and timeout).   *)
THEOREM QueueStaysSafe == Spec => []QueueSafety
<1>. QED BY WholeInit, WholeStep, WholeIsSafe, PTL DEF Spec

(* A message queued with an ACP agent that lives waits behind something     *)
(* that is open: a turn (a stray one too, which need not end), a gate, the  *)
(* agent's running flag.                                                    *)
NoMessageIsPassedBy ==
  Agent = "acp" /\ ~AttachmentsFail /\ ~exited =>
    \A m \in Messages : at[m] = "queued" =>
      Busy /\ (turns # {} \/ approvals > 0 \/ agentRunning \/ starting # {}
               \/ \E n \in Messages : agentTurn[n] = "owed")

(* No idle passes a queued message by, whatever was reordered, steered,     *)
(* promoted, refused or compacted before it (flushNext, settleIdle).        *)
THEOREM NoMessageIsEverPassedBy == Spec => []NoMessageIsPassedBy
<1>1. Whole => NoMessageIsPassedBy
  <2>. SUFFICES ASSUME Whole, Agent = "acp", ~AttachmentsFail, ~exited,
                       NEW m \in Messages, at[m] = "queued"
                PROVE  Busy /\ (turns # {} \/ approvals > 0 \/ agentRunning \/ starting # {}
                                \/ \E n \in Messages : agentTurn[n] = "owed")
    BY DEF NoMessageIsPassedBy
  <2>1. QueueSafety /\ status # "exited" /\ status \in Statuses
    BY WholeIsSafe DEF Whole, Inv
  <2>2. queue # <<>>
    BY <2>1 DEF QueueSafety, OnePlaceEach, Contains
  <2>3. Busy
    BY <2>1, <2>2 DEF QueueSafety, IdleHoldsNoQueue, Busy, BUSY_STATUSES, Statuses
  <2>. QED BY <2>1, <2>3 DEF QueueSafety, BusyHasACloser
<1>. QED BY <1>1, WholeInit, WholeStep, PTL DEF Spec
=============================================================================
