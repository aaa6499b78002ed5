-------------------------------- MODULE CliWait --------------------------------
(***************************************************************************)
(* `makit wait` (cli/wait.ts: runWait and awaitOutcome): it reads a session's  *)
(* status from the snapshot, subscribes, ignores what the server replays, and *)
(* ends with the first outcome after that. Frames arrive in order; the        *)
(* connection may be lost and a timeout may fire at any moment.               *)
(***************************************************************************)
EXTENDS Naturals, Sequences

CONSTANTS
    ForWhats,       \* --for: "any", "idle", "approval", "input"
    MaxEvents       \* bound

VARIABLES
    forWhat,
    status,         \* the session's
    log,            \* its events: statuses, and "error" of a turn that failed
    following,      \* the server has handled the sub
    net,            \* frames on their way: events, and "ack"
    pc,             \* "start", "waiting" or "done"
    sawRunning, replayed,   \* of awaitOutcome
    code,           \* the exit code, or "none"
    \* history
    turnEnded,      \* a turn ended since the snapshot was read
    missed          \* the session exited, or was blocked, before the sub was handled

vars == <<forWhat, status, log, following, net, pc, sawRunning, replayed, code, turnEnded, missed>>
session == <<status, log, turnEnded, missed>>

Statuses == {"idle", "running", "awaiting-approval", "awaiting-input", "exited"}
Lasting == {"awaiting-approval", "awaiting-input", "exited"}

\* codeForStatus: "ok" is 0
CodeForStatus(s) ==
    CASE s = "idle" -> "ok" [] s = "awaiting-approval" -> "approval"
      [] s = "awaiting-input" -> "input" [] s = "exited" -> "exited" [] OTHER -> "none"

\* mutant: --for narrows a dead session too
WantedNarrowly(c) ==
    \/ forWhat = "any" \/ (forWhat = "idle" /\ c = "ok") \/ forWhat = c

Wanted(c) ==
    \/ c = "exited"
    \/ forWhat = "any" \/ (forWhat = "idle" /\ c = "ok") \/ forWhat = c

Init ==
    /\ forWhat \in ForWhats
    /\ status \in Statuses \ {"exited"}
    /\ log \in {<<>>, <<"running", "idle">>}
    /\ following = FALSE /\ net = <<>>
    /\ pc = "start"
    /\ sawRunning = FALSE /\ replayed = FALSE
    /\ code = "none"
    /\ turnEnded = FALSE /\ missed = FALSE

-----------------------------------------------------------------------------
(* The session. *)

Records(e) ==
    /\ Len(log) < MaxEvents
    /\ log' = Append(log, e)
    /\ net' = IF following THEN Append(net, e) ELSE net
    /\ missed' = (~following /\ (missed \/ (pc = "waiting" /\ e \in Lasting)))
    /\ UNCHANGED <<forWhat, following, pc, sawRunning, replayed, code>>

StatusChanges(s) ==
    /\ s # status /\ status # "exited"
    /\ s \in {"awaiting-approval", "awaiting-input"} => status = "running"
    /\ status' = s
    /\ turnEnded' = (turnEnded \/ (pc = "waiting" /\ s = "idle"))
    /\ Records(s)

\* a failed turn: the event, and then idle
TurnFails ==
    /\ status = "running"
    /\ Records("error")
    /\ UNCHANGED <<status, turnEnded>>

-----------------------------------------------------------------------------
(* The command. *)

Settle(c) == code' = c /\ pc' = "done"

\* runWait: a session that is blocked or gone needs no wait
Snapshot ==
    /\ pc = "start"
    /\ LET c == CodeForStatus(status) IN
       IF c \notin {"none", "ok"} /\ Wanted(c)
       THEN Settle(c) /\ UNCHANGED sawRunning
       ELSE pc' = "waiting" /\ sawRunning' = (status = "running") /\ UNCHANGED code
    /\ UNCHANGED <<forWhat, session, following, net, replayed>>

\* the server replays the log, acks, and sends what is new from then on
HandleSub ==
    /\ pc = "waiting" /\ ~following /\ following' = TRUE
    /\ net' = Append(log, "ack")
    /\ UNCHANGED <<forWhat, session, pc, sawRunning, replayed, code>>

\* mutant: what is replayed counts
CountsReplay == TRUE

Counts == replayed

OnFrame ==
    /\ pc = "waiting" /\ net # <<>> /\ net' = Tail(net)
    /\ LET e == Head(net) c == CodeForStatus(e) IN
       IF e = "ack" THEN replayed' = TRUE /\ UNCHANGED <<sawRunning, code, pc>>
       ELSE /\ UNCHANGED replayed
            /\ IF ~Counts THEN UNCHANGED <<sawRunning, code, pc>>
               ELSE IF e = "error" THEN Settle("error") /\ UNCHANGED sawRunning
               ELSE IF e = "running" THEN sawRunning' = TRUE /\ UNCHANGED <<code, pc>>
               ELSE IF (c = "ok" => sawRunning) /\ Wanted(c) THEN Settle(c) /\ UNCHANGED sawRunning
               ELSE UNCHANGED <<sawRunning, code, pc>>
    /\ UNCHANGED <<forWhat, session, following>>

TimesOut == pc = "waiting" /\ Settle("timeout") /\ UNCHANGED <<forWhat, session, following, net, sawRunning, replayed>>

ConnectionLost == pc = "waiting" /\ Settle("lost") /\ UNCHANGED <<forWhat, session, following, net, sawRunning, replayed>>

Next ==
    \/ \E s \in Statuses : StatusChanges(s)
    \/ TurnFails
    \/ Snapshot \/ HandleSub \/ OnFrame \/ TimesOut \/ ConnectionLost

\* frames are delivered; sessions, timeouts and lost connections owe nothing
Fairness == WF_vars(HandleSub) /\ WF_vars(OnFrame)

Spec == Init /\ [][Next]_vars /\ Fairness

-----------------------------------------------------------------------------
\* Exit 0 says that a turn ended after the command was given: not one that the log replays, nor that
\* the session was idle all along ("exit 0 having waited for nothing").
ZeroMeansATurnEnded == code = "ok" => turnEnded

\* A session that exits ends the wait, whatever was waited for, unless it exited between the snapshot
\* and the subscription ("wait --for idle block forever on a crashed agent", and the known gap).
GoneIsReported == (pc = "waiting" /\ status = "exited" /\ ~missed) ~> pc = "done"
=============================================================================
