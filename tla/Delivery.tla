------------------------------ MODULE Delivery ------------------------------
(***************************************************************************)
(* How one session's history reaches one app: SubscriptionHub on the       *)
(* server (server/src/ws/subscription_hub.ts) fans events out in batching  *)
(* windows and replays history on `sub`; StoreController in the app        *)
(* (app/lib/store/store.dart) buffers a replay until its ack, applies live *)
(* events per window, drops what its cursor has passed, and resumes from   *)
(* that cursor after a reconnect.                                          *)
(*                                                                         *)
(* The session's history is what EventLog promises of it: a set of events  *)
(* by seq, in which the deltas of a stream are replaced, when it closes,   *)
(* by a final at a new seq or by an aggregate at the first delta's seq.    *)
(* An event covers the pieces of text it carries; a piece is named by the  *)
(* seq it was first issued with.  The socket keeps order; a batch of       *)
(* events is taken event by event.                                         *)
(*                                                                         *)
(* A definition whose comment starts with "Mutant:" is not part of the     *)
(* specification: it is a plausible bug in the definition that follows,    *)
(* and shows that a property is sensitive to that code.                    *)
(***************************************************************************)
EXTENDS Integers, SequencesExt

CONSTANTS
  MaxSeq,    \* bound: seqs the session issues
  MaxDrops,  \* bound: lost connections
  MaxOpens   \* bound: times the user opens the session

ASSUME BoundsAssumption == MaxSeq \in Nat /\ MaxDrops \in Nat /\ MaxOpens \in Nat

VARIABLES
  (* the session *)
  hist,        \* what eventsSince(0) returns
  open,        \* seqs of the deltas of the stream that is open
  last,        \* the highest seq issued
  (* the hub, for this client *)
  authed,      \* the client said hello: it is fanned out to
  pending,     \* events waiting for their window
  (* the socket *)
  c2s, s2c,
  (* the app *)
  connected,
  subscribed,  \* _subscribed
  awaiting,    \* _awaitingReplay
  full,        \* _fullReplay
  loaded,      \* _historyLoaded
  buffer,      \* _replayBuffer
  window,      \* the EventBatcher's pending events
  view,        \* the store: the cursor, and the events folded into the transcript
  raced,       \* history: a live event was folded ahead of a replay
  rearmed,     \* history: a sub was sent while the replay of another was awaited
  drops, opens

session == <<hist, open, last>>
hub == <<authed, pending>>
app == <<subscribed, awaiting, full, loaded, buffer, window, view, raced, rearmed>>
vars == <<session, hub, c2s, s2c, connected, app, drops, opens>>

Event == [seq : 1..MaxSeq, covers : SUBSET (1..MaxSeq)]

(* Frames: a fanned-out or a replayed event, or the ack of a sub.          *)
Live(e) == [type |-> "live", event |-> e]
Replay(e) == [type |-> "replay", event |-> e]
Ack == [type |-> "ack"]
Hello == [type |-> "hello"]
Sub(from) == [type |-> "sub", from |-> from]

Covered(events) == UNION {e.covers : e \in events}

(* The events in the order of their seqs: the one sequence that has them so. *)
BySeq(events) ==
  {s \in [1..Cardinality(events) -> events] :
     ToSet(s) = events /\ \A i, j \in DOMAIN s : i < j => s[i].seq < s[j].seq}
EventsSince(from) == BySeq({e \in hist : e.seq > from})
Replays(s) == [i \in DOMAIN s |-> Replay(s[i])]

NothingSeen == [cursor |-> 0, held |-> {}]

Init ==
  /\ hist = {} /\ open = {} /\ last = 0
  /\ authed = FALSE /\ pending = <<>>
  /\ c2s = <<>> /\ s2c = <<>> /\ connected = FALSE
  /\ subscribed = FALSE /\ awaiting = FALSE /\ full = FALSE /\ loaded = FALSE
  /\ buffer = <<>> /\ window = <<>> /\ view = NothingSeen
  /\ raced = FALSE /\ rearmed = FALSE /\ drops = 0 /\ opens = 0

-----------------------------------------------------------------------------
(* The session records and fans out *)

(* fanout: the event joins the window of an authed client, subscribed or not. *)
Fanout(e) ==
  pending' = IF authed THEN Append(pending, Live(e)) ELSE pending

Record(e, kept) ==
  /\ last < MaxSeq
  /\ last' = last + 1
  /\ hist' = kept \cup {e}
  /\ Fanout(e)
  /\ UNCHANGED <<authed, c2s, s2c, connected, app, drops, opens>>

Note == Record([seq |-> last + 1, covers |-> {last + 1}], hist) /\ UNCHANGED open

Delta ==
  /\ Record([seq |-> last + 1, covers |-> {last + 1}], hist)
  /\ open' = open \cup {last + 1}

Undelta == {e \in hist : e.seq \notin open}

(* The stream's final carries all its text; its deltas leave history.      *)
Final ==
  /\ open # {}
  /\ Record([seq |-> last + 1, covers |-> open \cup {last + 1}], Undelta)
  /\ open' = {}

(* The turn ends with the stream unfinished: closeStreams writes one       *)
(* aggregate at the first delta's seq, and only the turn's end goes out.   *)
EndUnfinished ==
  /\ open # {}
  /\ Record([seq |-> last + 1, covers |-> {last + 1}],
            Undelta \cup {[seq |-> CHOOSE q \in open : \A r \in open : q <= r,
                           covers |-> open]})
  /\ open' = {}

-----------------------------------------------------------------------------
(* The hub *)

(* The window closes, or a frame that may not overtake it goes out. *)
HubFlush ==
  /\ pending # <<>>
  /\ s2c' = s2c \o pending /\ pending' = <<>>
  /\ UNCHANGED <<session, authed, c2s, connected, app, drops, opens>>

HandleHello ==
  /\ c2s # <<>> /\ Head(c2s) = Hello
  /\ authed' = TRUE
  /\ c2s' = Tail(c2s)
  /\ UNCHANGED <<session, pending, s2c, connected, app, drops, opens>>

(* handleSub: flush the window, replay, ack. *)
HandleSub ==
  /\ c2s # <<>> /\ Head(c2s).type = "sub"
  /\ \E s \in EventsSince(Head(c2s).from) :
       s2c' = s2c \o pending \o Replays(s) \o <<Ack>>
  /\ pending' = <<>>
  /\ c2s' = Tail(c2s)
  /\ UNCHANGED <<session, authed, connected, app, drops, opens>>

-----------------------------------------------------------------------------
(* The app *)

(* reduceEvents: an event at or below the cursor was already seen. *)
Reduce(v, events) ==
  LET seen[n \in 0..Len(events)] ==
        IF n = 0 THEN v
        ELSE IF seen[n - 1].cursor >= events[n].seq THEN seen[n - 1]
        ELSE [cursor |-> events[n].seq, held |-> seen[n - 1].held \cup {events[n]}]
  IN seen[Len(events)]

(* Mutant: trust the cursor whether or not the history was ever replayed. *)
FromSeqOfCursor == Reduce(view, window).cursor

(* Where to resume: the cursor, but only once the full history was had. *)
FromSeq == IF loaded THEN Reduce(view, window).cursor ELSE 0

(* _sendSub; a channel that is down swallows the frame. *)
SendSub(before) ==
  /\ view' = Reduce(view, window) /\ window' = <<>>
  /\ full' = (full \/ ~loaded)
  /\ awaiting' = TRUE /\ buffer' = <<>>
  /\ c2s' = IF connected' THEN before \o <<Sub(FromSeq)>> ELSE before
  /\ UNCHANGED <<loaded, raced>>

OpenSession ==
  /\ opens < MaxOpens
  /\ opens' = opens + 1 /\ subscribed' = TRUE
  /\ UNCHANGED connected
  /\ SendSub(c2s)
  /\ rearmed' = (rearmed \/ (connected /\ awaiting))
  /\ UNCHANGED <<session, hub, s2c, drops>>

(* Mutant: a reconnect does not subscribe again. *)
ConnectSilently ==
  /\ ~connected /\ connected' = TRUE
  /\ c2s' = <<Hello>>
  /\ UNCHANGED <<session, hub, s2c, app, drops, opens>>

(* The socket is up: hello, and every subscription again. *)
Connect ==
  /\ ~connected /\ connected' = TRUE
  /\ IF subscribed
     THEN SendSub(<<Hello>>) /\ UNCHANGED <<subscribed, rearmed>>
     ELSE c2s' = <<Hello>> /\ UNCHANGED app
  /\ UNCHANGED <<session, hub, s2c, drops, opens>>

(* The connection is lost with all it carried; the hub forgets the client. *)
Disconnect ==
  /\ connected /\ drops < MaxDrops
  /\ connected' = FALSE /\ drops' = drops + 1
  /\ c2s' = <<>> /\ s2c' = <<>>
  /\ authed' = FALSE /\ pending' = <<>>
  /\ UNCHANGED <<session, app, opens>>

ReceiveEvent ==
  /\ s2c # <<>> /\ Head(s2c) # Ack
  /\ s2c' = Tail(s2c)
  /\ IF awaiting
     THEN buffer' = Append(buffer, Head(s2c)) /\ UNCHANGED window
     ELSE window' = Append(window, Head(s2c).event) /\ UNCHANGED buffer
  /\ UNCHANGED <<session, hub, c2s, connected, subscribed, awaiting, full, loaded,
                 view, raced, rearmed, drops, opens>>

(* A full replay starts the session from an empty slice. *)
ReplayBase == IF full THEN NothingSeen ELSE view

(* The ack of a sub ends the replay; an ack nobody awaits is ignored. *)
ReceiveAck ==
  /\ s2c # <<>> /\ Head(s2c) = Ack
  /\ s2c' = Tail(s2c)
  /\ IF awaiting
     THEN /\ view' = Reduce(ReplayBase, [i \in DOMAIN buffer |-> buffer[i].event])
          /\ loaded' = (loaded \/ full) /\ full' = FALSE
          /\ awaiting' = FALSE /\ buffer' = <<>>
          /\ raced' = (raced \/ \E f \in ToSet(buffer) : f.type = "live")
     ELSE UNCHANGED <<view, loaded, full, awaiting, buffer, raced>>
  /\ UNCHANGED <<session, hub, c2s, connected, subscribed, window, rearmed, drops, opens>>

(* The EventBatcher's window closes. *)
ApplyLiveBatch ==
  /\ window # <<>>
  /\ view' = Reduce(view, window) /\ window' = <<>>
  /\ UNCHANGED <<session, hub, c2s, s2c, connected, subscribed, awaiting, full,
                 loaded, buffer, raced, rearmed, drops, opens>>

-----------------------------------------------------------------------------
Next ==
  \/ Note \/ Delta \/ Final \/ EndUnfinished
  \/ HubFlush \/ HandleHello \/ HandleSub
  \/ OpenSession \/ Connect \/ Disconnect
  \/ ReceiveEvent \/ ReceiveAck \/ ApplyLiveBatch

(* Timers close both windows, the socket delivers, the app reconnects.     *)
Fairness ==
  /\ WF_vars(HubFlush) /\ WF_vars(ApplyLiveBatch)
  /\ WF_vars(HandleHello) /\ WF_vars(HandleSub)
  /\ WF_vars(ReceiveEvent) /\ WF_vars(ReceiveAck)
  /\ WF_vars(Connect)

Spec == Init /\ [][Next]_vars
FairSpec == Spec /\ Fairness

-----------------------------------------------------------------------------
(* Properties *)

(* Every variable has its type. *)
TypeOK ==
  /\ hist \subseteq Event /\ open \subseteq 1..MaxSeq /\ last \in 0..MaxSeq
  /\ authed \in BOOLEAN /\ connected \in BOOLEAN
  /\ subscribed \in BOOLEAN /\ awaiting \in BOOLEAN /\ full \in BOOLEAN
  /\ loaded \in BOOLEAN /\ raced \in BOOLEAN /\ rearmed \in BOOLEAN
  /\ pending \in Seq([type : {"live"}, event : Event])
  /\ buffer \in Seq([type : {"live", "replay"}, event : Event])
  /\ s2c \in Seq([type : {"live", "replay"}, event : Event] \cup {Ack})
  /\ c2s \in Seq([type : {"sub"}, from : 0..MaxSeq] \cup {Hello})
  /\ window \in Seq(Event)
  /\ view \in [cursor : 0..MaxSeq, held : SUBSET Event]
  /\ drops \in 0..MaxDrops /\ opens \in 0..MaxOpens

(* What lies below the cursor is never asked for again: a client that      *)
(* counts a session as loaded holds every piece of text that these events, *)
(* up to its cursor, carry.                                                *)
Kept(events) ==
  loaded => \A e \in events : e.seq <= view.cursor => e.covers \subseteq Covered(view.held)

(* An aggregate is the one event that takes a seq below text it carries.   *)
IsAggregate(e) == \E q \in e.covers : q > e.seq

RecordedKept == rearmed \/ Kept({e \in hist : ~IsAggregate(e)})

(* "the replay is its whole log": every event that was recorded reaches a  *)
(* loaded client (_flushReplay, handleSub).  An event is lost only when a  *)
(* live one is folded ahead of the replay it belonged to, or when a        *)
(* session was opened twice before its replay was in.                      *)
RecordedKeptUnlessRaced == raced \/ RecordedKept

(* Once nothing is on its way, an open session shows the last event: the   *)
(* server never stops sending to a client that thinks it is subscribed     *)
(* (the reconnect listener, fanout).                                       *)
Quiet ==
  /\ connected /\ authed /\ loaded /\ ~awaiting
  /\ c2s = <<>> /\ s2c = <<>> /\ pending = <<>> /\ window = <<>>
CaughtUp == Quiet => view.cursor = last

(* Whatever the session has issued, an app that opened it eventually       *)
(* passes, lost connections or not: a replay that was cut off is asked for *)
(* again.                                                                  *)
Converges ==
  \A q \in 1..MaxSeq : subscribed /\ last >= q ~> view.cursor >= q

(* What the app shows is what was recorded, up to its cursor, and once all *)
(* is quiet up to the end (StoreController, SubscriptionHub).              *)
ViewSafety == TypeOK /\ RecordedKeptUnlessRaced /\ CaughtUp
=============================================================================
