------------------------------ MODULE EventLog ------------------------------
(***************************************************************************)
(* The durable history of ONE session: how Session (server/src/session.ts) *)
(* numbers, caches, evicts and replays its events, how StreamDigest        *)
(* (stream_digest.ts) replaces streamed deltas by finals or aggregates,    *)
(* and how SqliteEventStore (storage/sqlite_event_store.ts) issues         *)
(* sequence numbers so that a crash can never issue one twice.             *)
(*                                                                         *)
(* Abstraction.  The text a delta streams is its own seq; the text a final *)
(* or an aggregate carries is the set of the deltas it stands for.  The    *)
(* cache is a set: every event is pushed with a seq above all cached ones  *)
(* and closeStreams splices by seq, so the array is always in seq order    *)
(* (that the next seq is above every issued one is the invariant           *)
(* SeqAboveIssued, proved in EventLogProofs).                              *)
(*                                                                         *)
(* A definition whose comment starts with "Mutant:" is not part of the     *)
(* specification: it is a plausible bug in the definition that follows,    *)
(* and shows that a property is sensitive to that code.                    *)
(***************************************************************************)
EXTENDS Integers, FiniteSets

CONSTANTS
  Messages,          \* streams of agent.message / agent.thinking deltas (msgId, thinkId)
  Tools,             \* streams of tool.call.delta (callId)
  SEQ_BLOCK,         \* seqs one write of seq_hwm covers (256 in the code)
  MEMORY_EVENT_CAP,  \* rows a trim leaves in the cache (500 in the code)
  HasStore,          \* is the session backed by an EventStore?
  MaxSeq,            \* bound: no event is recorded past this seq
  MaxCrashes,        \* bound: server restarts
  MaxFailures        \* bound: INSERTs that throw (disk full, locked database)

ASSUME StreamsAssumption == Messages \cap Tools = {}
ASSUME BlockAssumption == SEQ_BLOCK \in Nat \ {0}
ASSUME CapAssumption == MEMORY_EVENT_CAP \in Nat \ {0}
ASSUME FlagsAssumption == HasStore \in BOOLEAN
ASSUME BoundsAssumption == MaxSeq \in Nat /\ MaxCrashes \in Nat /\ MaxFailures \in Nat

VARIABLES
  log,        \* events table: the rows of this session (durable)
  seqHwm,     \* sessions.seq_hwm, 0 for NULL (durable)
  nextSeq,    \* the store's nextSeq entry, 0 when absent; lastSeq + 1 without a store
  hwm,        \* the store's in-memory hwm entry, 0 when absent
  mem,        \* the Session object: cache and digest
  top,        \* history: the highest seq ever issued
  spoken,     \* history: deltas that carried a chunk, per stream
  crashLost,  \* history: chunks a crash destroyed
  crashes,    \* number of crashes, bounded by MaxCrashes
  failures    \* number of failed writes, bounded by MaxFailures

vars == <<log, seqHwm, nextSeq, hwm, mem, top, spoken, crashLost, crashes, failures>>

Streams == Messages \cup Tools
NoStream == "none"
StoredKinds == {"final", "aggregate", "end", "note"}

(* "end" is a session.status of a turn-end status (idle, exited), "final"  *)
(* the event that supersedes a stream, "note" any other stored event.      *)
Event == [seq : Nat, kind : StoredKinds \cup {"delta"},
          stream : Streams \cup {NoStream}, text : SUBSET Nat]

OpenStream == [first : Nat, chunks : SUBSET Nat, seqs : SUBSET Nat, finalSeen : BOOLEAN]

(* The fields of a Session that hold its history: the cache and how far    *)
(* it was evicted, the digest's open streams and the seqs of their deltas, *)
(* and whether the lazy loader has run.                                    *)
Mem == [events : SUBSET Event, evicted : Nat, open : [Streams -> OpenStream],
        deltas : SUBSET Nat, loaded : BOOLEAN]

(* A stream with no entry in the digest's `open` map. *)
Absent == [first |-> 0, chunks |-> {}, seqs |-> {}, finalSeen |-> FALSE]
NothingOpen == [s \in Streams |-> Absent]

Larger(a, b) == IF a >= b THEN a ELSE b
Highest(S) == CHOOSE x \in S : \A y \in S : x >= y
Lowest(S) == CHOOSE x \in S : \A y \in S : x <= y
SeqsOf(evs) == {e.seq : e \in evs}
TextOf(evs) == UNION {e.text : e \in evs}

-----------------------------------------------------------------------------
(* SqliteEventStore: sequence numbers *)

(* Mutant: MAX(seq) alone, forgetting the seqs a dead turn was streaming. *)
NextSeqFromRows ==
  IF nextSeq > 0 THEN nextSeq ELSE Highest(SeqsOf(log) \cup {0}) + 1

NextSeqFor ==
  IF nextSeq > 0 THEN nextSeq ELSE Larger(Highest(SeqsOf(log) \cup {0}), seqHwm) + 1

(* One row update covers SEQ_BLOCK reservations of unwritten seqs. *)
ReserveBlock(q) ==
  IF HasStore /\ (hwm = 0 \/ q >= hwm)
  THEN hwm' = q + SEQ_BLOCK /\ seqHwm' = q + SEQ_BLOCK
  ELSE UNCHANGED <<hwm, seqHwm>>

(* Mutant: an out-of-order write sets the counter instead of raising it. *)
CounterAfterLast(q, written) ==
  Highest(SeqsOf(written) \cup {IF written = {} THEN q ELSE 0}) + 1

(* The nextSeq entry after a row at q and then `written` rows (appendAt).  *)
CounterAfter(q, written) == Highest(SeqsOf(written) \cup {q}) + 1

(* The last `limit` rows, oldest first. *)
ReadTail(limit) ==
  {e \in log : Cardinality({f \in log : f.seq > e.seq}) < limit}

-----------------------------------------------------------------------------
(* StreamDigest, on the digest fields `open` and `deltas` of a Session m *)

NoteDelta(m, s, q, chunk) ==
  LET o == m.open[s]
      text == IF chunk THEN {q} ELSE {}
  IN  [m EXCEPT
         !.deltas = @ \cup {q},
         !.open[s] = IF o.seqs = {}
                     THEN [first |-> q, chunks |-> text, seqs |-> {q}, finalSeen |-> FALSE]
                     ELSE [o EXCEPT !.chunks = @ \cup text, !.seqs = @ \cup {q}]]

NoteFinal(m, s) ==
  IF m.open[s].seqs = {} THEN m ELSE [m EXCEPT !.open[s].finalSeen = TRUE]

(* The text of a final: what the agent put in it (`given`), or the chunks  *)
(* the digest holds for a tool.call.end that came without an output.       *)
FinalText(m, s, given) == IF given THEN spoken[s] ELSE m.open[s].chunks

HarvestFinished(m) ==
  LET finished == {s \in Streams : m.open[s].finalSeen}
      gone == UNION {m.open[s].seqs : s \in finished}
  IN  [m EXCEPT
         !.open = [s \in Streams |-> IF s \in finished THEN Absent ELSE m.open[s]],
         !.deltas = @ \ gone,
         !.events = {e \in @ : e.seq \notin gone}]

(* What history needs for the streams that got no final, each at the seq   *)
(* of its first delta.                                                     *)
Aggregates(m) ==
  {[seq |-> m.open[s].first, kind |-> "aggregate", stream |-> s, text |-> m.open[s].chunks] :
     s \in {t \in Streams : ~m.open[t].finalSeen /\ m.open[t].chunks # {}}}

-----------------------------------------------------------------------------
(* Session: the event cache *)

(* Mutant: the cap drops the oldest events, open deltas included. *)
EvictAnything(m) ==
  LET over == Cardinality(m.events) - MEMORY_EVENT_CAP
      dropped == {e \in m.events : Cardinality({f \in m.events : f.seq < e.seq}) < over}
  IN  IF Cardinality(m.events) - Cardinality(m.deltas) <= 2 * MEMORY_EVENT_CAP
      THEN m
      ELSE [m EXCEPT !.events = @ \ dropped,
                     !.evicted = Larger(@, Highest(SeqsOf(dropped)))]

(* Mutant: rows are evicted without remembering how far. *)
EvictUntracked(m) ==
  LET droppable == {e \in m.events : e.seq \notin m.deltas}
      over == Cardinality(m.events) - MEMORY_EVENT_CAP
  IN  IF Cardinality(m.events) - Cardinality(m.deltas) <= 2 * MEMORY_EVENT_CAP
      THEN m
      ELSE [m EXCEPT !.events = @ \ {e \in droppable :
                       Cardinality({f \in droppable : f.seq < e.seq}) < over}]

(* Drop the oldest rows the store can reload once more than twice the cap  *)
(* of them are cached; a delta of an open stream is never dropped.         *)
EvictOldest(m) ==
  LET droppable == {e \in m.events : e.seq \notin m.deltas}
      over == Cardinality(m.events) - MEMORY_EVENT_CAP
      dropped == {e \in droppable :
                    Cardinality({f \in droppable : f.seq < e.seq}) < over}
  IN  IF \/ Cardinality(m.events) - Cardinality(m.deltas) <= 2 * MEMORY_EVENT_CAP
         \/ dropped = {}
      THEN m
      ELSE [m EXCEPT !.events = @ \ dropped,
                     !.evicted = Larger(@, Highest(SeqsOf(dropped)))]

TrimCache(m) == IF HasStore THEN EvictOldest(HarvestFinished(m)) ELSE m

(* Load the persisted tail on the first access after a restart. *)
EnsureHydrated(m) ==
  LET tail == ReadTail(MEMORY_EVENT_CAP)
  IN  IF m.loaded THEN m
      ELSE [m EXCEPT !.loaded = TRUE,
                     !.events = @ \cup tail,
                     !.evicted = IF tail = {} THEN @
                                 ELSE Larger(@, Lowest(SeqsOf(tail)) - 1)]

Push(m, e) == TrimCache([m EXCEPT !.events = @ \cup {e}])

(* End of turn: the aggregates replace every delta of the turn. *)
CloseStreams(m) ==
  IF m.deltas = {} THEN m
  ELSE TrimCache([m EXCEPT
                    !.open = NothingOpen,
                    !.deltas = {},
                    !.events = {e \in @ : e.seq \notin m.deltas} \cup Aggregates(m)])

(* What a `sub` with cursor f is replayed: the cache when nothing above f  *)
(* was evicted, else the log with the live tail merged over it.            *)
EventsSince(m, f) ==
  LET live == {e \in m.events : e.seq > f}
  IN  IF f >= m.evicted \/ ~HasStore
      THEN live
      ELSE live \cup {e \in log : e.seq > f /\ e.seq \notin SeqsOf(live)}

-----------------------------------------------------------------------------
(* Actions *)

Init ==
  /\ log = {}
  /\ seqHwm = 0
  /\ nextSeq = IF HasStore THEN 0 ELSE 1
  /\ hwm = 0
  /\ mem = [events |-> {}, evicted |-> 0, open |-> NothingOpen, deltas |-> {}, loaded |-> TRUE]
  /\ top = 0
  /\ spoken = [s \in Streams |-> {}]
  /\ crashLost = {}
  /\ crashes = 0
  /\ failures = 0

(* Session.form for a streamed delta: a seq, but no row. Without a store    *)
(* the stream stays open after its final until the turn ends, and the agent *)
(* sends no further delta on it.                                           *)
RecordDelta(s, chunk) ==
  LET q == NextSeqFor
      m == EnsureHydrated(mem)
      e == [seq |-> q, kind |-> "delta", stream |-> s, text |-> IF chunk THEN {q} ELSE {}]
  IN  /\ q <= MaxSeq
      /\ HasStore \/ ~mem.open[s].finalSeen
      /\ nextSeq' = q + 1
      /\ ReserveBlock(q)
      /\ mem' = Push(NoteDelta(m, s, q, chunk), e)
      /\ top' = q
      /\ spoken' = [spoken EXCEPT ![s] = @ \cup e.text]
      /\ UNCHANGED <<log, crashLost, crashes, failures>>

(* Session.form for a stored event: the row is inserted before the event   *)
(* reaches the cache.                                                      *)
Append(m, e) ==
  /\ e.seq <= MaxSeq
  /\ nextSeq' = e.seq + 1
  /\ log' = IF HasStore THEN log \cup {e} ELSE log
  /\ mem' = Push(m, e)
  /\ top' = e.seq
  /\ UNCHANGED <<seqHwm, hwm, spoken, crashLost, crashes, failures>>

FinalEvent(m, s, given) ==
  [seq |-> NextSeqFor, kind |-> "final", stream |-> s, text |-> FinalText(m, s, given)]

RecordFinal(s, given) ==
  LET m == NoteFinal(EnsureHydrated(mem), s)
  IN  /\ given \/ s \in Tools
      /\ Append(m, FinalEvent(m, s, given))

RecordNote ==
  Append(EnsureHydrated(mem),
         [seq |-> NextSeqFor, kind |-> "note", stream |-> NoStream, text |-> {}])

EndEvent == [seq |-> NextSeqFor, kind |-> "end", stream |-> NoStream, text |-> {}]

(* A turn-end status: recorded like any event, then the streams close.     *)
RecordEnd ==
  LET m == Push(EnsureHydrated(mem), EndEvent)
  IN  /\ EndEvent.seq <= MaxSeq
      /\ nextSeq' = CounterAfter(EndEvent.seq, IF HasStore THEN Aggregates(m) ELSE {})
      /\ log' = IF HasStore THEN log \cup {EndEvent} \cup Aggregates(m) ELSE log
      /\ mem' = CloseStreams(m)
      /\ top' = EndEvent.seq
      /\ UNCHANGED <<seqHwm, hwm, spoken, crashLost, crashes, failures>>

(* store.append throws for a final: the digest has already marked the      *)
(* stream finished and the seq is spent; nothing is cached or fanned out.  *)
(* (When the write of any other row fails, only its seq is spent: the same *)
(* step for a stream that is not open.)                                    *)
FinalFails(s, given) ==
  /\ HasStore /\ failures < MaxFailures
  /\ failures' = failures + 1
  /\ given \/ s \in Tools
  /\ NextSeqFor <= MaxSeq
  /\ nextSeq' = NextSeqFor + 1
  /\ mem' = NoteFinal(EnsureHydrated(mem), s)
  /\ UNCHANGED <<log, seqHwm, hwm, top, spoken, crashLost, crashes>>

(* store.appendAt throws for an aggregate: the digest is already cleared,  *)
(* the aggregates before it are written, the cache keeps the deltas.       *)
CloseFails ==
  LET m == Push(EnsureHydrated(mem), EndEvent)
  IN  /\ HasStore /\ failures < MaxFailures
      /\ failures' = failures + 1
      /\ EndEvent.seq <= MaxSeq
      /\ \E failed \in Aggregates(m) :
           LET written == {a \in Aggregates(m) : a.seq < failed.seq}
           IN  /\ nextSeq' = CounterAfter(EndEvent.seq, written)
               /\ log' = log \cup {EndEvent} \cup written
      /\ mem' = [m EXCEPT !.open = NothingOpen, !.deltas = {}]
      /\ top' = EndEvent.seq
      /\ UNCHANGED <<seqHwm, hwm, spoken, crashLost, crashes>>

(* A read of Session.events or a `sub`: the first one after a restart      *)
(* loads the tail, nothing else changes.                                   *)
Access ==
  /\ ~mem.loaded
  /\ mem' = EnsureHydrated(mem)
  /\ UNCHANGED <<log, seqHwm, nextSeq, hwm, top, spoken, crashLost, crashes, failures>>

(* A process that has just booted over the given rows: the rows and        *)
(* seq_hwm survived, the cache, the digest and the store's maps did not.   *)
Boot(rows) ==
  /\ HasStore
  /\ crashes < MaxCrashes
  /\ crashes' = crashes + 1
  /\ log' = rows
  /\ nextSeq' = 0
  /\ hwm' = 0
  /\ mem' = [events |-> {}, evicted |-> 0, open |-> NothingOpen, deltas |-> {}, loaded |-> FALSE]
  /\ crashLost' = (UNION {spoken[s] : s \in Streams}) \ TextOf(rows)
  /\ UNCHANGED <<seqHwm, top, spoken, failures>>

Crash == Boot(log)

(* The rows of a closing turn are separate statements, not a transaction:  *)
(* the process can die with the status written and the aggregates not.     *)
CrashInClose ==
  LET m == Push(EnsureHydrated(mem), EndEvent)
  IN  /\ EndEvent.seq <= MaxSeq
      /\ \E missing \in Aggregates(m) :
           Boot(log \cup {EndEvent} \cup {a \in Aggregates(m) : a.seq < missing.seq})

Next ==
  \/ \E s \in Streams, chunk \in BOOLEAN : RecordDelta(s, chunk)
  \/ \E s \in Streams, given \in BOOLEAN : RecordFinal(s, given)
  \/ RecordNote
  \/ RecordEnd
  \/ \E s \in Streams, given \in BOOLEAN : FinalFails(s, given)
  \/ CloseFails
  \/ Access
  \/ Crash
  \/ CrashInClose

Spec == Init /\ [][Next]_vars

-----------------------------------------------------------------------------
(* Properties *)

(* Every variable has the shape the code gives it. *)
TypeOK ==
  /\ log \subseteq Event
  /\ seqHwm \in Nat /\ nextSeq \in Nat /\ hwm \in Nat
  /\ mem \in Mem
  /\ top \in Nat /\ crashes \in Nat /\ failures \in Nat
  /\ spoken \in [Streams -> SUBSET Nat]
  /\ crashLost \subseteq Nat

(* The seq the store or the session would issue next is above every seq a  *)
(* client was ever sent, also right after a crash that lost a streaming    *)
(* turn (reserveSeq: "a restart mid-turn hands the same numbers out again  *)
(* and every client discards the events as already seen").                 *)
SeqAboveIssued == NextSeqFor > top

(* The same as a property of steps: a seq is issued at most once, and the  *)
(* seqs of new events only grow; an aggregate takes back a delta's seq.    *)
NewSeqIsFresh ==
  \A e \in mem'.events :
    e.seq \notin SeqsOf(mem.events \cup log) /\ e.kind # "aggregate" => e.seq > top

SeqNeverReissued == [][NewSeqIsFresh]_vars

(* PRIMARY KEY (session_id, seq): the seq an aggregate takes back was never *)
(* given to another row, so appendAt cannot throw on a duplicate.          *)
LogKeyed == \A e, f \in log : e.seq = f.seq => e = f

(* No streamed text disappears: what a device was shown live is in what a  *)
(* full replay returns, unless the server died before the turn ended or a  *)
(* write failed.                                                           *)
TextKept ==
  failures = 0 => \A s \in Streams : spoken[s] \ crashLost
                       \subseteq TextOf(EventsSince(EnsureHydrated(mem), 0))

(* A turn that ended is durable: only deltas of an open stream may be in   *)
(* memory alone, so they are all a crash can destroy (a failed write       *)
(* aside).                                                                 *)
OnlyOpenTextAtRisk ==
  HasStore /\ failures = 0 => \A s \in Streams :
                spoken[s] \ crashLost \subseteq TextOf(log) \cup mem.deltas

(* A resume from any cursor is exactly the end of the full replay: the     *)
(* cache, the evicted rows and the log never disagree about a suffix.      *)
ResumeIsSuffix ==
  LET m == EnsureHydrated(mem)
  IN  \A f \in 0..top :
        EventsSince(m, f) = {e \in EventsSince(m, 0) : e.seq > f}

(* With a store a replay never sends a delta beside the final or the       *)
(* aggregate that carries its text: no answer is shown twice (a failed     *)
(* write aside).                                                           *)
NoTextTwice ==
  HasStore /\ failures = 0 => LET full == EventsSince(EnsureHydrated(mem), 0)
              IN  \A d, e \in full : d.kind = "delta" /\ e.text \cap d.text # {} => d = e

(* The cache stays bounded during a turn that never ends: only deltas of   *)
(* streams still open are beyond the cap (a failed write aside).           *)
CacheBounded ==
  HasStore /\ failures = 0 => Cardinality({e \in mem.events : e.seq \notin mem.deltas}) <= 2 * MEMORY_EVENT_CAP

(* "A finished stream's final is persisted, so its deltas are redundant":  *)
(* a delta leaves the cache only once a row carries its text (a crash      *)
(* aside).                                                                 *)
DroppedDeltaIsWritten ==
  [][crashes' = crashes =>
       \A e \in mem.events \ mem'.events :
         e.kind = "delta" => e.text \subseteq TextOf(log')]_vars

(* A replay is whole: it keeps every text, a resume is the end of the full *)
(* replay, no text comes twice, and the cache stays bounded meanwhile.     *)
ReplayIsWhole == TextKept /\ OnlyOpenTextAtRisk /\ ResumeIsSuffix /\ NoTextTwice /\ CacheBounded

(* The history a device may rely on, over this cache, log and digest.      *)
History == INSTANCE Transcript WITH
  issued <- top,
  said   <- UNION {spoken[s] : s \in Streams},
  shown  <- TextOf(EventsSince(EnsureHydrated(mem), 0)),
  kept   <- TextOf(log),
  open   <- mem.deltas,
  faulty <- failures > 0

(* Session, StreamDigest and the store together keep the promises of       *)
(* Transcript: every step of theirs is a step of it or changes nothing     *)
(* a device can see.                                                       *)
ImplementsTranscript == History!Spec
=============================================================================
