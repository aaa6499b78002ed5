--------------------------- MODULE EventLogProofs ---------------------------
(* Proofs about EventLog for every number of streams, block size, cache    *)
(* cap, and bound on seqs and crashes.                                     *)
EXTENDS EventLog, WellFoundedInduction, FiniteSetTheorems, TLAPS

-----------------------------------------------------------------------------
(* Extrema of bounded sets of naturals *)

(* A nonempty set of naturals has a least element. *)
LEMMA LeastExists ==
  ASSUME NEW S \in SUBSET Nat, S # {}
  PROVE  \E x \in S : \A y \in S : x <= y
<1>. DEFINE Less == OpToRel(<, Nat)
<1>1. \A x, y \in Nat : y < x => <<y, x>> \in Less
  BY DEF OpToRel
<1>2. IsWellFoundedOn(Less, Nat)
  BY NatLessThanWellFounded
<1>. HIDE DEF Less
<1>3. PICK x \in S : \A y \in S : <<y, x>> \notin Less
  BY <1>2, WFMin
<1>4. ASSUME NEW y \in S PROVE x <= y
  <2>1. x \in Nat /\ y \in Nat
    OBVIOUS
  <2>2. <<y, x>> \notin Less
    BY <1>3
  <2>3. y < x => <<y, x>> \in Less
    BY <1>1, <2>1
  <2>4. ~ (y < x)
    BY <2>2, <2>3
  <2>. QED BY <2>1, <2>4
<1>. QED BY <1>4

(* Highest returns the maximum of a nonempty bounded set: the SQL MAX. *)
LEMMA HighestIsMax ==
  ASSUME NEW S \in SUBSET Nat, S # {}, NEW b \in Nat, \A y \in S : y <= b
  PROVE  /\ Highest(S) \in S
         /\ \A y \in S : Highest(S) >= y
<1>. DEFINE U == {n \in Nat : \A y \in S : y <= n}
<1>1. U \in SUBSET Nat /\ U # {}
  OBVIOUS
<1>. HIDE DEF U
<1>2. PICK u \in U : \A n \in U : u <= n
  BY <1>1, LeastExists
<1>3. u \in Nat /\ \A y \in S : y <= u
  BY <1>2 DEF U
<1>4. u \in S
  <2>. SUFFICES ASSUME u \notin S PROVE FALSE
    OBVIOUS
  <2>1. \A y \in S : y <= u - 1
    BY <1>3
  <2>2. u - 1 \in Nat
    <3>1. PICK y \in S : TRUE
      OBVIOUS
    <3>. QED BY <3>1, <2>1, <1>3
  <2>3. u - 1 \in U
    BY <2>1, <2>2 DEF U
  <2>. QED BY <1>2, <1>3, <2>3
<1>. QED BY <1>3, <1>4 DEF Highest

(* Lowest returns the minimum of a nonempty set. *)
LEMMA LowestIsMin ==
  ASSUME NEW S \in SUBSET Nat, S # {}
  PROVE  /\ Lowest(S) \in S
         /\ \A y \in S : Lowest(S) <= y
BY LeastExists DEF Lowest

-----------------------------------------------------------------------------
(* The digest and the cache *)

(* What every Session object satisfies: a stream's first delta is one of    *)
(* its deltas, streams share none, and all of them are tracked.            *)
DigestInv(m) ==
  /\ m \in Mem
  /\ \A s \in Streams : m.open[s].seqs \subseteq m.deltas
  /\ \A s \in Streams : m.open[s].seqs # {} => m.open[s].first \in m.open[s].seqs
  /\ \A s \in Streams : m.open[s].chunks # {} => m.open[s].seqs # {}
  /\ \A s, t \in Streams : s # t => m.open[s].seqs \cap m.open[t].seqs = {}
  /\ \A d \in m.deltas : d <= MaxSeq
  /\ \A e \in m.events : e.seq <= MaxSeq

LogBounded == \A e \in log : e.seq <= MaxSeq

(* Loading the tail touches the cache only, and adds only rows of the log. *)
LEMMA HydrateKeepsDigest ==
  ASSUME log \subseteq Event, LogBounded, NEW m, DigestInv(m)
  PROVE  /\ DigestInv(EnsureHydrated(m))
         /\ EnsureHydrated(m).deltas = m.deltas
         /\ EnsureHydrated(m).open = m.open
         /\ EnsureHydrated(m).events \subseteq m.events \cup log
<1>. DEFINE tail == ReadTail(MEMORY_EVENT_CAP)
            h == IF tail = {} THEN m.evicted ELSE Larger(m.evicted, Lowest(SeqsOf(tail)) - 1)
<1>1. tail \subseteq log
  BY DEF ReadTail
<1>. HIDE DEF tail
<1>2. CASE m.loaded
  BY <1>2 DEF EnsureHydrated
<1>3. CASE ~ m.loaded
  <2>1. EnsureHydrated(m) = [m EXCEPT !.loaded = TRUE, !.events = @ \cup tail, !.evicted = h]
    BY <1>3 DEF EnsureHydrated, tail
  <2>2. h \in Nat
    <3>1. CASE tail = {}
      BY <3>1 DEF DigestInv, Mem
    <3>2. CASE tail # {}
      <4>1. SeqsOf(tail) \in SUBSET Nat /\ SeqsOf(tail) # {}
        BY <1>1, <3>2 DEF SeqsOf, Event
      <4>2. Lowest(SeqsOf(tail)) \in Nat
        BY <4>1, LowestIsMin
      <4>3. m.evicted \in Nat
        BY DEF DigestInv, Mem
      <4>. QED BY <3>2, <4>2, <4>3 DEF Larger
    <3>. QED BY <3>1, <3>2
  <2>. HIDE DEF h
  <2>3. EnsureHydrated(m) \in Mem
    <3>1. m \in Mem /\ m.events \subseteq Event
      BY DEF DigestInv, Mem
    <3>2. m.events \cup tail \in SUBSET Event
      BY <1>1, <3>1
    <3>. QED BY <2>1, <2>2, <3>1, <3>2 DEF Mem
  <2>4. /\ EnsureHydrated(m).deltas = m.deltas
        /\ EnsureHydrated(m).open = m.open
        /\ EnsureHydrated(m).events = m.events \cup tail
    BY <2>1 DEF DigestInv, Mem
  <2>. QED BY <1>1, <2>3, <2>4 DEF DigestInv, LogBounded
<1>. QED BY <1>2, <1>3

(* Harvesting the finished streams frees exactly their own deltas. *)
LEMMA HarvestKeepsDigest ==
  ASSUME NEW m, DigestInv(m)
  PROVE  /\ DigestInv(HarvestFinished(m))
         /\ HarvestFinished(m).deltas \subseteq m.deltas
         /\ HarvestFinished(m).events \subseteq m.events
<1>. DEFINE finished == {s \in Streams : m.open[s].finalSeen}
            gone == UNION {m.open[s].seqs : s \in finished}
            opened == [s \in Streams |-> IF s \in finished THEN Absent ELSE m.open[s]]
            h == HarvestFinished(m)
<1>1. m \in Mem
  BY DEF DigestInv
<1>2. h = [m EXCEPT !.open = opened, !.deltas = @ \ gone, !.events = {e \in @ : e.seq \notin gone}]
  BY DEF HarvestFinished
<1>3. \A s \in Streams : s \notin finished => m.open[s].seqs \cap gone = {}
  BY DEF DigestInv
<1>4. opened \in [Streams -> OpenStream]
  BY <1>1 DEF Absent, OpenStream, Mem
<1>. HIDE DEF finished, gone
<1>5. /\ h.open = opened
      /\ h.deltas = m.deltas \ gone
      /\ h.events = {e \in m.events : e.seq \notin gone}
      /\ h \in Mem
  BY <1>1, <1>2, <1>4 DEF Mem
<1>6. \A s \in Streams : h.open[s] = Absent \/ (s \notin finished /\ h.open[s] = m.open[s])
  BY <1>5
<1>7. Absent.seqs = {} /\ Absent.chunks = {}
  BY DEF Absent
<1>. HIDE DEF h, opened
<1>8. \A s \in Streams : h.open[s].seqs \subseteq h.deltas
  BY <1>3, <1>5, <1>6, <1>7 DEF DigestInv
<1>9. /\ \A s \in Streams : h.open[s].seqs # {} => h.open[s].first \in h.open[s].seqs
      /\ \A s \in Streams : h.open[s].chunks # {} => h.open[s].seqs # {}
      /\ \A s, t \in Streams : s # t => h.open[s].seqs \cap h.open[t].seqs = {}
  BY <1>6, <1>7 DEF DigestInv
<1>10. /\ \A d \in h.deltas : d <= MaxSeq
       /\ \A e \in h.events : e.seq <= MaxSeq
  BY <1>5 DEF DigestInv
<1>. QED BY <1>5, <1>8, <1>9, <1>10 DEF DigestInv, h

(* Eviction drops events and records how far; it never touches the digest. *)
LEMMA EvictKeepsDigest ==
  ASSUME NEW m, DigestInv(m)
  PROVE  /\ DigestInv(EvictOldest(m))
         /\ EvictOldest(m).deltas = m.deltas
         /\ EvictOldest(m).events \subseteq m.events
<1>. DEFINE droppable == {e \in m.events : e.seq \notin m.deltas}
            over == Cardinality(m.events) - MEMORY_EVENT_CAP
            dropped == {e \in droppable :
                          Cardinality({f \in droppable : f.seq < e.seq}) < over}
            upTo == Larger(m.evicted, Highest(SeqsOf(dropped)))
<1>1. \/ EvictOldest(m) = m
      \/ /\ dropped # {}
         /\ EvictOldest(m) = [m EXCEPT !.events = @ \ dropped, !.evicted = upTo]
  BY DEF EvictOldest
<1>2. m \in Mem /\ m.events \subseteq Event /\ m.evicted \in Nat
  BY DEF DigestInv, Mem
<1>3. dropped \subseteq m.events
  OBVIOUS
<1>. HIDE DEF dropped
<1>4. ASSUME dropped # {} PROVE upTo \in Nat
  <2>1. SeqsOf(dropped) \in SUBSET Nat /\ SeqsOf(dropped) # {}
    BY <1>2, <1>3, <1>4 DEF SeqsOf, Event
  <2>2. \A q \in SeqsOf(dropped) : q <= MaxSeq
    BY <1>3 DEF SeqsOf, DigestInv
  <2>3. Highest(SeqsOf(dropped)) \in Nat
    BY <2>1, <2>2, HighestIsMax, BoundsAssumption
  <2>. QED BY <1>2, <2>3 DEF Larger
<1>. HIDE DEF upTo
<1>5. ASSUME dropped # {}, EvictOldest(m) = [m EXCEPT !.events = @ \ dropped, !.evicted = upTo]
      PROVE  /\ EvictOldest(m) \in Mem
             /\ EvictOldest(m).deltas = m.deltas
             /\ EvictOldest(m).open = m.open
             /\ EvictOldest(m).events = m.events \ dropped
  BY <1>2, <1>4, <1>5 DEF Mem
<1>6. CASE EvictOldest(m) = m
  BY <1>6
<1>7. CASE dropped # {} /\ EvictOldest(m) = [m EXCEPT !.events = @ \ dropped, !.evicted = upTo]
  BY <1>5, <1>7 DEF DigestInv
<1>. QED BY <1>1, <1>6, <1>7

(* Trimming touches the digest only to release finished streams. *)
LEMMA TrimKeepsDigest ==
  ASSUME NEW m, DigestInv(m)
  PROVE  /\ DigestInv(TrimCache(m))
         /\ TrimCache(m).deltas \subseteq m.deltas
         /\ TrimCache(m).events \subseteq m.events
<1>1. CASE HasStore
  <2>. DEFINE h == HarvestFinished(m)
  <2>1. DigestInv(h) /\ h.deltas \subseteq m.deltas /\ h.events \subseteq m.events
    BY HarvestKeepsDigest
  <2>. HIDE DEF h
  <2>2. /\ DigestInv(EvictOldest(h))
        /\ EvictOldest(h).deltas = h.deltas
        /\ EvictOldest(h).events \subseteq h.events
    BY <2>1, EvictKeepsDigest
  <2>. QED BY <1>1, <2>1, <2>2 DEF TrimCache, h
<1>2. CASE ~ HasStore
  BY <1>2 DEF TrimCache
<1>. QED BY <1>1, <1>2

(* Pushing an event keeps the digest and adds nothing but that event. *)
LEMMA PushKeepsDigest ==
  ASSUME NEW m, DigestInv(m), NEW e \in Event, e.seq <= MaxSeq
  PROVE  /\ DigestInv(Push(m, e))
         /\ Push(m, e).deltas \subseteq m.deltas
         /\ Push(m, e).events \subseteq m.events \cup {e}
<1>. DEFINE p == [m EXCEPT !.events = @ \cup {e}]
<1>1. m \in Mem /\ m.events \cup {e} \in SUBSET Event
  BY DEF DigestInv, Mem
<1>2. /\ p \in Mem
      /\ p.deltas = m.deltas
      /\ p.open = m.open
      /\ p.events = m.events \cup {e}
  BY <1>1 DEF Mem
<1>. HIDE DEF p
<1>3. DigestInv(p)
  BY <1>2 DEF DigestInv
<1>. QED BY <1>2, <1>3, TrimKeepsDigest DEF Push, p

(* A delta with a fresh seq joins its stream and no other. *)
LEMMA NoteDeltaKeepsDigest ==
  ASSUME NEW m, DigestInv(m), NEW s \in Streams, NEW q \in Nat, NEW chunk \in BOOLEAN,
         q <= MaxSeq, q \notin m.deltas
  PROVE  /\ DigestInv(NoteDelta(m, s, q, chunk))
         /\ NoteDelta(m, s, q, chunk).deltas = m.deltas \cup {q}
         /\ NoteDelta(m, s, q, chunk).events = m.events
<1>. DEFINE text == IF chunk THEN {q} ELSE {}
            o == m.open[s]
            o2 == IF o.seqs = {}
                  THEN [first |-> q, chunks |-> text, seqs |-> {q}, finalSeen |-> FALSE]
                  ELSE [o EXCEPT !.chunks = @ \cup text, !.seqs = @ \cup {q}]
            n == NoteDelta(m, s, q, chunk)
<1>1. m \in Mem /\ m.open \in [Streams -> OpenStream] /\ o \in OpenStream
  BY DEF DigestInv, Mem
<1>2. n = [m EXCEPT !.deltas = @ \cup {q}, !.open[s] = o2]
  BY DEF NoteDelta
<1>3. text \subseteq Nat
  OBVIOUS
<1>. HIDE DEF text
<1>4. o2 \in OpenStream /\ q \in o2.seqs /\ o2.seqs \subseteq o.seqs \cup {q}
  BY <1>1, <1>3 DEF OpenStream
<1>5. o2.first \in o2.seqs
  BY <1>1 DEF DigestInv, OpenStream
<1>. HIDE DEF o2, o
<1>6. /\ n \in Mem
      /\ n.deltas = m.deltas \cup {q}
      /\ n.events = m.events
      /\ n.open = [m.open EXCEPT ![s] = o2]
  <2>. DEFINE opened == [m.open EXCEPT ![s] = o2]
  <2>1. opened \in [Streams -> OpenStream]
    BY <1>1, <1>4
  <2>2. n = [m EXCEPT !.deltas = m.deltas \cup {q}, !.open = opened]
    BY <1>1, <1>2 DEF Mem
  <2>3. m.deltas \cup {q} \in SUBSET Nat
    BY <1>1 DEF Mem
  <2>. HIDE DEF opened, n
  <2>. QED BY <1>1, <2>1, <2>2, <2>3 DEF Mem, opened
<1>7. n.open[s] = o2 /\ \A t \in Streams : t # s => n.open[t] = m.open[t]
  BY <1>1, <1>6
<1>. HIDE DEF n
<1>8. \A t \in Streams : n.open[t].seqs \subseteq n.deltas
  BY <1>4, <1>6, <1>7 DEF DigestInv, o
<1>9. \A t \in Streams : n.open[t].seqs # {} => n.open[t].first \in n.open[t].seqs
  BY <1>5, <1>7 DEF DigestInv
<1>10. \A t \in Streams : n.open[t].chunks # {} => n.open[t].seqs # {}
  BY <1>4, <1>7 DEF DigestInv
<1>11. \A t, u \in Streams : t # u => n.open[t].seqs \cap n.open[u].seqs = {}
  <2>1. \A t \in Streams : q \notin m.open[t].seqs
    BY DEF DigestInv
  <2>. QED BY <1>4, <1>7, <2>1 DEF DigestInv, o
<1>12. /\ \A d \in n.deltas : d <= MaxSeq
       /\ \A e \in n.events : e.seq <= MaxSeq
  BY <1>6 DEF DigestInv
<1>. QED BY <1>6, <1>8, <1>9, <1>10, <1>11, <1>12 DEF DigestInv, n

(* Marking a stream finished changes nothing but its mark. *)
LEMMA NoteFinalKeepsDigest ==
  ASSUME NEW m, DigestInv(m), NEW s \in Streams
  PROVE  /\ DigestInv(NoteFinal(m, s))
         /\ NoteFinal(m, s).deltas = m.deltas
         /\ NoteFinal(m, s).events = m.events
<1>. DEFINE o2 == [m.open[s] EXCEPT !.finalSeen = TRUE]
            opened == [m.open EXCEPT ![s] = o2]
            n == NoteFinal(m, s)
<1>1. m \in Mem /\ m.open \in [Streams -> OpenStream] /\ m.open[s] \in OpenStream
  BY DEF DigestInv, Mem
<1>2. CASE n = m
  BY <1>2
<1>3. CASE n # m
  <2>1. n = [m EXCEPT !.open[s].finalSeen = TRUE]
    BY <1>3 DEF NoteFinal
  <2>2. n = [m EXCEPT !.open = opened]
    BY <1>1, <2>1 DEF Mem
  <2>3. /\ o2 \in OpenStream
        /\ o2.seqs = m.open[s].seqs
        /\ o2.chunks = m.open[s].chunks
        /\ o2.first = m.open[s].first
    BY <1>1 DEF OpenStream
  <2>. HIDE DEF o2
  <2>4. opened \in [Streams -> OpenStream] /\ opened[s] = o2
    BY <1>1, <2>3
  <2>5. \A t \in Streams : /\ opened[t].seqs = m.open[t].seqs
                           /\ opened[t].chunks = m.open[t].chunks
                           /\ opened[t].first = m.open[t].first
    BY <1>1, <2>3, <2>4
  <2>. HIDE DEF opened, n
  <2>6. /\ n \in Mem /\ n.open = opened
        /\ n.deltas = m.deltas /\ n.events = m.events
    BY <1>1, <2>2, <2>4 DEF Mem
  <2>. QED BY <2>5, <2>6 DEF DigestInv, n
<1>. QED BY <1>2, <1>3

(* An aggregate takes the seq of a delta of its own stream, so no two       *)
(* aggregates share one.                                                   *)
LEMMA AggregatesAtDeltas ==
  ASSUME NEW m, DigestInv(m)
  PROVE  /\ Aggregates(m) \subseteq Event
         /\ \A a \in Aggregates(m) : a.seq \in m.deltas /\ a.seq <= MaxSeq
         /\ \A a, b \in Aggregates(m) : a.seq = b.seq => a = b
         /\ \A a \in Aggregates(m) : a.kind = "aggregate"
<1>. DEFINE row(s) == [seq |-> m.open[s].first, kind |-> "aggregate", stream |-> s,
                       text |-> m.open[s].chunks]
<1>1. \A a \in Aggregates(m) : \E s \in Streams : m.open[s].chunks # {} /\ a = row(s)
  BY DEF Aggregates
<1>2. ASSUME NEW s \in Streams, m.open[s].chunks # {}
      PROVE  /\ row(s) \in Event
             /\ row(s).seq \in m.open[s].seqs
             /\ row(s).seq \in m.deltas
             /\ row(s).kind = "aggregate"
  <2>1. m.open[s] \in OpenStream
    BY DEF DigestInv, Mem
  <2>2. m.open[s].first \in m.open[s].seqs /\ m.open[s].first \in m.deltas
    BY <1>2 DEF DigestInv
  <2>. QED BY <2>1, <2>2 DEF OpenStream, Event, StoredKinds
<1>3. ASSUME NEW s \in Streams, NEW t \in Streams,
             m.open[s].chunks # {}, m.open[t].chunks # {}, row(s).seq = row(t).seq
      PROVE  s = t
  <2>1. row(s).seq \in m.open[s].seqs /\ row(t).seq \in m.open[t].seqs
    BY <1>2, <1>3
  <2>. HIDE DEF row
  <2>. QED BY <1>3, <2>1 DEF DigestInv
<1>. HIDE DEF row
<1>4. Aggregates(m) \subseteq Event
  BY <1>1, <1>2
<1>5. \A a \in Aggregates(m) : a.seq \in m.deltas /\ a.kind = "aggregate"
  BY <1>1, <1>2
<1>6. \A a, b \in Aggregates(m) : a.seq = b.seq => a = b
  BY <1>1, <1>3
<1>. QED BY <1>4, <1>5, <1>6 DEF DigestInv

(* Closing the turn empties the digest; the cache gains only aggregates. *)
LEMMA CloseKeepsDigest ==
  ASSUME NEW m, DigestInv(m)
  PROVE  /\ DigestInv(CloseStreams(m))
         /\ CloseStreams(m).deltas = {}
         /\ CloseStreams(m).events \subseteq m.events \cup Aggregates(m)
<1>1. CASE m.deltas = {}
  BY <1>1 DEF CloseStreams
<1>2. CASE m.deltas # {}
  <2>. DEFINE kept == {e \in m.events : e.seq \notin m.deltas} \cup Aggregates(m)
              c == [m EXCEPT !.open = NothingOpen, !.deltas = {}, !.events = kept]
  <2>1. CloseStreams(m) = TrimCache(c)
    BY <1>2 DEF CloseStreams
  <2>2. m \in Mem /\ m.events \subseteq Event
    BY DEF DigestInv, Mem
  <2>3. kept \subseteq Event /\ \A e \in kept : e.seq <= MaxSeq
    BY <2>2, AggregatesAtDeltas DEF DigestInv
  <2>4. kept \subseteq m.events \cup Aggregates(m)
    OBVIOUS
  <2>. HIDE DEF kept
  <2>5. NothingOpen \in [Streams -> OpenStream]
    BY DEF NothingOpen, Absent, OpenStream
  <2>6. c \in Mem /\ c.open = NothingOpen /\ c.deltas = {} /\ c.events = kept
    BY <2>2, <2>3, <2>5 DEF Mem
  <2>. HIDE DEF c
  <2>7. \A s \in Streams : c.open[s].seqs = {} /\ c.open[s].chunks = {}
    BY <2>6 DEF NothingOpen, Absent
  <2>8. DigestInv(c)
    BY <2>3, <2>6, <2>7 DEF DigestInv
  <2>9. /\ DigestInv(TrimCache(c))
        /\ TrimCache(c).deltas \subseteq {}
        /\ TrimCache(c).events \subseteq kept
    BY <2>6, <2>8, TrimKeepsDigest
  <2>. QED BY <2>1, <2>4, <2>9
<1>. QED BY <1>1, <1>2

-----------------------------------------------------------------------------
(* The inductive invariant *)

(* The in-memory counter is above everything issued or written; without it  *)
(* nothing is open, and seq_hwm or a row is above everything issued; the    *)
(* in-memory ceiling, when known, is the persisted one.                    *)
SeqInv ==
  /\ nextSeq > 0 => /\ nextSeq > top
                    /\ \A e \in log : e.seq < nextSeq
                    /\ \A d \in mem.deltas : d < nextSeq
  /\ nextSeq = 0 => HasStore /\ mem.deltas = {}
  /\ HasStore => top <= seqHwm \/ \E e \in log : top <= e.seq
  /\ hwm # 0 => hwm = seqHwm

IInv ==
  /\ TypeOK
  /\ DigestInv(mem)
  /\ LogBounded
  /\ SeqInv
  /\ \A e \in log : e.seq \notin mem.deltas
  /\ LogKeyed

(* The next seq is above every seq issued, written or streamed so far. *)
LEMMA NextSeqIsAbove ==
  ASSUME IInv
  PROVE  /\ NextSeqFor \in Nat
         /\ NextSeqFor > top
         /\ \A e \in log : e.seq < NextSeqFor
         /\ \A d \in mem.deltas : d < NextSeqFor
<1>1. CASE nextSeq > 0
  BY <1>1 DEF IInv, TypeOK, SeqInv, NextSeqFor
<1>2. CASE ~ (nextSeq > 0)
  <2>. DEFINE S == SeqsOf(log) \cup {0}
  <2>1. S \in SUBSET Nat /\ \A q \in S : q <= MaxSeq
    BY BoundsAssumption DEF IInv, TypeOK, LogBounded, SeqsOf, Event
  <2>2. Highest(S) \in Nat /\ \A q \in S : q <= Highest(S)
    BY <2>1, HighestIsMax, BoundsAssumption
  <2>3. \A e \in log : e.seq \in Nat /\ e.seq <= Highest(S)
    BY <2>1, <2>2 DEF SeqsOf
  <2>. HIDE DEF S
  <2>4. nextSeq = 0 /\ seqHwm \in Nat /\ top \in Nat
    BY <1>2 DEF IInv, TypeOK
  <2>5. NextSeqFor = Larger(Highest(S), seqHwm) + 1
    BY <1>2 DEF NextSeqFor, S
  <2>6. /\ Larger(Highest(S), seqHwm) \in Nat
        /\ Larger(Highest(S), seqHwm) >= Highest(S)
        /\ Larger(Highest(S), seqHwm) >= seqHwm
    BY <2>2, <2>4 DEF Larger
  <2>7. mem.deltas = {}
    BY <2>4 DEF IInv, SeqInv
  <2>8. top <= seqHwm \/ \E e \in log : top <= e.seq
    BY <2>4 DEF IInv, SeqInv
  <2>9. top <= Larger(Highest(S), seqHwm)
    BY <2>2, <2>3, <2>4, <2>6, <2>8
  <2>. QED BY <2>2, <2>3, <2>4, <2>5, <2>6, <2>7, <2>9
<1>. QED BY <1>1, <1>2

(* Writing back at older seqs never moves the counter. *)
LEMMA CounterAfterOlder ==
  ASSUME NEW q \in Nat, NEW written, SeqsOf(written) \in SUBSET Nat,
         \A w \in SeqsOf(written) : w <= q
  PROVE  CounterAfter(q, written) = q + 1
<1>. DEFINE S == SeqsOf(written) \cup {q}
<1>1. S \in SUBSET Nat /\ S # {} /\ \A y \in S : y <= q
  OBVIOUS
<1>2. Highest(S) \in S /\ \A y \in S : Highest(S) >= y
  BY <1>1, HighestIsMax
<1>3. Highest(S) = q
  BY <1>1, <1>2
<1>. QED BY <1>3 DEF CounterAfter

(* A new session satisfies the invariant. *)
LEMMA InitInv == Init => IInv
<1>. SUFFICES ASSUME Init PROVE IInv
  OBVIOUS
<1>1. NothingOpen \in [Streams -> OpenStream]
  BY DEF NothingOpen, Absent, OpenStream
<1>2. mem \in Mem /\ mem.deltas = {} /\ mem.events = {} /\ mem.open = NothingOpen
  BY <1>1 DEF Init, Mem
<1>3. \A s \in Streams : mem.open[s].seqs = {} /\ mem.open[s].chunks = {}
  BY <1>2 DEF NothingOpen, Absent
<1>4. DigestInv(mem)
  BY <1>2, <1>3 DEF DigestInv
<1>5. TypeOK
  BY <1>2 DEF Init, TypeOK
<1>6. SeqInv
  BY <1>2 DEF Init, SeqInv
<1>. QED BY <1>2, <1>4, <1>5, <1>6 DEF Init, IInv, LogBounded, LogKeyed

(* A Session object with nothing open, whatever it has cached. *)
LEMMA ClearedDigest ==
  ASSUME NEW m \in Mem, m.open = NothingOpen, m.deltas = {},
         \A e \in m.events : e.seq <= MaxSeq
  PROVE  DigestInv(m)
<1>1. \A s \in Streams : m.open[s].seqs = {} /\ m.open[s].chunks = {}
  BY DEF NothingOpen, Absent
<1>. QED BY <1>1 DEF DigestInv

-----------------------------------------------------------------------------
(* Each action keeps the invariant and issues fresh seqs only *)

(* A delta takes a fresh seq, under a ceiling that is already on disk. *)
LEMMA DeltaStep ==
  ASSUME IInv, NEW s \in Streams, NEW chunk \in BOOLEAN, RecordDelta(s, chunk)
  PROVE  IInv' /\ NewSeqIsFresh
<1>. DEFINE q == NextSeqFor
            m == EnsureHydrated(mem)
            n == NoteDelta(m, s, q, chunk)
            e == [seq |-> q, kind |-> "delta", stream |-> s, text |-> IF chunk THEN {q} ELSE {}]
<1>1. /\ q \in Nat /\ q > top /\ q <= MaxSeq
      /\ \A r \in log : r.seq < q
      /\ \A d \in mem.deltas : d < q
  BY NextSeqIsAbove DEF RecordDelta
<1>2. /\ mem' = Push(n, e) /\ nextSeq' = q + 1 /\ ReserveBlock(q) /\ top' = q
      /\ spoken' = [spoken EXCEPT ![s] = @ \cup e.text]
      /\ UNCHANGED <<log, crashLost, crashes, failures>>
  BY DEF RecordDelta
<1>. HIDE DEF q
<1>3. /\ DigestInv(m) /\ m.deltas = mem.deltas
      /\ m.events \subseteq mem.events \cup log
  BY HydrateKeepsDigest DEF IInv, TypeOK
<1>. HIDE DEF m
<1>4. q \notin m.deltas
  BY <1>1, <1>3 DEF IInv, TypeOK, Mem
<1>5. DigestInv(n) /\ n.deltas = m.deltas \cup {q} /\ n.events = m.events
  BY <1>1, <1>3, <1>4, NoteDeltaKeepsDigest
<1>. HIDE DEF n
<1>6. e \in Event /\ e.seq = q /\ e.text \subseteq Nat
  BY <1>1 DEF Event
<1>. HIDE DEF e
<1>7. /\ DigestInv(mem')
      /\ mem'.deltas \subseteq mem.deltas \cup {q}
      /\ mem'.events \subseteq mem.events \cup log \cup {e}
  BY <1>1, <1>2, <1>3, <1>5, <1>6, PushKeepsDigest
<1>8. /\ seqHwm' \in Nat /\ hwm' \in Nat
      /\ hwm' # 0 => hwm' = seqHwm'
      /\ HasStore => q <= seqHwm'
  BY <1>1, <1>2, BlockAssumption DEF ReserveBlock, IInv, TypeOK, SeqInv
<1>9. TypeOK'
  <2>1. spoken' \in [Streams -> SUBSET Nat]
    BY <1>2, <1>6 DEF IInv, TypeOK
  <2>2. mem' \in Mem
    BY <1>7 DEF DigestInv
  <2>. QED BY <1>1, <1>2, <1>8, <2>1, <2>2 DEF IInv, TypeOK
<1>10. SeqInv'
  <2>1. nextSeq' > 0 /\ nextSeq' > top'
    BY <1>1, <1>2
  <2>2. \A r \in log' : r.seq < nextSeq'
    BY <1>1, <1>2 DEF IInv, TypeOK, Event
  <2>3. \A d \in mem'.deltas : d < nextSeq'
    BY <1>1, <1>2, <1>7 DEF IInv, TypeOK, Mem
  <2>. QED BY <1>1, <1>2, <1>8, <2>1, <2>2, <2>3 DEF SeqInv
<1>11. \A r \in log' : r.seq \notin mem'.deltas
  BY <1>1, <1>2, <1>7 DEF IInv, TypeOK, Event
<1>12. LogBounded' /\ LogKeyed'
  BY <1>2 DEF IInv, LogBounded, LogKeyed
<1>13. NewSeqIsFresh
  BY <1>1, <1>6, <1>7 DEF NewSeqIsFresh, SeqsOf
<1>14. DigestInv(mem)'
  BY <1>7 DEF DigestInv
<1>. QED BY <1>9, <1>10, <1>11, <1>12, <1>13, <1>14 DEF IInv

(* An appended row: final or note, on any Session object that shares the   *)
(* digest's seqs with the current one.                                     *)
LEMMA AppendStep ==
  ASSUME IInv, NEW m, DigestInv(m), m.deltas = mem.deltas,
         m.events \subseteq mem.events \cup log,
         NEW e \in Event, e.seq = NextSeqFor, Append(m, e)
  PROVE  IInv' /\ NewSeqIsFresh
<1>. DEFINE q == NextSeqFor
<1>1. /\ q \in Nat /\ q > top /\ q <= MaxSeq /\ e.seq = q
      /\ \A r \in log : r.seq < q
      /\ \A d \in mem.deltas : d < q
  BY NextSeqIsAbove DEF Append
<1>. HIDE DEF q
<1>2. /\ mem' = Push(m, e) /\ nextSeq' = q + 1 /\ top' = q
      /\ log' = log \cup {e} \/ (~HasStore /\ log' = log)
      /\ HasStore => e \in log'
      /\ UNCHANGED <<seqHwm, hwm, spoken, crashLost, crashes, failures>>
  BY <1>1 DEF Append
<1>3. /\ DigestInv(mem')
      /\ mem'.deltas \subseteq mem.deltas
      /\ mem'.events \subseteq mem.events \cup log \cup {e}
  BY <1>1, <1>2, PushKeepsDigest
<1>4. log \subseteq Event /\ log' \subseteq Event
  BY <1>2 DEF IInv, TypeOK
<1>5. \A r \in log' : r.seq < q + 1
  BY <1>1, <1>2, <1>4 DEF Event
<1>6. TypeOK'
  <2>1. mem' \in Mem
    BY <1>3 DEF DigestInv
  <2>. QED BY <1>1, <1>2, <1>4, <2>1 DEF IInv, TypeOK
<1>7. SeqInv'
  <2>1. \A d \in mem'.deltas : d < q + 1
    BY <1>1, <1>3 DEF IInv, TypeOK, Mem
  <2>2. HasStore => \E r \in log' : top' <= r.seq
    BY <1>1, <1>2
  <2>3. hwm' # 0 => hwm' = seqHwm'
    BY <1>2 DEF IInv, SeqInv
  <2>. QED BY <1>1, <1>2, <1>5, <2>1, <2>2, <2>3 DEF SeqInv
<1>8. \A r \in log' : r.seq \notin mem'.deltas
  <2>1. q \notin mem.deltas
    BY <1>1
  <2>. QED BY <1>1, <1>2, <1>3, <2>1 DEF IInv
<1>9. LogBounded' /\ LogKeyed'
  <2>1. \A r \in log : r.seq # q
    BY <1>1, <1>4 DEF Event
  <2>. QED BY <1>1, <1>2, <2>1 DEF IInv, LogBounded, LogKeyed
<1>10. NewSeqIsFresh
  BY <1>1, <1>3 DEF NewSeqIsFresh, SeqsOf
<1>11. DigestInv(mem)'
  BY <1>3 DEF DigestInv
<1>. QED BY <1>6, <1>7, <1>8, <1>9, <1>10, <1>11 DEF IInv

(* A final is appended at a fresh seq. *)
LEMMA FinalStep ==
  ASSUME IInv, NEW s \in Streams, NEW given \in BOOLEAN, RecordFinal(s, given)
  PROVE  IInv' /\ NewSeqIsFresh
<1>. DEFINE h == EnsureHydrated(mem)
            m == NoteFinal(h, s)
<1>1. /\ DigestInv(h) /\ h.deltas = mem.deltas
      /\ h.events \subseteq mem.events \cup log
  BY HydrateKeepsDigest DEF IInv, TypeOK
<1>2. DigestInv(m) /\ m.deltas = h.deltas /\ m.events = h.events
  BY <1>1, NoteFinalKeepsDigest
<1>3. Append(m, FinalEvent(m, s, given))
  BY DEF RecordFinal
<1>. HIDE DEF m, h
<1>4. FinalText(m, s, given) \subseteq Nat
  BY <1>2 DEF FinalText, IInv, TypeOK, DigestInv, Mem, OpenStream
<1>5. FinalEvent(m, s, given) \in Event /\ FinalEvent(m, s, given).seq = NextSeqFor
  BY <1>4, NextSeqIsAbove DEF FinalEvent, Event, StoredKinds
<1>. QED BY <1>1, <1>2, <1>3, <1>5, AppendStep

(* Any other stored event is appended at a fresh seq. *)
LEMMA NoteStep ==
  ASSUME IInv, RecordNote
  PROVE  IInv' /\ NewSeqIsFresh
<1>. DEFINE h == EnsureHydrated(mem)
            e == [seq |-> NextSeqFor, kind |-> "note", stream |-> NoStream, text |-> {}]
<1>1. /\ DigestInv(h) /\ h.deltas = mem.deltas
      /\ h.events \subseteq mem.events \cup log
  BY HydrateKeepsDigest DEF IInv, TypeOK
<1>2. Append(h, e)
  BY DEF RecordNote
<1>3. e \in Event /\ e.seq = NextSeqFor
  BY NextSeqIsAbove DEF Event, StoredKinds
<1>. HIDE DEF h, e
<1>. QED BY <1>1, <1>2, <1>3, AppendStep

(* What a closing turn works on: the cache with the status pushed, and      *)
(* aggregates that all go back below the status.                           *)
LEMMA ClosingTurn ==
  ASSUME IInv, EndEvent.seq <= MaxSeq
  PROVE  LET m == Push(EnsureHydrated(mem), EndEvent)
         IN  /\ DigestInv(m)
             /\ m.deltas \subseteq mem.deltas
             /\ m.events \subseteq mem.events \cup log \cup {EndEvent}
             /\ EndEvent \in Event /\ EndEvent.seq = NextSeqFor
             /\ \A W \in SUBSET Aggregates(m) :
                  /\ W \subseteq Event
                  /\ \A a \in W : a.seq \in mem.deltas /\ a.seq < EndEvent.seq
                  /\ CounterAfter(EndEvent.seq, W) = EndEvent.seq + 1
                  /\ \A a, b \in log \cup {EndEvent} \cup W : a.seq = b.seq => a = b
                  /\ \A a \in log \cup {EndEvent} \cup W : a.seq <= EndEvent.seq
<1>. DEFINE h == EnsureHydrated(mem)
            m == Push(h, EndEvent)
<1>1. /\ DigestInv(h) /\ h.deltas = mem.deltas
      /\ h.events \subseteq mem.events \cup log
  BY HydrateKeepsDigest DEF IInv, TypeOK
<1>2. EndEvent \in Event /\ EndEvent.seq = NextSeqFor
  BY NextSeqIsAbove DEF EndEvent, Event, StoredKinds
<1>. HIDE DEF h
<1>3. DigestInv(m) /\ m.deltas \subseteq h.deltas /\ m.events \subseteq h.events \cup {EndEvent}
  BY <1>1, <1>2, PushKeepsDigest
<1>. HIDE DEF m
<1>4. ASSUME NEW W \in SUBSET Aggregates(m)
      PROVE  /\ W \subseteq Event
             /\ \A a \in W : a.seq \in mem.deltas /\ a.seq < EndEvent.seq
             /\ CounterAfter(EndEvent.seq, W) = EndEvent.seq + 1
             /\ \A a, b \in log \cup {EndEvent} \cup W : a.seq = b.seq => a = b
             /\ \A a \in log \cup {EndEvent} \cup W : a.seq <= EndEvent.seq
  <2>1. /\ W \subseteq Event
        /\ \A a \in W : a.seq \in m.deltas
        /\ \A a, b \in W : a.seq = b.seq => a = b
    BY <1>3, AggregatesAtDeltas
  <2>2. \A a \in W : a.seq \in Nat /\ a.seq \in mem.deltas /\ a.seq < EndEvent.seq
    BY <1>1, <1>2, <1>3, <2>1, NextSeqIsAbove DEF Event
  <2>3. \A a \in log : a.seq \in Nat /\ a.seq < EndEvent.seq /\ a.seq \notin mem.deltas
    BY <1>2, NextSeqIsAbove DEF IInv, TypeOK, Event
  <2>4. EndEvent.seq \in Nat
    BY <1>2 DEF Event
  <2>5. SeqsOf(W) \in SUBSET Nat /\ \A w \in SeqsOf(W) : w <= EndEvent.seq
    BY <2>2, <2>4 DEF SeqsOf
  <2>6. CounterAfter(EndEvent.seq, W) = EndEvent.seq + 1
    BY <2>4, <2>5, CounterAfterOlder
  <2>7. \A a, b \in log \cup {EndEvent} \cup W : a.seq = b.seq => a = b
    BY <2>1, <2>2, <2>3, <2>4 DEF IInv, LogKeyed
  <2>8. \A a \in log \cup {EndEvent} \cup W : a.seq <= EndEvent.seq
    BY <2>2, <2>3, <2>4
  <2>. QED BY <2>1, <2>2, <2>6, <2>7, <2>8
<1>. QED BY <1>1, <1>2, <1>3, <1>4 DEF m, h

(* The end of a turn writes back at seqs its own deltas hold, which no row  *)
(* has: the primary key holds and the counter does not move.               *)
LEMMA EndStep ==
  ASSUME IInv, RecordEnd
  PROVE  IInv' /\ NewSeqIsFresh
<1>. DEFINE m == Push(EnsureHydrated(mem), EndEvent)
            W == IF HasStore THEN Aggregates(m) ELSE {}
            q == EndEvent.seq
<1>1. q <= MaxSeq
  BY DEF RecordEnd
<1>2. /\ DigestInv(m)
      /\ m.events \subseteq mem.events \cup log \cup {EndEvent}
      /\ EndEvent \in Event /\ q = NextSeqFor
      /\ W \subseteq Event
      /\ CounterAfter(q, W) = q + 1
      /\ \A a, b \in log \cup {EndEvent} \cup W : a.seq = b.seq => a = b
      /\ \A a \in log \cup {EndEvent} \cup W : a.seq <= q
  <2>1. W \in SUBSET Aggregates(m)
    OBVIOUS
  <2>. HIDE DEF W
  <2>. QED BY <1>1, <2>1, ClosingTurn
<1>3. /\ nextSeq' = q + 1 /\ mem' = CloseStreams(m) /\ top' = q
      /\ log' = log \cup {EndEvent} \cup W \/ (~HasStore /\ log' = log)
      /\ HasStore => EndEvent \in log'
      /\ UNCHANGED <<seqHwm, hwm, spoken, crashLost, crashes, failures>>
  BY <1>2 DEF RecordEnd
<1>4. /\ DigestInv(mem') /\ mem'.deltas = {}
      /\ mem'.events \subseteq m.events \cup Aggregates(m)
      /\ \A a \in Aggregates(m) : a.kind = "aggregate"
  BY <1>2, <1>3, CloseKeepsDigest, AggregatesAtDeltas
<1>. HIDE DEF m, W, q
<1>5. q \in Nat /\ q > top /\ log \subseteq Event
  BY <1>2, NextSeqIsAbove DEF IInv, TypeOK
<1>6. log' \subseteq Event /\ \A r \in log' : r.seq <= q /\ r.seq \in Nat
  BY <1>2, <1>3, <1>5 DEF Event
<1>7. TypeOK'
  <2>1. mem' \in Mem
    BY <1>4 DEF DigestInv
  <2>. QED BY <1>3, <1>5, <1>6, <2>1 DEF IInv, TypeOK
<1>8. SeqInv'
  <2>1. HasStore => \E r \in log' : top' <= r.seq
    BY <1>3, <1>5 DEF q
  <2>2. hwm' # 0 => hwm' = seqHwm'
    BY <1>3 DEF IInv, SeqInv
  <2>. QED BY <1>3, <1>4, <1>5, <1>6, <2>1, <2>2 DEF SeqInv
<1>9. LogBounded' /\ LogKeyed'
  <2>1. LogKeyed'
    BY <1>2, <1>3 DEF LogKeyed
  <2>2. LogBounded'
    BY <1>1, <1>5, <1>6, BoundsAssumption DEF LogBounded
  <2>. QED BY <2>1, <2>2
<1>10. NewSeqIsFresh
  BY <1>2, <1>4, <1>5 DEF NewSeqIsFresh, SeqsOf, q
<1>11. DigestInv(mem)'
  BY <1>4 DEF DigestInv
<1>. QED BY <1>4, <1>7, <1>8, <1>9, <1>10, <1>11 DEF IInv

(* A final that could not be written has spent its seq and issued nothing. *)
LEMMA FinalFailsStep ==
  ASSUME IInv, NEW s \in Streams, NEW given \in BOOLEAN, FinalFails(s, given)
  PROVE  IInv' /\ NewSeqIsFresh
<1>. DEFINE h == EnsureHydrated(mem)
<1>1. /\ DigestInv(h) /\ h.deltas = mem.deltas
      /\ h.events \subseteq mem.events \cup log
  BY HydrateKeepsDigest DEF IInv, TypeOK
<1>2. /\ mem' = NoteFinal(h, s)
      /\ nextSeq' = NextSeqFor + 1
      /\ failures' = failures + 1
      /\ UNCHANGED <<log, seqHwm, hwm, top, spoken, crashLost, crashes>>
  BY DEF FinalFails
<1>. HIDE DEF h
<1>3. DigestInv(mem') /\ mem'.deltas = mem.deltas /\ mem'.events \subseteq mem.events \cup log
  BY <1>1, <1>2, NoteFinalKeepsDigest
<1>4. TypeOK'
  <2>1. mem' \in Mem
    BY <1>3 DEF DigestInv
  <2>. QED BY <1>2, <2>1, NextSeqIsAbove DEF IInv, TypeOK
<1>5. SeqInv'
  <2>1. nextSeq' > 0 /\ nextSeq' > top'
    BY <1>2, NextSeqIsAbove DEF IInv, TypeOK
  <2>2. \A e \in log' : e.seq < nextSeq'
    BY <1>2, NextSeqIsAbove DEF IInv, TypeOK, Event
  <2>3. \A d \in mem'.deltas : d < nextSeq'
    BY <1>2, <1>3, NextSeqIsAbove DEF IInv, TypeOK, Mem
  <2>. QED BY <1>2, <2>1, <2>2, <2>3 DEF IInv, SeqInv
<1>6. NewSeqIsFresh
  BY <1>3 DEF NewSeqIsFresh, SeqsOf
<1>7. DigestInv(mem)'
  BY <1>3 DEF DigestInv
<1>. QED BY <1>2, <1>3, <1>4, <1>5, <1>6, <1>7 DEF IInv, LogBounded, LogKeyed

(* A closing turn that could write only some aggregates keeps the key. *)
LEMMA CloseFailsStep ==
  ASSUME IInv, CloseFails
  PROVE  IInv' /\ NewSeqIsFresh
<1>. DEFINE m == Push(EnsureHydrated(mem), EndEvent)
            q == EndEvent.seq
<1>1. q <= MaxSeq
  BY DEF CloseFails
<1>2. PICK failed \in Aggregates(m) :
        /\ nextSeq' = CounterAfter(q, {a \in Aggregates(m) : a.seq < failed.seq})
        /\ log' = log \cup {EndEvent} \cup {a \in Aggregates(m) : a.seq < failed.seq}
  BY DEF CloseFails
<1>. DEFINE W == {a \in Aggregates(m) : a.seq < failed.seq}
<1>3. /\ DigestInv(m)
      /\ m.events \subseteq mem.events \cup log \cup {EndEvent}
      /\ EndEvent \in Event /\ q = NextSeqFor
      /\ W \subseteq Event
      /\ CounterAfter(q, W) = q + 1
      /\ \A a, b \in log \cup {EndEvent} \cup W : a.seq = b.seq => a = b
      /\ \A a \in log \cup {EndEvent} \cup W : a.seq <= q
  <2>1. W \in SUBSET Aggregates(m)
    OBVIOUS
  <2>. HIDE DEF W
  <2>. QED BY <1>1, <2>1, ClosingTurn
<1>4. /\ mem' = [m EXCEPT !.open = NothingOpen, !.deltas = {}]
      /\ top' = q
      /\ failures' = failures + 1
      /\ UNCHANGED <<seqHwm, hwm, spoken, crashLost, crashes>>
  BY DEF CloseFails
<1>. HIDE DEF m
<1>5. DigestInv(mem') /\ mem'.deltas = {} /\ mem'.events = m.events
  <2>1. NothingOpen \in [Streams -> OpenStream]
    BY DEF NothingOpen, Absent, OpenStream
  <2>2. /\ mem' \in Mem /\ mem'.open = NothingOpen
        /\ mem'.deltas = {} /\ mem'.events = m.events
    BY <1>3, <1>4, <2>1 DEF DigestInv, Mem
  <2>3. \A e \in mem'.events : e.seq <= MaxSeq
    BY <1>3, <2>2 DEF DigestInv
  <2>. QED BY <2>2, <2>3, ClearedDigest
<1>6. nextSeq' = q + 1 /\ log' = log \cup {EndEvent} \cup W
  BY <1>2, <1>3
<1>. HIDE DEF W
<1>7. q \in Nat /\ q > top /\ log \subseteq Event
  BY <1>3, NextSeqIsAbove DEF IInv, TypeOK
<1>. HIDE DEF q
<1>8. log' \subseteq Event /\ \A r \in log' : r.seq <= q /\ r.seq \in Nat
  BY <1>3, <1>6, <1>7 DEF Event
<1>9. TypeOK'
  <2>1. mem' \in Mem
    BY <1>5 DEF DigestInv
  <2>. QED BY <1>4, <1>6, <1>7, <1>8, <2>1 DEF IInv, TypeOK
<1>10. SeqInv'
  <2>1. \E r \in log' : top' <= r.seq
    BY <1>4, <1>6, <1>7 DEF q
  <2>2. hwm' # 0 => hwm' = seqHwm'
    BY <1>4 DEF IInv, SeqInv
  <2>. QED BY <1>4, <1>5, <1>6, <1>7, <1>8, <2>1, <2>2 DEF SeqInv
<1>11. LogBounded' /\ LogKeyed'
  <2>1. LogKeyed'
    BY <1>3, <1>6 DEF LogKeyed
  <2>2. LogBounded'
    BY <1>1, <1>7, <1>8, BoundsAssumption DEF LogBounded
  <2>. QED BY <2>1, <2>2
<1>12. NewSeqIsFresh
  BY <1>3, <1>5, <1>7 DEF NewSeqIsFresh, SeqsOf, q
<1>13. DigestInv(mem)'
  BY <1>5 DEF DigestInv
<1>. QED BY <1>5, <1>9, <1>10, <1>11, <1>12, <1>13 DEF IInv

(* Loading the tail after a restart issues nothing. *)
LEMMA AccessStep ==
  ASSUME IInv, Access
  PROVE  IInv' /\ NewSeqIsFresh
<1>1. mem' = EnsureHydrated(mem)
  BY DEF Access
<1>2. /\ DigestInv(mem') /\ mem'.deltas = mem.deltas
      /\ mem'.events \subseteq mem.events \cup log
  BY <1>1, HydrateKeepsDigest DEF IInv, TypeOK
<1>3. UNCHANGED <<log, seqHwm, nextSeq, hwm, top, spoken, crashLost, crashes, failures>>
  BY DEF Access
<1>4. TypeOK'
  BY <1>2, <1>3 DEF IInv, TypeOK, DigestInv
<1>5. SeqInv'
  BY <1>2, <1>3 DEF IInv, SeqInv
<1>6. NewSeqIsFresh
  BY <1>2 DEF NewSeqIsFresh, SeqsOf
<1>7. DigestInv(mem)'
  BY <1>2 DEF DigestInv
<1>. QED BY <1>2, <1>3, <1>4, <1>5, <1>6, <1>7 DEF IInv, LogBounded, LogKeyed

(* A boot over any rows that extend the log keeps the invariant: the rows   *)
(* and seq_hwm are enough to continue the numbering.                       *)
LEMMA BootStep ==
  ASSUME IInv, NEW rows, rows \subseteq Event, log \subseteq rows,
         \A r \in rows : r.seq <= MaxSeq,
         \A r, u \in rows : r.seq = u.seq => r = u,
         Boot(rows)
  PROVE  IInv' /\ NewSeqIsFresh
<1>1. /\ HasStore /\ log' = rows /\ nextSeq' = 0 /\ hwm' = 0
      /\ mem' = [events |-> {}, evicted |-> 0, open |-> NothingOpen, deltas |-> {}, loaded |-> FALSE]
      /\ crashes' = crashes + 1
      /\ crashLost' = (UNION {spoken[s] : s \in Streams}) \ TextOf(rows)
      /\ UNCHANGED <<seqHwm, top, spoken, failures>>
  BY DEF Boot
<1>2. NothingOpen \in [Streams -> OpenStream]
  BY DEF NothingOpen, Absent, OpenStream
<1>3. /\ mem' \in Mem /\ mem'.open = NothingOpen
      /\ mem'.deltas = {} /\ mem'.events = {}
  BY <1>1, <1>2 DEF Mem
<1>4. DigestInv(mem')
  BY <1>3, ClearedDigest
<1>5. crashLost' \subseteq Nat
  BY <1>1 DEF IInv, TypeOK
<1>6. TypeOK'
  BY <1>1, <1>3, <1>5 DEF IInv, TypeOK
<1>7. SeqInv'
  BY <1>1, <1>3 DEF IInv, SeqInv
<1>8. LogBounded' /\ LogKeyed'
  BY <1>1 DEF LogBounded, LogKeyed
<1>9. DigestInv(mem)'
  BY <1>4 DEF DigestInv
<1>. QED BY <1>3, <1>6, <1>7, <1>8, <1>9 DEF IInv, NewSeqIsFresh

(* Dying between the rows of a closing turn keeps the key and the numbering. *)
LEMMA CrashInCloseStep ==
  ASSUME IInv, CrashInClose
  PROVE  IInv' /\ NewSeqIsFresh
<1>. DEFINE m == Push(EnsureHydrated(mem), EndEvent)
<1>1. EndEvent.seq <= MaxSeq
  BY DEF CrashInClose
<1>2. PICK missing \in Aggregates(m) :
        Boot(log \cup {EndEvent} \cup {a \in Aggregates(m) : a.seq < missing.seq})
  BY DEF CrashInClose
<1>. DEFINE W == {a \in Aggregates(m) : a.seq < missing.seq}
            rows == log \cup {EndEvent} \cup W
<1>3. /\ W \subseteq Event /\ EndEvent \in Event
      /\ \A a, b \in rows : a.seq = b.seq => a = b
      /\ \A a \in rows : a.seq <= EndEvent.seq
  <2>1. W \in SUBSET Aggregates(m)
    OBVIOUS
  <2>. HIDE DEF W
  <2>. QED BY <1>1, <2>1, ClosingTurn
<1>4. Boot(rows)
  BY <1>2
<1>. HIDE DEF W, m
<1>5. rows \subseteq Event /\ log \subseteq rows
  BY <1>3 DEF IInv, TypeOK
<1>. HIDE DEF rows
<1>6. \A r \in rows : r.seq <= MaxSeq
  BY <1>1, <1>3, <1>5, BoundsAssumption DEF Event
<1>. QED BY <1>3, <1>4, <1>5, <1>6, BootStep

(* Every step keeps the invariant, and issues fresh seqs only. *)
LEMMA NextStep == IInv /\ [Next]_vars => IInv' /\ (NewSeqIsFresh \/ UNCHANGED vars)
<1>. SUFFICES ASSUME IInv, [Next]_vars PROVE IInv' /\ (NewSeqIsFresh \/ UNCHANGED vars)
  OBVIOUS
<1>1. CASE \E s \in Streams, chunk \in BOOLEAN : RecordDelta(s, chunk)
  BY <1>1, DeltaStep
<1>2. CASE \E s \in Streams, given \in BOOLEAN : RecordFinal(s, given)
  BY <1>2, FinalStep
<1>3. CASE RecordNote
  BY <1>3, NoteStep
<1>4. CASE RecordEnd
  BY <1>4, EndStep
<1>5. CASE \E s \in Streams, given \in BOOLEAN : FinalFails(s, given)
  BY <1>5, FinalFailsStep
<1>6. CASE CloseFails
  BY <1>6, CloseFailsStep
<1>7. CASE Access
  BY <1>7, AccessStep
<1>8. CASE Crash
  BY <1>8, BootStep DEF Crash, IInv, TypeOK, LogBounded, LogKeyed
<1>9. CASE CrashInClose
  BY <1>9, CrashInCloseStep
<1>10. CASE UNCHANGED vars
  <2>1. UNCHANGED <<log, seqHwm, nextSeq, hwm, mem, top, spoken, crashLost, crashes, failures>>
    BY <1>10 DEF vars
  <2>. QED BY <2>1 DEF vars, IInv, TypeOK, DigestInv, LogBounded, SeqInv, LogKeyed
<1>. QED BY <1>1, <1>2, <1>3, <1>4, <1>5, <1>6, <1>7, <1>8, <1>9, <1>10 DEF Next

(* The invariant holds in every reachable state. *)
LEMMA Invariance == Spec => []IInv
<1>1. IInv /\ [Next]_vars => IInv'
  BY NextStep
<1>. QED BY InitInv, <1>1, PTL DEF Spec

(* Every variable of the log keeps its type, whatever crashes and whatever  *)
(* writes fail.                                                            *)
THEOREM TypeCorrect == Spec => []TypeOK
<1>1. IInv => TypeOK
  BY DEF IInv
<1>. QED BY Invariance, <1>1, PTL

(* The primary key of the events table is never violated: an aggregate      *)
(* written out of order always finds its slot free.                        *)
THEOREM LogStaysKeyed == Spec => []LogKeyed
<1>1. IInv => LogKeyed
  BY DEF IInv
<1>. QED BY Invariance, <1>1, PTL

(* The seq issued next is above every seq ever issued, crashes included.    *)
THEOREM NextSeqStaysAbove == Spec => []SeqAboveIssued
<1>1. IInv => SeqAboveIssued
  BY NextSeqIsAbove DEF SeqAboveIssued
<1>. QED BY Invariance, <1>1, PTL

(* No seq is ever issued twice, across any number of restarts and failed    *)
(* writes: a client that dedups by seq never discards a new event.         *)
THEOREM NoSeqReissued == Spec => SeqNeverReissued
<1>1. IInv /\ [Next]_vars => [NewSeqIsFresh]_vars
  BY NextStep
<1>. QED BY Invariance, <1>1, PTL DEF Spec, SeqNeverReissued
-----------------------------------------------------------------------------
(* The cache against the rows: the inductive invariant of ReplayIsWhole     *)
(*                                                                         *)
(* m is a Session whose tail is loaded, rows the rows of its log, words the *)
(* text each stream has spoken, and ok says that no write has failed.       *)

(* A seq names one cached event, and every delta the digest tracks has one. *)
CacheKeyed(m) ==
  /\ m.loaded
  /\ \A e \in m.events : e.seq > 0
  /\ \A e, f \in m.events : e.seq = f.seq => e = f
  /\ \A d \in m.deltas : \E e \in m.events : e.seq = d

(* An open stream starts at its first delta, and each chunk the digest has *)
(* gathered is the text of a cached delta of that stream.                  *)
ChunksCached(m) ==
  \A s \in Streams :
    /\ \A x \in m.open[s].seqs : m.open[s].first <= x
    /\ \A x \in m.open[s].chunks :
         x \in m.open[s].seqs /\ \E d \in m.events : d.seq = x /\ x \in d.text

(* A cached delta carries at most its own chunk; until a write fails it     *)
(* belongs to an open stream whose digest has that chunk.                  *)
DeltasOpen(m, ok) ==
  \A d \in m.events : d.kind = "delta" =>
    /\ d.text \subseteq {d.seq}
    /\ ok => \E s \in Streams :
               d.seq \in m.open[s].seqs /\ d.text \subseteq m.open[s].chunks

(* Nothing is cached or stored that was not said, and of what a stream has *)
(* said only its own deltas are still open.                                *)
TextSaid(m, rows, words) ==
  /\ \A e \in m.events \cup rows : e.text \subseteq UNION {words[s] : s \in Streams}
  /\ \A s \in Streams : /\ m.open[s].chunks \subseteq words[s]
                        /\ words[s] \cap m.deltas \subseteq m.open[s].seqs

(* With a store every cached event but a delta is a row, no row is a delta, *)
(* and no row or other event sits at the seq of an open delta.             *)
RowsWritten(m, rows) ==
  /\ \A e \in m.events : e.kind # "delta" => (HasStore => e \in rows) /\ e.seq \notin m.deltas
  /\ \A r \in rows : HasStore /\ r.kind # "delta" /\ r.seq > 0 /\ r.seq \notin m.deltas

(* A row beyond the evicted part has an event at its seq in the cache: the  *)
(* row itself, or, after a failed close, one of the deltas that it stands   *)
(* for, with every chunk of the row still cached behind it.                *)
RowsCached(m, rows) ==
  \A r \in rows :
    /\ r.seq <= m.evicted \/ \E e \in m.events : e.seq = r.seq
    /\ \A e \in m.events : e.seq = r.seq =>
         \/ e = r
         \/ \A x \in r.text :
              \E d \in m.events : d.seq >= r.seq /\ d.seq \notin m.deltas /\ x \in d.text

(* A finished stream's final carries what the digest gathered, and only the *)
(* deltas of a finished stream can stand in a row while they are open.      *)
FinishedWritten(m, rows, ok) ==
  /\ \A s \in Streams : ok /\ m.open[s].finalSeen =>
       m.open[s].chunks \subseteq TextOf(rows \cup {e \in m.events : e.kind # "delta"})
  /\ \A x \in TextOf(rows) \cap m.deltas :
       \E s \in Streams : m.open[s].finalSeen /\ x \in m.open[s].seqs

CacheInv(m, rows, words, ok) ==
  /\ DigestInv(m)
  /\ rows \subseteq Event
  /\ CacheKeyed(m)
  /\ ChunksCached(m)
  /\ DeltasOpen(m, ok)
  /\ TextSaid(m, rows, words)
  /\ RowsWritten(m, rows)
  /\ RowsCached(m, rows)

Harvested(m) == \A s \in Streams : ~m.open[s].finalSeen

-----------------------------------------------------------------------------
(* Texts *)

(* A text is in a set of events when one of them carries it. *)
LEMMA TextOfMember ==
  ASSUME NEW evs, NEW x
  PROVE  x \in TextOf(evs) <=> \E e \in evs : x \in e.text
BY DEF TextOf

(* Harvesting the finished streams takes away only what their finals have. *)
LEMMA HarvestKeepsCache ==
  ASSUME NEW m, NEW rows, NEW words, NEW ok \in BOOLEAN, HasStore,
         CacheInv(m, rows, words, ok), FinishedWritten(m, rows, ok)
  PROVE  LET h == HarvestFinished(m)
         IN  /\ CacheInv(h, rows, words, ok)
             /\ FinishedWritten(h, rows, ok)
             /\ Harvested(h)
             /\ ok => TextOf(m.events) \subseteq TextOf(h.events) \cup TextOf(rows)
<1>. DEFINE finished == {s \in Streams : m.open[s].finalSeen}
            gone == UNION {m.open[s].seqs : s \in finished}
            opened == [s \in Streams |-> IF s \in finished THEN Absent ELSE m.open[s]]
            h == HarvestFinished(m)
<1>1. m \in Mem
  BY DEF CacheInv, DigestInv
<1>2. h = [m EXCEPT !.open = opened, !.deltas = @ \ gone, !.events = {e \in @ : e.seq \notin gone}]
  BY DEF HarvestFinished
<1>3. \A x : x \in gone <=> \E s \in Streams : m.open[s].finalSeen /\ x \in m.open[s].seqs
  OBVIOUS
<1>4. \A s \in Streams : s \in finished <=> m.open[s].finalSeen
  OBVIOUS
<1>. HIDE DEF gone, finished
<1>5. /\ h.open = opened
      /\ h.deltas = m.deltas \ gone
      /\ h.events = {e \in m.events : e.seq \notin gone}
      /\ h.loaded = m.loaded
      /\ h.evicted = m.evicted
  BY <1>1, <1>2 DEF Mem
<1>6. \A s \in Streams : \/ m.open[s].finalSeen /\ h.open[s] = Absent
                         \/ ~m.open[s].finalSeen /\ h.open[s] = m.open[s]
  BY <1>4, <1>5
<1>7. Absent.seqs = {} /\ Absent.chunks = {} /\ Absent.finalSeen = FALSE
  BY DEF Absent
<1>8. DigestInv(h)
  BY HarvestKeepsDigest DEF CacheInv
<1>. HIDE DEF h, opened
<1>9. \A s \in Streams : ~m.open[s].finalSeen => m.open[s].seqs \cap gone = {}
  BY <1>3 DEF CacheInv, DigestInv
<1>10. gone \subseteq m.deltas
  BY <1>3 DEF CacheInv, DigestInv
<1>11. CacheKeyed(h)
  BY <1>5 DEF CacheInv, CacheKeyed
<1>12. ChunksCached(h)
  BY <1>5, <1>6, <1>7, <1>9 DEF CacheInv, ChunksCached
<1>13. DeltasOpen(h, ok)
  BY <1>3, <1>5, <1>6 DEF CacheInv, DeltasOpen
<1>14. TextSaid(h, rows, words)
  <2>1. \A s \in Streams : h.open[s].chunks \subseteq words[s]
    BY <1>6, <1>7 DEF CacheInv, TextSaid
  <2>2. \A s \in Streams : words[s] \cap h.deltas \subseteq h.open[s].seqs
    BY <1>3, <1>5, <1>6 DEF CacheInv, TextSaid
  <2>3. \A e \in h.events \cup rows : e.text \subseteq UNION {words[s] : s \in Streams}
    BY <1>5 DEF CacheInv, TextSaid
  <2>. QED BY <2>1, <2>2, <2>3 DEF TextSaid
<1>15. RowsWritten(h, rows)
  BY <1>5 DEF CacheInv, RowsWritten
<1>16. RowsCached(h, rows)
  <2>1. \A r \in rows : r.seq \notin gone
    BY <1>10 DEF CacheInv, RowsWritten
  <2>2. ASSUME NEW r \in rows
        PROVE  r.seq <= h.evicted \/ \E e \in h.events : e.seq = r.seq
    BY <1>5, <2>1 DEF CacheInv, RowsCached
  <2>3. ASSUME NEW r \in rows, NEW e \in h.events, e.seq = r.seq, e # r, NEW x \in r.text
        PROVE  \E d \in h.events : d.seq >= r.seq /\ d.seq \notin h.deltas /\ x \in d.text
    <3>1. PICK d \in m.events : d.seq >= r.seq /\ d.seq \notin m.deltas /\ x \in d.text
      BY <1>5, <2>3 DEF CacheInv, RowsCached
    <3>. QED BY <1>5, <1>10, <3>1
  <2>. QED BY <2>2, <2>3 DEF RowsCached
<1>17. Harvested(h)
  BY <1>6, <1>7 DEF Harvested
<1>18. FinishedWritten(h, rows, ok)
  <2>1. TextOf(rows) \cap h.deltas = {}
    BY <1>3, <1>5 DEF FinishedWritten
  <2>. QED BY <1>17, <2>1 DEF Harvested, FinishedWritten
<1>19. ASSUME ok, NEW e \in m.events, NEW x \in e.text
       PROVE  x \in TextOf(h.events) \cup TextOf(rows)
  <2>1. CASE e.seq \notin gone
    BY <1>5, <2>1, TextOfMember
  <2>2. CASE e.kind # "delta"
    BY <2>2, TextOfMember DEF CacheInv, RowsWritten
  <2>3. CASE e.seq \in gone /\ e.kind = "delta"
    <3>1. PICK s \in Streams : m.open[s].finalSeen /\ e.seq \in m.open[s].seqs
      BY <1>3, <2>3
    <3>2. PICK t \in Streams : e.seq \in m.open[t].seqs /\ x \in m.open[t].chunks
      BY <1>19, <2>3 DEF CacheInv, DeltasOpen
    <3>3. s = t
      BY <3>1, <3>2 DEF CacheInv, DigestInv
    <3>4. x \in TextOf(rows \cup {f \in m.events : f.kind # "delta"})
      BY <1>19, <3>1, <3>2, <3>3 DEF FinishedWritten
    <3>5. \A f \in m.events : f.kind # "delta" => f \in rows
      BY DEF CacheInv, RowsWritten
    <3>. QED BY <3>4, <3>5, TextOfMember
  <2>. QED BY <2>1, <2>2, <2>3
<1>20. ok => TextOf(m.events) \subseteq TextOf(h.events) \cup TextOf(rows)
  BY <1>19, TextOfMember
<1>21. CacheInv(h, rows, words, ok)
  BY <1>8, <1>11, <1>12, <1>13, <1>14, <1>15, <1>16 DEF CacheInv
<1>. QED BY <1>17, <1>18, <1>20, <1>21 DEF h

(* Events that share no seq are finite: their seqs are bounded. *)
LEMMA KeyedIsFinite ==
  ASSUME NEW evs, evs \subseteq Event,
         \A e, f \in evs : e.seq = f.seq => e = f,
         \A e \in evs : e.seq <= MaxSeq
  PROVE  IsFiniteSet(evs)
<1>. DEFINE f == [e \in evs |-> e.seq]
<1>1. \A e \in evs : e.seq \in 0..MaxSeq
  BY BoundsAssumption DEF Event
<1>2. f \in Injection(evs, 0..MaxSeq)
  BY <1>1 DEF Injection, IsInjective
<1>3. IsFiniteSet(0..MaxSeq)
  BY FS_Interval, BoundsAssumption
<1>. QED BY <1>2, <1>3, FS_Injection

(* The events with fewer than n others below them in a finite set are its   *)
(* oldest, and all but at most n of it are among them.                     *)
LEMMA OldestArePrefix ==
  ASSUME NEW evs, evs \subseteq Event, IsFiniteSet(evs), NEW n \in Int
  PROVE  LET oldest == {e \in evs : Cardinality({f \in evs : f.seq < e.seq}) < n}
         IN  /\ \A e \in oldest, f \in evs : f.seq <= e.seq => f \in oldest
             /\ IsFiniteSet(evs \ oldest)
             /\ evs \ oldest # {} => Cardinality(evs \ oldest) <= Cardinality(evs) - n
<1>. DEFINE below(e) == {f \in evs : f.seq < e.seq}
            oldest == {e \in evs : Cardinality(below(e)) < n}
            rest == evs \ oldest
<1>1. \A e \in evs : below(e) \in SUBSET evs /\ IsFiniteSet(below(e)) /\ Cardinality(below(e)) \in Nat
  BY FS_Subset, FS_CardinalityType
<1>2. ASSUME NEW e \in oldest, NEW f \in evs, f.seq <= e.seq
      PROVE  f \in oldest
  <2>1. below(f) \in SUBSET below(e)
    BY <1>2 DEF Event
  <2>2. Cardinality(below(f)) <= Cardinality(below(e))
    <3>. HIDE DEF below
    <3>. QED BY <1>1, <2>1, FS_Subset
  <2>. HIDE DEF below
  <2>. QED BY <1>1, <2>2
<1>3. IsFiniteSet(rest)
  BY FS_Subset
<1>4. ASSUME rest # {}
      PROVE  Cardinality(rest) <= Cardinality(evs) - n
  <2>1. SeqsOf(rest) \in SUBSET Nat /\ SeqsOf(rest) # {}
    BY <1>4 DEF SeqsOf, Event
  <2>2. PICK q \in SeqsOf(rest) : \A y \in SeqsOf(rest) : q <= y
    BY <2>1, LeastExists
  <2>3. PICK r \in rest : r.seq = q
    BY DEF SeqsOf
  <2>4. \A e \in rest : r.seq <= e.seq
    BY <2>2, <2>3 DEF SeqsOf
  <2>5. Cardinality(below(r)) >= n
    <3>1. r \in evs /\ ~(Cardinality(below(r)) < n)
      BY <2>3
    <3>. HIDE DEF below
    <3>. QED BY <1>1, <3>1
  <2>6. rest \cap below(r) = {}
    BY <2>4 DEF Event
  <2>. HIDE DEF rest, below, oldest
  <2>7. r \in evs /\ rest \subseteq evs
    BY <2>3 DEF rest
  <2>8. Cardinality(rest \cup below(r)) = Cardinality(rest) + Cardinality(below(r)) - Cardinality({})
    BY <1>1, <1>3, <2>6, <2>7, FS_Union
  <2>9. Cardinality(rest \cup below(r)) <= Cardinality(evs)
    BY <1>1, <2>7, FS_Subset
  <2>10. Cardinality({}) = 0 /\ Cardinality(rest) \in Nat /\ Cardinality(evs) \in Nat
    BY <1>3, FS_EmptySet, FS_CardinalityType
  <2>. QED BY <1>1, <2>5, <2>7, <2>8, <2>9, <2>10
<1>. QED BY <1>2, <1>3, <1>4

(* What an eviction does: it drops nothing but the oldest events that are   *)
(* not open deltas, and raises `evicted` to the last of them.              *)
LEMMA EvictDrops ==
  ASSUME NEW m, DigestInv(m), CacheKeyed(m)
  PROVE  \E dropped \in SUBSET {e \in m.events : e.seq \notin m.deltas} :
           /\ EvictOldest(m).events = m.events \ dropped
           /\ EvictOldest(m).open = m.open
           /\ EvictOldest(m).deltas = m.deltas
           /\ EvictOldest(m).loaded = m.loaded
           /\ EvictOldest(m).evicted >= m.evicted
           /\ \A e \in dropped : e.seq <= EvictOldest(m).evicted
           /\ \A e \in dropped, f \in m.events :
                f.seq <= e.seq /\ f.seq \notin m.deltas => f \in dropped
<1>. DEFINE droppable == {e \in m.events : e.seq \notin m.deltas}
            over == Cardinality(m.events) - MEMORY_EVENT_CAP
            dropped == {e \in droppable :
                          Cardinality({f \in droppable : f.seq < e.seq}) < over}
            upTo == Larger(m.evicted, Highest(SeqsOf(dropped)))
            v == EvictOldest(m)
<1>1. m \in Mem /\ m.events \subseteq Event /\ m.evicted \in Nat
  BY DEF DigestInv, Mem
<1>2. IsFiniteSet(m.events)
  BY <1>1, KeyedIsFinite DEF DigestInv, CacheKeyed
<1>3. droppable \subseteq Event /\ IsFiniteSet(droppable)
  BY <1>1, <1>2, FS_Subset
<1>4. over \in Int
  BY <1>2, FS_CardinalityType, CapAssumption
<1>5. \/ v = m
      \/ dropped # {} /\ v = [m EXCEPT !.events = @ \ dropped, !.evicted = upTo]
  BY DEF EvictOldest
<1>6. \A e \in dropped, f \in droppable : f.seq <= e.seq => f \in dropped
  <2>. HIDE DEF droppable, over
  <2>. QED BY <1>3, <1>4, OldestArePrefix
<1>7. dropped \subseteq droppable
  OBVIOUS
<1>. HIDE DEF dropped, over
<1>8. CASE v = m
  <2>1. {} \in SUBSET droppable
    OBVIOUS
  <2>2. /\ v.events = m.events \ {} /\ v.open = m.open /\ v.deltas = m.deltas
        /\ v.loaded = m.loaded /\ v.evicted >= m.evicted
    BY <1>1, <1>8
  <2>. HIDE DEF v
  <2>. QED BY <2>1, <2>2 DEF v
<1>9. CASE dropped # {} /\ v = [m EXCEPT !.events = @ \ dropped, !.evicted = upTo]
  <2>1. SeqsOf(dropped) \in SUBSET Nat /\ SeqsOf(dropped) # {} /\ \A q \in SeqsOf(dropped) : q <= MaxSeq
    BY <1>1, <1>7, <1>9 DEF SeqsOf, Event, DigestInv
  <2>2. Highest(SeqsOf(dropped)) \in Nat /\ \A q \in SeqsOf(dropped) : q <= Highest(SeqsOf(dropped))
    BY <2>1, HighestIsMax, BoundsAssumption
  <2>3. \A e \in dropped : e.seq \in Nat /\ e.seq <= Highest(SeqsOf(dropped))
    BY <2>1, <2>2 DEF SeqsOf
  <2>4. upTo >= m.evicted /\ \A e \in dropped : e.seq <= upTo
    BY <1>1, <2>2, <2>3 DEF Larger
  <2>. HIDE DEF upTo
  <2>5. /\ v.events = m.events \ dropped /\ v.open = m.open /\ v.deltas = m.deltas
        /\ v.loaded = m.loaded /\ v.evicted = upTo
    BY <1>1, <1>9 DEF Mem
  <2>6. \A e \in dropped, f \in m.events : f.seq <= e.seq /\ f.seq \notin m.deltas => f \in dropped
    BY <1>6
  <2>7. dropped \in SUBSET droppable
    BY <1>7
  <2>. HIDE DEF v
  <2>. QED BY <2>4, <2>5, <2>6, <2>7 DEF v
<1>. QED BY <1>5, <1>8, <1>9

(* An eviction loses nothing a replay needs: the rows it drops are at or    *)
(* below `evicted`, and it never parts a row from the deltas behind it.    *)
LEMMA EvictKeepsCache ==
  ASSUME NEW m, NEW rows, NEW words, NEW ok \in BOOLEAN, HasStore,
         CacheInv(m, rows, words, ok), FinishedWritten(m, rows, ok)
  PROVE  LET v == EvictOldest(m)
         IN  /\ CacheInv(v, rows, words, ok)
             /\ FinishedWritten(v, rows, ok)
             /\ Harvested(m) => Harvested(v)
             /\ ok => TextOf(m.events) \subseteq TextOf(v.events) \cup TextOf(rows)
<1>. DEFINE v == EvictOldest(m)
<1>1. DigestInv(v)
  BY EvictKeepsDigest DEF CacheInv
<1>2. PICK dropped \in SUBSET {e \in m.events : e.seq \notin m.deltas} :
        /\ v.events = m.events \ dropped
        /\ v.open = m.open
        /\ v.deltas = m.deltas
        /\ v.loaded = m.loaded
        /\ v.evicted >= m.evicted
        /\ \A e \in dropped : e.seq <= v.evicted
        /\ \A e \in dropped, f \in m.events :
             f.seq <= e.seq /\ f.seq \notin m.deltas => f \in dropped
  BY EvictDrops DEF CacheInv
<1>. HIDE DEF v
<1>3. m.events \subseteq Event /\ m.evicted \in Nat /\ v.evicted \in Nat /\ rows \subseteq Event
  BY <1>1 DEF CacheInv, DigestInv, Mem
<1>4. \A e \in m.events : e.seq \in m.deltas => e \in v.events
  BY <1>2
<1>5. CacheKeyed(v)
  BY <1>2, <1>4 DEF CacheInv, CacheKeyed
<1>6. ChunksCached(v)
  <2>1. \A s \in Streams : m.open[s].seqs \subseteq m.deltas
    BY DEF CacheInv, DigestInv
  <2>. QED BY <1>2, <1>4, <2>1 DEF CacheInv, ChunksCached
<1>7. DeltasOpen(v, ok)
  BY <1>2 DEF CacheInv, DeltasOpen
<1>8. TextSaid(v, rows, words)
  BY <1>2 DEF CacheInv, TextSaid
<1>9. RowsWritten(v, rows)
  BY <1>2 DEF CacheInv, RowsWritten
<1>10. RowsCached(v, rows)
  <2>1. ASSUME NEW r \in rows
        PROVE  r.seq <= v.evicted \/ \E e \in v.events : e.seq = r.seq
    <3>1. CASE r.seq <= m.evicted
      BY <1>2, <1>3, <3>1 DEF Event
    <3>2. ASSUME NEW e \in m.events, e.seq = r.seq
          PROVE  r.seq <= v.evicted \/ \E f \in v.events : f.seq = r.seq
      BY <1>2, <3>2
    <3>. QED BY <3>1, <3>2 DEF CacheInv, RowsCached
  <2>2. ASSUME NEW r \in rows, NEW e \in v.events, e.seq = r.seq, e # r, NEW x \in r.text
        PROVE  \E d \in v.events : d.seq >= r.seq /\ d.seq \notin v.deltas /\ x \in d.text
    <3>1. PICK d \in m.events : d.seq >= r.seq /\ d.seq \notin m.deltas /\ x \in d.text
      BY <1>2, <2>2 DEF CacheInv, RowsCached
    <3>2. r.seq \notin m.deltas
      BY DEF CacheInv, RowsWritten
    <3>3. e \in m.events /\ e \notin dropped
      BY <1>2, <2>2
    <3>4. d \notin dropped
      BY <1>2, <1>3, <2>2, <3>1, <3>2, <3>3 DEF Event
    <3>. QED BY <1>2, <3>1, <3>4
  <2>. QED BY <2>1, <2>2 DEF RowsCached
<1>11. FinishedWritten(v, rows, ok)
  <2>1. \A e \in m.events : e.kind # "delta" => e \in rows
    BY DEF CacheInv, RowsWritten
  <2>2. /\ rows \cup {e \in m.events : e.kind # "delta"} = rows
        /\ rows \cup {e \in v.events : e.kind # "delta"} = rows
    BY <1>2, <2>1
  <2>. QED BY <1>2, <2>2 DEF FinishedWritten
<1>12. Harvested(m) => Harvested(v)
  BY <1>2 DEF Harvested
<1>13. ASSUME ok, NEW e \in m.events, NEW x \in e.text
       PROVE  x \in TextOf(v.events) \cup TextOf(rows)
  <2>1. CASE e \in v.events
    BY <2>1, TextOfMember
  <2>2. CASE e.kind # "delta"
    BY <2>2, TextOfMember DEF CacheInv, RowsWritten
  <2>3. CASE e \notin v.events /\ e.kind = "delta"
    <3>1. e.seq \in m.deltas
      BY <1>13, <2>3 DEF CacheInv, DeltasOpen, DigestInv
    <3>. QED BY <1>4, <2>3, <3>1
  <2>. QED BY <2>1, <2>2, <2>3
<1>14. ok => TextOf(m.events) \subseteq TextOf(v.events) \cup TextOf(rows)
  BY <1>13, TextOfMember
<1>15. CacheInv(v, rows, words, ok)
  BY <1>1, <1>5, <1>6, <1>7, <1>8, <1>9, <1>10 DEF CacheInv
<1>. QED BY <1>11, <1>12, <1>14, <1>15 DEF v

(* The events of a cache that no open delta holds. *)
Droppable(m) == {e \in m.events : e.seq \notin m.deltas}

(* After an eviction at most twice the cap of events are not open deltas. *)
LEMMA EvictBounds ==
  ASSUME NEW m, DigestInv(m), CacheKeyed(m)
  PROVE  Cardinality(Droppable(EvictOldest(m))) <= 2 * MEMORY_EVENT_CAP
<1>. DEFINE over == Cardinality(m.events) - MEMORY_EVENT_CAP
            U == Droppable(m)
            dropped == {e \in U : Cardinality({f \in U : f.seq < e.seq}) < over}
            O == {e \in m.events : e.seq \in m.deltas}
            v == EvictOldest(m)
<1>1. m \in Mem /\ m.events \subseteq Event
  BY DEF DigestInv, Mem
<1>2. IsFiniteSet(m.events) /\ Cardinality(m.events) \in Nat
  BY <1>1, KeyedIsFinite, FS_CardinalityType DEF DigestInv, CacheKeyed
<1>3. /\ U \subseteq Event /\ IsFiniteSet(U) /\ Cardinality(U) \in Nat
      /\ Cardinality(U) <= Cardinality(m.events)
      /\ IsFiniteSet(O) /\ Cardinality(O) \in Nat
  <2>1. U \in SUBSET m.events /\ O \in SUBSET m.events
    BY DEF Droppable
  <2>. HIDE DEF U, O
  <2>. QED BY <1>1, <1>2, <2>1, FS_Subset, FS_CardinalityType
<1>4. MEMORY_EVENT_CAP \in Nat /\ over \in Int
  BY <1>2, CapAssumption
<1>5. CASE Cardinality(m.events) - Cardinality(m.deltas) <= 2 * MEMORY_EVENT_CAP
  <2>1. v = m
    BY <1>5 DEF EvictOldest
  <2>2. Cardinality(m.deltas) \in Nat /\ Cardinality(m.deltas) <= Cardinality(O)
    <3>. DEFINE seq == [e \in O |-> e.seq]
    <3>1. seq \in Surjection(O, m.deltas)
      BY DEF Surjection, CacheKeyed
    <3>. HIDE DEF seq, O
    <3>. QED BY <1>3, <3>1, FS_Surjection, FS_CardinalityType
  <2>3. Cardinality(m.events) = Cardinality(U) + Cardinality(O)
    <3>1. U \cup O = m.events /\ U \cap O = {}
      BY DEF Droppable
    <3>2. Cardinality({}) = 0
      BY FS_EmptySet
    <3>. HIDE DEF U, O
    <3>3. Cardinality(U \cup O) = Cardinality(U) + Cardinality(O) - Cardinality(U \cap O)
      BY <1>3, FS_Union
    <3>4. Cardinality(U \cap O) = 0
      BY <3>1, <3>2
    <3>5. Cardinality(U \cup O) = Cardinality(m.events)
      BY <3>1
    <3>. QED BY <1>3, <3>3, <3>4, <3>5
  <2>4. Cardinality(U) <= 2 * MEMORY_EVENT_CAP
    <3>. HIDE DEF U, O, v
    <3>. QED BY <1>2, <1>3, <1>4, <1>5, <2>2, <2>3
  <2>5. Droppable(v) = U
    BY <2>1
  <2>. HIDE DEF U, v
  <2>. QED BY <2>4, <2>5 DEF v
<1>6. CASE ~ (Cardinality(m.events) - Cardinality(m.deltas) <= 2 * MEMORY_EVENT_CAP)
  <2>1. Droppable(v) = U \ dropped
    <3>1. CASE dropped = {}
      <4>1. v = m
        BY <3>1 DEF EvictOldest, Droppable
      <4>. HIDE DEF dropped, v
      <4>2. U \ dropped = U
        BY <3>1
      <4>. QED BY <4>1, <4>2
    <3>2. CASE dropped # {}
      <4>. DEFINE upTo == Larger(m.evicted, Highest(SeqsOf(dropped)))
      <4>1. v = [m EXCEPT !.events = @ \ dropped, !.evicted = upTo]
        BY <1>6, <3>2 DEF EvictOldest, Droppable
      <4>. HIDE DEF dropped, upTo
      <4>2. v.events = m.events \ dropped /\ v.deltas = m.deltas
        BY <1>1, <4>1 DEF Mem
      <4>. HIDE DEF v
      <4>. QED BY <4>2 DEF Droppable
    <3>. QED BY <3>1, <3>2
  <2>. HIDE DEF v, over
  <2>2. U \ dropped # {} => Cardinality(U \ dropped) <= Cardinality(U) - over
    <3>. HIDE DEF U
    <3>. QED BY <1>3, <1>4, OldestArePrefix
  <2>3. Cardinality({}) = 0
    BY FS_EmptySet
  <2>4. IsFiniteSet(U \ dropped) /\ Cardinality(U \ dropped) \in Nat
    <3>. HIDE DEF U, dropped
    <3>. QED BY <1>3, FS_Difference, FS_CardinalityType
  <2>. HIDE DEF U, dropped
  <2>5. CASE U \ dropped = {}
    <3>1. Cardinality(Droppable(v)) = 0
      BY <2>1, <2>3, <2>5
    <3>. QED BY <1>4, <3>1 DEF v
  <2>6. CASE U \ dropped # {}
    BY <1>2, <1>3, <1>4, <2>1, <2>2, <2>4, <2>6 DEF over, v
  <2>. QED BY <2>5, <2>6
<1>. QED BY <1>5, <1>6

(* Trimming the cache loses nothing a replay needs, leaves no finished      *)
(* stream open and bounds the cache.                                       *)
LEMMA TrimKeepsCache ==
  ASSUME NEW m, NEW rows, NEW words, NEW ok \in BOOLEAN,
         CacheInv(m, rows, words, ok), FinishedWritten(m, rows, ok)
  PROVE  LET t == TrimCache(m)
         IN  /\ CacheInv(t, rows, words, ok)
             /\ FinishedWritten(t, rows, ok)
             /\ HasStore => Harvested(t)
             /\ HasStore => Cardinality(Droppable(t)) <= 2 * MEMORY_EVENT_CAP
             /\ ok => TextOf(m.events) \subseteq TextOf(t.events) \cup TextOf(rows)
<1>1. CASE ~HasStore
  BY <1>1 DEF TrimCache
<1>2. CASE HasStore
  <2>. DEFINE h == HarvestFinished(m)
              v == EvictOldest(h)
  <2>1. /\ CacheInv(h, rows, words, ok)
        /\ FinishedWritten(h, rows, ok)
        /\ Harvested(h)
        /\ ok => TextOf(m.events) \subseteq TextOf(h.events) \cup TextOf(rows)
    BY <1>2, HarvestKeepsCache
  <2>. HIDE DEF h
  <2>2. /\ CacheInv(v, rows, words, ok)
        /\ FinishedWritten(v, rows, ok)
        /\ Harvested(v)
        /\ ok => TextOf(h.events) \subseteq TextOf(v.events) \cup TextOf(rows)
    BY <1>2, <2>1, EvictKeepsCache
  <2>3. Cardinality(Droppable(v)) <= 2 * MEMORY_EVENT_CAP
    BY <2>1, EvictBounds DEF CacheInv
  <2>4. TrimCache(m) = v
    BY <1>2 DEF TrimCache, h
  <2>. HIDE DEF v
  <2>. QED BY <2>1, <2>2, <2>3, <2>4
<1>. QED BY <1>1, <1>2

(* What a push starts from: the cache with one more event in it. *)
WithEvent(m, e) == [m EXCEPT !.events = @ \cup {e}]

(* Caching an event changes nothing else of the Session. *)
LEMMA WithEventFields ==
  ASSUME NEW m, DigestInv(m), NEW e \in Event, e.seq <= MaxSeq
  PROVE  LET p == WithEvent(m, e)
         IN  /\ DigestInv(p)
             /\ p.events = m.events \cup {e}
             /\ p.open = m.open /\ p.deltas = m.deltas
             /\ p.loaded = m.loaded /\ p.evicted = m.evicted
<1>. DEFINE p == WithEvent(m, e)
<1>1. m \in Mem /\ m.events \cup {e} \in SUBSET Event
  BY DEF DigestInv, Mem
<1>2. /\ p \in Mem
      /\ p.events = m.events \cup {e}
      /\ p.open = m.open /\ p.deltas = m.deltas
      /\ p.loaded = m.loaded /\ p.evicted = m.evicted
  BY <1>1 DEF Mem, WithEvent
<1>. HIDE DEF p
<1>3. DigestInv(p)
  BY <1>2 DEF DigestInv
<1>. QED BY <1>2, <1>3 DEF p

(* A stored event at a fresh seq joins the cache and the rows at once. *)
LEMMA RowKeepsCache ==
  ASSUME NEW m, NEW rows, NEW words, NEW ok \in BOOLEAN,
         CacheInv(m, rows, words, ok),
         NEW e \in Event, e.kind # "delta", e.seq > 0, e.seq <= MaxSeq,
         \A f \in m.events \cup rows : f.seq < e.seq,
         e.text \subseteq UNION {words[s] : s \in Streams}
  PROVE  CacheInv(WithEvent(m, e), IF HasStore THEN rows \cup {e} ELSE rows, words, ok)
<1>. DEFINE p == WithEvent(m, e)
            more == IF HasStore THEN rows \cup {e} ELSE rows
<1>1. /\ DigestInv(p)
      /\ p.events = m.events \cup {e}
      /\ p.open = m.open /\ p.deltas = m.deltas
      /\ p.loaded = m.loaded /\ p.evicted = m.evicted
  BY WithEventFields DEF CacheInv
<1>. HIDE DEF p
<1>2. rows \subseteq Event /\ m.events \subseteq Event
  BY DEF CacheInv, DigestInv, Mem
<1>3. \A f \in m.events \cup rows : f.seq # e.seq
  BY <1>2 DEF Event
<1>4. e.seq \notin m.deltas
  BY <1>3 DEF CacheInv, CacheKeyed
<1>5. more \subseteq Event /\ \A r \in more : r = e \/ r \in rows
  BY <1>2
<1>6. CacheKeyed(p)
  BY <1>1, <1>3 DEF CacheInv, CacheKeyed
<1>7. ChunksCached(p)
  BY <1>1 DEF CacheInv, ChunksCached
<1>8. DeltasOpen(p, ok)
  BY <1>1 DEF CacheInv, DeltasOpen
<1>9. TextSaid(p, more, words)
  BY <1>1, <1>5 DEF CacheInv, TextSaid
<1>10. RowsWritten(p, more)
  BY <1>1, <1>4 DEF CacheInv, RowsWritten
<1>11. RowsCached(p, more)
  <2>1. ASSUME NEW r \in more
        PROVE  r.seq <= p.evicted \/ \E f \in p.events : f.seq = r.seq
    <3>1. CASE r = e
      BY <1>1, <3>1
    <3>2. CASE r \in rows
      BY <1>1, <3>2 DEF CacheInv, RowsCached
    <3>. QED BY <1>5, <3>1, <3>2
  <2>2. ASSUME NEW r \in more, NEW f \in p.events, f.seq = r.seq, f # r, NEW x \in r.text
        PROVE  \E d \in p.events : d.seq >= r.seq /\ d.seq \notin p.deltas /\ x \in d.text
    <3>1. r \in rows /\ f \in m.events
      BY <1>1, <1>3, <1>5, <2>2
    <3>2. PICK d \in m.events : d.seq >= r.seq /\ d.seq \notin m.deltas /\ x \in d.text
      BY <2>2, <3>1 DEF CacheInv, RowsCached
    <3>. QED BY <1>1, <3>2
  <2>. QED BY <2>1, <2>2 DEF RowsCached
<1>. HIDE DEF more
<1>12. CacheInv(p, more, words, ok)
  BY <1>1, <1>5, <1>6, <1>7, <1>8, <1>9, <1>10, <1>11 DEF CacheInv
<1>. QED BY <1>12 DEF p, more

(* What NoteDelta leaves: the delta joins its stream, which it opens if it  *)
(* was not open.                                                           *)
LEMMA NoteDeltaFields ==
  ASSUME NEW m, DigestInv(m), NEW s \in Streams, NEW q \in Nat, NEW chunk \in BOOLEAN
  PROVE  LET n == NoteDelta(m, s, q, chunk)
             was == m.open[s]
         IN  /\ n.loaded = m.loaded /\ n.evicted = m.evicted
             /\ n.events = m.events /\ n.deltas = m.deltas \cup {q}
             /\ \A t \in Streams : t # s => n.open[t] = m.open[t]
             /\ n.open[s].first = IF was.seqs = {} THEN q ELSE was.first
             /\ n.open[s].chunks = was.chunks \cup (IF chunk THEN {q} ELSE {})
             /\ n.open[s].seqs = was.seqs \cup {q}
             /\ n.open[s].finalSeen = (was.seqs # {} /\ was.finalSeen)
<1>. DEFINE text == IF chunk THEN {q} ELSE {}
            o == m.open[s]
            o2 == IF o.seqs = {}
                  THEN [first |-> q, chunks |-> text, seqs |-> {q}, finalSeen |-> FALSE]
                  ELSE [o EXCEPT !.chunks = @ \cup text, !.seqs = @ \cup {q}]
            opened == [m.open EXCEPT ![s] = o2]
            n == NoteDelta(m, s, q, chunk)
<1>1. m \in Mem /\ m.open \in [Streams -> OpenStream] /\ o \in OpenStream
  BY DEF DigestInv, Mem
<1>2. o.seqs = {} => o.chunks = {}
  BY DEF DigestInv
<1>3. n = [m EXCEPT !.deltas = m.deltas \cup {q}, !.open = opened]
  BY <1>1 DEF NoteDelta, Mem
<1>. HIDE DEF text
<1>4. /\ o2.first = IF o.seqs = {} THEN q ELSE o.first
      /\ o2.chunks = o.chunks \cup text
      /\ o2.seqs = o.seqs \cup {q}
      /\ o2.finalSeen = (o.seqs # {} /\ o.finalSeen)
  <2>. HIDE DEF o
  <2>1. CASE o.seqs = {}
    BY <1>2, <2>1
  <2>2. CASE o.seqs # {}
    <3>1. o2 = [o EXCEPT !.chunks = @ \cup text, !.seqs = @ \cup {q}]
      BY <2>2
    <3>2. o.finalSeen \in BOOLEAN
      BY <1>1 DEF OpenStream
    <3>. QED BY <1>1, <2>2, <3>1, <3>2 DEF OpenStream
  <2>. QED BY <2>1, <2>2
<1>. HIDE DEF o, o2
<1>5. opened[s] = o2 /\ \A t \in Streams : t # s => opened[t] = m.open[t]
  BY <1>1
<1>. HIDE DEF opened, n
<1>6. /\ n.loaded = m.loaded /\ n.evicted = m.evicted
      /\ n.events = m.events /\ n.deltas = m.deltas \cup {q} /\ n.open = opened
  BY <1>1, <1>3 DEF Mem
<1>. QED BY <1>4, <1>5, <1>6 DEF n, o, text

(* The event of a delta, and a seq that is above everything so far. *)
DeltaEvent(s, q, chunk) ==
  [seq |-> q, kind |-> "delta", stream |-> s, text |-> IF chunk THEN {q} ELSE {}]

IsFresh(q, m, rows, words) ==
  /\ q \in Nat /\ q > 0 /\ q <= MaxSeq
  /\ \A f \in m.events \cup rows : f.seq < q
  /\ words \in [Streams -> SUBSET Nat]
  /\ \A t \in Streams : \A x \in words[t] : x < q

(* A delta with a fresh seq joins the cache and its stream. *)
LEMMA DeltaKeepsCache ==
  ASSUME NEW m, NEW rows, NEW words, NEW ok \in BOOLEAN,
         CacheInv(m, rows, words, ok), FinishedWritten(m, rows, ok),
         NEW s \in Streams, NEW q, NEW chunk \in BOOLEAN,
         IsFresh(q, m, rows, words), ok => ~m.open[s].finalSeen
  PROVE  LET e == DeltaEvent(s, q, chunk)
             p == WithEvent(NoteDelta(m, s, q, chunk), e)
         IN  /\ CacheInv(p, rows, [words EXCEPT ![s] = @ \cup e.text], ok)
             /\ FinishedWritten(p, rows, ok)
             /\ p.events = m.events \cup {e}
<1>. DEFINE n == NoteDelta(m, s, q, chunk)
            e == DeltaEvent(s, q, chunk)
            p == WithEvent(n, e)
            said == [words EXCEPT ![s] = @ \cup e.text]
<1>. q \in Nat /\ q > 0 /\ q <= MaxSeq /\ words \in [Streams -> SUBSET Nat]
  BY DEF IsFresh
<1>. (\A f \in m.events \cup rows : f.seq < q) /\ \A t \in Streams : \A x \in words[t] : x < q
  BY DEF IsFresh
<1>1. m \in Mem /\ m.events \subseteq Event /\ rows \subseteq Event /\ m.deltas \subseteq Nat
  BY DEF CacheInv, DigestInv, Mem
<1>2. \A f \in m.events \cup rows : f.seq # q
  BY <1>1 DEF Event
<1>3. \A d \in m.deltas : d < q
  BY DEF CacheInv, CacheKeyed
<1>4. q \notin m.deltas
  BY <1>1, <1>3
<1>5. /\ n.loaded = m.loaded /\ n.evicted = m.evicted
      /\ n.events = m.events /\ n.deltas = m.deltas \cup {q}
      /\ \A t \in Streams : t # s => n.open[t] = m.open[t]
      /\ n.open[s].first = IF m.open[s].seqs = {} THEN q ELSE m.open[s].first
      /\ n.open[s].chunks = m.open[s].chunks \cup (IF chunk THEN {q} ELSE {})
      /\ n.open[s].seqs = m.open[s].seqs \cup {q}
      /\ n.open[s].finalSeen = (m.open[s].seqs # {} /\ m.open[s].finalSeen)
  BY NoteDeltaFields DEF CacheInv
<1>6. DigestInv(n)
  BY <1>4, NoteDeltaKeepsDigest DEF CacheInv
<1>. HIDE DEF n
<1>7. e \in Event /\ e.seq = q /\ e.kind = "delta" /\ e.text = IF chunk THEN {q} ELSE {}
  BY DEF Event, DeltaEvent
<1>. HIDE DEF e
<1>8. /\ DigestInv(p)
      /\ p.events = m.events \cup {e} /\ p.open = n.open
      /\ p.deltas = m.deltas \cup {q} /\ p.loaded = m.loaded /\ p.evicted = m.evicted
  <2>1. /\ DigestInv(p)
        /\ p.events = n.events \cup {e} /\ p.open = n.open
        /\ p.deltas = n.deltas /\ p.loaded = n.loaded /\ p.evicted = n.evicted
    <3>1. e \in Event /\ e.seq <= MaxSeq
      BY <1>7
    <3>. QED BY <1>6, <3>1, WithEventFields
  <2>. QED BY <1>5, <2>1
<1>. HIDE DEF p
<1>9. e.text \subseteq {q}
  BY <1>7
<1>10. /\ p.open[s].first = IF m.open[s].seqs = {} THEN q ELSE m.open[s].first
       /\ p.open[s].chunks = m.open[s].chunks \cup e.text
       /\ p.open[s].seqs = m.open[s].seqs \cup {q}
       /\ p.open[s].finalSeen = (m.open[s].seqs # {} /\ m.open[s].finalSeen)
       /\ \A t \in Streams : t # s => p.open[t] = m.open[t]
  BY <1>5, <1>7, <1>8
<1>11. said[s] = words[s] \cup e.text /\ \A t \in Streams : t # s => said[t] = words[t]
  OBVIOUS
<1>. HIDE DEF said
<1>12. \A t \in Streams : /\ m.open[t].seqs \subseteq p.open[t].seqs
                          /\ m.open[t].chunks \subseteq p.open[t].chunks
                          /\ words[t] \subseteq said[t]
  <2>. TAKE t \in Streams
  <2>1. CASE t = s
    BY <1>10, <1>11, <2>1
  <2>2. CASE t # s
    BY <1>10, <1>11, <2>2
  <2>. QED BY <2>1, <2>2
<1>13. CacheKeyed(p)
  BY <1>2, <1>7, <1>8 DEF CacheInv, CacheKeyed
<1>14. ChunksCached(p)
  <2>1. \A x \in m.open[s].seqs : x <= q /\ x \in Nat
    BY <1>1, <1>3 DEF CacheInv, DigestInv
  <2>2. \A x \in p.open[s].seqs : p.open[s].first <= x
    <3>1. CASE m.open[s].seqs = {}
      BY <1>10, <3>1
    <3>2. CASE m.open[s].seqs # {}
      <4>1. m.open[s].first \in m.open[s].seqs
        BY <3>2 DEF CacheInv, DigestInv
      <4>2. \A x \in m.open[s].seqs : m.open[s].first <= x
        BY DEF CacheInv, ChunksCached
      <4>. QED BY <1>10, <2>1, <3>2, <4>1, <4>2
    <3>. QED BY <3>1, <3>2
  <2>3. \A x \in p.open[s].chunks : x \in p.open[s].seqs /\ \E d \in p.events : d.seq = x /\ x \in d.text
    BY <1>7, <1>8, <1>9, <1>10 DEF CacheInv, ChunksCached
  <2>4. \A t \in Streams : t # s =>
          /\ \A x \in p.open[t].seqs : p.open[t].first <= x
          /\ \A x \in p.open[t].chunks : x \in p.open[t].seqs /\ \E d \in p.events : d.seq = x /\ x \in d.text
    BY <1>8, <1>10 DEF CacheInv, ChunksCached
  <2>. QED BY <2>2, <2>3, <2>4 DEF ChunksCached
<1>15. DeltasOpen(p, ok)
  <2>1. ASSUME NEW d \in p.events, d.kind = "delta"
        PROVE  /\ d.text \subseteq {d.seq}
               /\ ok => \E t \in Streams : d.seq \in p.open[t].seqs /\ d.text \subseteq p.open[t].chunks
    <3>1. CASE d = e
      BY <1>7, <1>9, <1>10, <3>1
    <3>2. CASE d \in m.events
      BY <1>12, <2>1, <3>2 DEF CacheInv, DeltasOpen
    <3>. QED BY <1>8, <3>1, <3>2
  <2>. QED BY <2>1 DEF DeltasOpen
<1>16. TextSaid(p, rows, said)
  <2>1. e.text \subseteq UNION {said[t] : t \in Streams}
    BY <1>11
  <2>2. ASSUME NEW f \in p.events \cup rows, NEW x \in f.text
        PROVE  x \in UNION {said[t] : t \in Streams}
    <3>1. CASE f = e
      BY <2>1, <2>2, <3>1
    <3>2. CASE f \in m.events \cup rows
      <4>1. PICK t \in Streams : x \in words[t]
        BY <2>2, <3>2 DEF CacheInv, TextSaid
      <4>2. x \in said[t]
        BY <1>12, <4>1
      <4>. QED BY <4>2
    <3>. QED BY <1>8, <3>1, <3>2
  <2>3. ASSUME NEW t \in Streams
        PROVE  p.open[t].chunks \subseteq said[t] /\ said[t] \cap p.deltas \subseteq p.open[t].seqs
    <3>1. q \notin words[t]
      <4>1. words[t] \subseteq Nat
        OBVIOUS
      <4>. QED BY <4>1
    <3>2. m.open[t].chunks \subseteq words[t] /\ words[t] \cap m.deltas \subseteq m.open[t].seqs
      BY DEF CacheInv, TextSaid
    <3>3. CASE t = s
      BY <1>8, <1>9, <1>10, <1>11, <3>2, <3>3
    <3>4. CASE t # s
      BY <1>8, <1>10, <1>11, <3>1, <3>2, <3>4
    <3>. QED BY <3>3, <3>4
  <2>. QED BY <2>2, <2>3 DEF TextSaid
<1>17. RowsWritten(p, rows)
  BY <1>2, <1>7, <1>8 DEF CacheInv, RowsWritten
<1>18. RowsCached(p, rows)
  <2>1. ASSUME NEW r \in rows
        PROVE  r.seq <= p.evicted \/ \E f \in p.events : f.seq = r.seq
    BY <1>8 DEF CacheInv, RowsCached
  <2>2. ASSUME NEW r \in rows, NEW f \in p.events, f.seq = r.seq, f # r, NEW x \in r.text
        PROVE  \E d \in p.events : d.seq >= r.seq /\ d.seq \notin p.deltas /\ x \in d.text
    <3>1. f \in m.events
      BY <1>2, <1>7, <1>8, <2>2
    <3>2. PICK d \in m.events : d.seq >= r.seq /\ d.seq \notin m.deltas /\ x \in d.text
      BY <2>2, <3>1 DEF CacheInv, RowsCached
    <3>. QED BY <1>2, <1>8, <3>2
  <2>. QED BY <2>1, <2>2 DEF RowsCached
<1>19. FinishedWritten(p, rows, ok)
  <2>1. ASSUME ok, NEW t \in Streams, p.open[t].finalSeen
        PROVE  p.open[t].chunks \subseteq TextOf(rows \cup {f \in p.events : f.kind # "delta"})
    <3>1. t # s
      BY <1>10, <2>1
    <3>2. {f \in p.events : f.kind # "delta"} = {f \in m.events : f.kind # "delta"}
      BY <1>7, <1>8
    <3>. QED BY <1>10, <2>1, <3>1, <3>2 DEF FinishedWritten
  <2>2. ASSUME NEW x \in TextOf(rows) \cap p.deltas
        PROVE  \E t \in Streams : p.open[t].finalSeen /\ x \in p.open[t].seqs
    <3>1. PICK u \in Streams : x \in words[u]
      BY <2>2, TextOfMember DEF CacheInv, TextSaid
    <3>2. x # q
      <4>1. words[u] \subseteq Nat
        OBVIOUS
      <4>. QED BY <3>1, <4>1
    <3>3. PICK t \in Streams : m.open[t].finalSeen /\ x \in m.open[t].seqs
      BY <1>8, <2>2, <3>2 DEF FinishedWritten
    <3>4. p.open[t].finalSeen
      <4>1. CASE t = s
        BY <1>10, <3>3, <4>1
      <4>2. CASE t # s
        BY <1>10, <3>3, <4>2
      <4>. QED BY <4>1, <4>2
    <3>. QED BY <1>12, <3>3, <3>4
  <2>. QED BY <2>1, <2>2 DEF FinishedWritten
<1>20. CacheInv(p, rows, said, ok)
  BY <1>8, <1>13, <1>14, <1>15, <1>16, <1>17, <1>18 DEF CacheInv
<1>. QED BY <1>8, <1>19, <1>20 DEF p, n, said, e

(* An aggregate is written for every stream left open without a final. *)
LEMMA AggregateOfStream ==
  ASSUME NEW m
  PROVE  /\ \A a \in Aggregates(m) : \E s \in Streams :
              ~m.open[s].finalSeen /\ a.seq = m.open[s].first /\ a.text = m.open[s].chunks
              /\ m.open[s].chunks # {}
         /\ \A s \in Streams : ~m.open[s].finalSeen /\ m.open[s].chunks # {} =>
              \E a \in Aggregates(m) : a.text = m.open[s].chunks
<1>. DEFINE row(s) == [seq |-> m.open[s].first, kind |-> "aggregate", stream |-> s,
                       text |-> m.open[s].chunks]
<1>1. \A a \in Aggregates(m) : \E s \in Streams :
        ~m.open[s].finalSeen /\ m.open[s].chunks # {} /\ a = row(s)
  BY DEF Aggregates
<1>2. \A s \in Streams : ~m.open[s].finalSeen /\ m.open[s].chunks # {} => row(s) \in Aggregates(m)
  BY DEF Aggregates
<1>3. \A s \in Streams : row(s).seq = m.open[s].first /\ row(s).text = m.open[s].chunks
  OBVIOUS
<1>. HIDE DEF row
<1>. QED BY <1>1, <1>2, <1>3

(* The aggregates of a Session carry only what was said, at seqs above 0. *)
LEMMA AggregatesSaid ==
  ASSUME NEW m, NEW rows, NEW words, NEW ok, CacheInv(m, rows, words, ok)
  PROVE  \A a \in Aggregates(m) :
           /\ a \in Event /\ a.kind = "aggregate"
           /\ a.seq \in m.deltas /\ a.seq > 0 /\ a.seq <= MaxSeq
           /\ a.text \subseteq UNION {words[s] : s \in Streams}
           /\ \E e \in m.events : e.seq = a.seq
           /\ \A x \in a.text : \E d \in m.events : d.seq >= a.seq /\ x \in d.text
<1>. SUFFICES ASSUME NEW a \in Aggregates(m)
              PROVE  /\ a \in Event /\ a.kind = "aggregate"
                     /\ a.seq \in m.deltas /\ a.seq > 0 /\ a.seq <= MaxSeq
                     /\ a.text \subseteq UNION {words[s] : s \in Streams}
                     /\ \E e \in m.events : e.seq = a.seq
                     /\ \A x \in a.text : \E d \in m.events : d.seq >= a.seq /\ x \in d.text
  OBVIOUS
<1>1. a \in Event /\ a.kind = "aggregate" /\ a.seq \in m.deltas /\ a.seq <= MaxSeq
  BY AggregatesAtDeltas DEF CacheInv
<1>2. PICK s \in Streams : a.seq = m.open[s].first /\ a.text = m.open[s].chunks
  BY AggregateOfStream
<1>3. a.text \subseteq UNION {words[t] : t \in Streams}
  BY <1>2 DEF CacheInv, TextSaid
<1>4. PICK e \in m.events : e.seq = a.seq
  BY <1>1 DEF CacheInv, CacheKeyed
<1>5. a.seq > 0
  BY <1>4 DEF CacheInv, CacheKeyed
<1>6. ASSUME NEW x \in a.text
      PROVE  \E d \in m.events : d.seq >= a.seq /\ x \in d.text
  <2>1. PICK d \in m.events : d.seq = x /\ x \in d.text /\ x \in m.open[s].seqs
    BY <1>2, <1>6 DEF CacheInv, ChunksCached
  <2>2. m.open[s].first <= x
    BY <2>1 DEF CacheInv, ChunksCached
  <2>3. d.seq \in Nat /\ a.seq \in Nat
    BY <1>1 DEF CacheInv, DigestInv, Mem, Event
  <2>. QED BY <1>2, <2>1, <2>2, <2>3
<1>. QED BY <1>1, <1>3, <1>4, <1>5, <1>6

(* The end of a turn: every delta leaves the cache and the aggregates that  *)
(* carry their text take their place, in the cache and in the log.         *)
LEMMA CloseKeepsCache ==
  ASSUME NEW m, NEW rows, NEW words, NEW ok \in BOOLEAN,
         CacheInv(m, rows, words, ok), FinishedWritten(m, rows, ok),
         HasStore => Harvested(m) /\ Cardinality(Droppable(m)) <= 2 * MEMORY_EVENT_CAP
  PROVE  LET c == CloseStreams(m)
             more == IF HasStore THEN rows \cup Aggregates(m) ELSE rows
         IN  /\ CacheInv(c, more, words, ok)
             /\ FinishedWritten(c, more, ok)
             /\ HasStore => Harvested(c) /\ Cardinality(Droppable(c)) <= 2 * MEMORY_EVENT_CAP
             /\ ok => TextOf(m.events) \subseteq TextOf(c.events) \cup TextOf(more)
<1>. DEFINE A == Aggregates(m)
            more == IF HasStore THEN rows \cup A ELSE rows
            left == {e \in m.events : e.seq \notin m.deltas}
            c == [m EXCEPT !.open = NothingOpen, !.deltas = {}, !.events = left \cup A]
<1>1. m \in Mem /\ m.events \subseteq Event /\ rows \subseteq Event
  BY DEF CacheInv, DigestInv, Mem
<1>2. /\ \A a \in A : /\ a \in Event /\ a.kind = "aggregate"
                      /\ a.seq \in m.deltas /\ a.seq > 0 /\ a.seq <= MaxSeq
                      /\ a.text \subseteq UNION {words[s] : s \in Streams}
      /\ \A a, b \in A : a.seq = b.seq => a = b
  BY AggregatesSaid, AggregatesAtDeltas DEF CacheInv
<1>3. CASE m.deltas = {}
  <2>1. A = {}
    BY <1>2, <1>3
  <2>2. CloseStreams(m) = m
    BY <1>3 DEF CloseStreams
  <2>3. more = rows
    BY <2>1
  <2>. QED BY <2>2, <2>3
<1>4. CASE m.deltas # {}
  <2>1. left \cup A \subseteq Event /\ \A e \in left \cup A : e.seq <= MaxSeq
    BY <1>1, <1>2 DEF CacheInv, DigestInv
  <2>2. NothingOpen \in [Streams -> OpenStream]
    BY DEF NothingOpen, Absent, OpenStream
  <2>3. CloseStreams(m) = TrimCache(c)
    BY <1>4 DEF CloseStreams
  <2>. HIDE DEF A
  <2>4. /\ c \in Mem /\ c.open = NothingOpen /\ c.deltas = {} /\ c.events = left \cup A
        /\ c.loaded = m.loaded /\ c.evicted = m.evicted
    <3>. HIDE DEF left
    <3>. QED BY <1>1, <2>1, <2>2 DEF Mem
  <2>. HIDE DEF c
  <2>5. \A s \in Streams : c.open[s].seqs = {} /\ c.open[s].chunks = {} /\ ~c.open[s].finalSeen
    BY <2>4 DEF NothingOpen, Absent
  <2>6. DigestInv(c)
    BY <2>1, <2>4, ClearedDigest
  <2>7. CacheKeyed(c)
    BY <1>2, <2>4 DEF CacheInv, CacheKeyed
  <2>8. ChunksCached(c)
    BY <2>5 DEF ChunksCached
  <2>9. DeltasOpen(c, ok)
    <3>1. \A d \in c.events : d.kind = "delta" => d \in left
      BY <1>2, <2>4
    <3>2. ok => \A d \in left : d.kind # "delta"
      BY DEF CacheInv, DeltasOpen, DigestInv
    <3>. QED BY <3>1, <3>2 DEF CacheInv, DeltasOpen
  <2>10. TextSaid(c, more, words)
    <3>1. \A e \in c.events \cup more : e \in m.events \cup rows \/ e \in A
      BY <2>4
    <3>. HIDE DEF more
    <3>. QED BY <1>2, <2>4, <2>5, <3>1 DEF CacheInv, TextSaid
  <2>11. RowsWritten(c, more)
    <3>1. ASSUME NEW e \in c.events, e.kind # "delta"
          PROVE  (HasStore => e \in more) /\ e.seq \notin c.deltas
      BY <2>4, <3>1 DEF CacheInv, RowsWritten
    <3>2. ASSUME NEW r \in more
          PROVE  HasStore /\ r.kind # "delta" /\ r.seq > 0 /\ r.seq \notin c.deltas
      BY <1>2, <2>4 DEF CacheInv, RowsWritten
    <3>. QED BY <3>1, <3>2 DEF RowsWritten
  <2>12. RowsCached(c, more)
    <3>1. \A r \in rows : r.seq \notin m.deltas
      BY DEF CacheInv, RowsWritten
    <3>2. ASSUME NEW r \in more
          PROVE  r.seq <= c.evicted \/ \E e \in c.events : e.seq = r.seq
      <4>1. CASE r \in rows
        BY <2>4, <3>1, <4>1 DEF CacheInv, RowsCached
      <4>2. CASE r \in A
        BY <2>4, <4>2
      <4>. QED BY <4>1, <4>2
    <3>3. ASSUME NEW r \in more, NEW e \in c.events, e.seq = r.seq, e # r, NEW x \in r.text
          PROVE  \E d \in c.events : d.seq >= r.seq /\ d.seq \notin c.deltas /\ x \in d.text
      <4>1. r \in rows /\ e \in left
        BY <1>2, <2>4, <3>1, <3>3
      <4>2. PICK d \in m.events : d.seq >= r.seq /\ d.seq \notin m.deltas /\ x \in d.text
        BY <3>3, <4>1 DEF CacheInv, RowsCached
      <4>. QED BY <2>4, <4>2
    <3>. QED BY <3>2, <3>3 DEF RowsCached
  <2>13. more \subseteq Event
    BY <1>1, <1>2
  <2>14. FinishedWritten(c, more, ok)
    BY <2>4, <2>5 DEF FinishedWritten
  <2>15. CacheInv(c, more, words, ok)
    BY <2>6, <2>7, <2>8, <2>9, <2>10, <2>11, <2>12, <2>13 DEF CacheInv
  <2>16. ASSUME ok, NEW e \in m.events, NEW x \in e.text
         PROVE  x \in TextOf(c.events) \cup TextOf(more)
    <3>1. CASE e \in left
      BY <2>4, <3>1, TextOfMember
    <3>2. CASE e \notin left
      <4>1. e.seq \in m.deltas /\ e.kind = "delta"
        BY <3>2 DEF CacheInv, RowsWritten
      <4>2. PICK s \in Streams : x \in m.open[s].chunks
        BY <2>16, <4>1 DEF CacheInv, DeltasOpen
      <4>3. CASE ~m.open[s].finalSeen
        <5>1. PICK a \in A : a.text = m.open[s].chunks
          BY <4>2, <4>3, AggregateOfStream DEF A
        <5>. QED BY <2>4, <4>2, <5>1, TextOfMember
      <4>4. CASE m.open[s].finalSeen
        <5>1. PICK f \in rows \cup {g \in m.events : g.kind # "delta"} : x \in f.text
          BY <2>16, <4>2, <4>4, TextOfMember DEF FinishedWritten
        <5>2. f \in more \/ f \in left
          BY <5>1 DEF CacheInv, RowsWritten
        <5>. QED BY <2>4, <5>1, <5>2, TextOfMember
      <4>. QED BY <4>3, <4>4
    <3>. QED BY <3>1, <3>2
  <2>17. ok => TextOf(m.events) \subseteq TextOf(c.events) \cup TextOf(more)
    BY <2>16, TextOfMember
  <2>. HIDE DEF more
  <2>18. LET t == TrimCache(c)
         IN  /\ CacheInv(t, more, words, ok)
             /\ FinishedWritten(t, more, ok)
             /\ HasStore => Harvested(t)
             /\ HasStore => Cardinality(Droppable(t)) <= 2 * MEMORY_EVENT_CAP
             /\ ok => TextOf(c.events) \subseteq TextOf(t.events) \cup TextOf(more)
    BY <2>14, <2>15, TrimKeepsCache
  <2>. QED BY <2>3, <2>17, <2>18 DEF more, A
<1>. QED BY <1>3, <1>4

(* A close whose writes stop part of the way keeps the deltas in the cache: *)
(* they still show what the aggregates that were written carry.            *)
LEMMA HalfCloseKeepsCache ==
  ASSUME NEW m, NEW rows, NEW words, NEW ok,
         CacheInv(m, rows, words, ok), HasStore, NEW W \in SUBSET Aggregates(m)
  PROVE  LET c == [m EXCEPT !.open = NothingOpen, !.deltas = {}]
         IN  /\ CacheInv(c, rows \cup W, words, FALSE)
             /\ FinishedWritten(c, rows \cup W, FALSE)
             /\ c.events = m.events
<1>. DEFINE c == [m EXCEPT !.open = NothingOpen, !.deltas = {}]
            more == rows \cup W
<1>1. m \in Mem /\ m.events \subseteq Event /\ rows \subseteq Event
  BY DEF CacheInv, DigestInv, Mem
<1>2. \A a \in W : /\ a \in Event /\ a.kind = "aggregate"
                   /\ a.seq \in m.deltas /\ a.seq > 0
                   /\ a.text \subseteq UNION {words[s] : s \in Streams}
                   /\ \E e \in m.events : e.seq = a.seq
                   /\ \A x \in a.text : \E d \in m.events : d.seq >= a.seq /\ x \in d.text
  BY AggregatesSaid
<1>3. NothingOpen \in [Streams -> OpenStream]
  BY DEF NothingOpen, Absent, OpenStream
<1>4. /\ c \in Mem /\ c.open = NothingOpen /\ c.deltas = {} /\ c.events = m.events
      /\ c.loaded = m.loaded /\ c.evicted = m.evicted
  BY <1>1, <1>3 DEF Mem
<1>. HIDE DEF c
<1>5. \A s \in Streams : c.open[s].seqs = {} /\ c.open[s].chunks = {} /\ ~c.open[s].finalSeen
  BY <1>4 DEF NothingOpen, Absent
<1>6. DigestInv(c)
  <2>1. \A e \in c.events : e.seq <= MaxSeq
    BY <1>4 DEF CacheInv, DigestInv
  <2>. QED BY <1>4, <2>1, ClearedDigest
<1>7. CacheKeyed(c)
  BY <1>4 DEF CacheInv, CacheKeyed
<1>8. ChunksCached(c)
  BY <1>5 DEF ChunksCached
<1>9. DeltasOpen(c, FALSE)
  BY <1>4 DEF CacheInv, DeltasOpen
<1>10. TextSaid(c, more, words)
  BY <1>2, <1>4, <1>5 DEF CacheInv, TextSaid
<1>11. RowsWritten(c, more)
  BY <1>2, <1>4 DEF CacheInv, RowsWritten
<1>12. RowsCached(c, more)
  <2>1. ASSUME NEW r \in more
        PROVE  r.seq <= c.evicted \/ \E e \in c.events : e.seq = r.seq
    BY <1>2, <1>4 DEF CacheInv, RowsCached
  <2>2. ASSUME NEW r \in more, NEW e \in c.events, e.seq = r.seq, e # r, NEW x \in r.text
        PROVE  \E d \in c.events : d.seq >= r.seq /\ d.seq \notin c.deltas /\ x \in d.text
    <3>1. CASE r \in rows
      BY <1>4, <2>2, <3>1 DEF CacheInv, RowsCached
    <3>2. CASE r \in W
      BY <1>2, <1>4, <2>2, <3>2
    <3>. QED BY <3>1, <3>2
  <2>. QED BY <2>1, <2>2 DEF RowsCached
<1>13. more \subseteq Event
  BY <1>1, <1>2
<1>14. FinishedWritten(c, more, FALSE)
  BY <1>4 DEF FinishedWritten
<1>15. CacheInv(c, more, words, FALSE)
  BY <1>6, <1>7, <1>8, <1>9, <1>10, <1>11, <1>12, <1>13 DEF CacheInv
<1>. QED BY <1>4, <1>14, <1>15 DEF c

(* NoteFinal marks a stream that is open, and does nothing else. *)
LEMMA NoteFinalFields ==
  ASSUME NEW m, DigestInv(m), NEW s \in Streams
  PROVE  LET n == NoteFinal(m, s)
         IN  /\ n.loaded = m.loaded /\ n.evicted = m.evicted
             /\ n.events = m.events /\ n.deltas = m.deltas
             /\ \A t \in Streams : /\ n.open[t].first = m.open[t].first
                                   /\ n.open[t].chunks = m.open[t].chunks
                                   /\ n.open[t].seqs = m.open[t].seqs
                                   /\ t # s => n.open[t].finalSeen = m.open[t].finalSeen
             /\ m.open[s].seqs # {} => n.open[s].finalSeen
             /\ m.open[s].finalSeen => n.open[s].finalSeen
<1>. DEFINE o2 == [m.open[s] EXCEPT !.finalSeen = TRUE]
            opened == [m.open EXCEPT ![s] = o2]
            n == NoteFinal(m, s)
<1>1. m \in Mem /\ m.open \in [Streams -> OpenStream] /\ m.open[s] \in OpenStream
  BY DEF DigestInv, Mem
<1>2. CASE m.open[s].seqs = {}
  BY <1>2 DEF NoteFinal
<1>3. CASE m.open[s].seqs # {}
  <2>1. n = [m EXCEPT !.open = opened]
    BY <1>1, <1>3 DEF NoteFinal, Mem
  <2>2. /\ o2.first = m.open[s].first /\ o2.chunks = m.open[s].chunks
        /\ o2.seqs = m.open[s].seqs /\ o2.finalSeen
    BY <1>1 DEF OpenStream
  <2>. HIDE DEF o2
  <2>3. opened[s] = o2 /\ \A t \in Streams : t # s => opened[t] = m.open[t]
    BY <1>1
  <2>. HIDE DEF opened, n
  <2>4. /\ n.open = opened /\ n.loaded = m.loaded /\ n.evicted = m.evicted
        /\ n.events = m.events /\ n.deltas = m.deltas
    BY <1>1, <2>1 DEF Mem
  <2>5. ASSUME NEW t \in Streams
        PROVE  /\ n.open[t].first = m.open[t].first
               /\ n.open[t].chunks = m.open[t].chunks
               /\ n.open[t].seqs = m.open[t].seqs
               /\ t # s => n.open[t].finalSeen = m.open[t].finalSeen
    BY <2>2, <2>3, <2>4
  <2>6. n.open[s].finalSeen
    BY <2>2, <2>3, <2>4
  <2>. QED BY <2>4, <2>5, <2>6 DEF n
<1>. QED BY <1>2, <1>3

(* The marks of the digest do not matter to the cache and the rows. *)
LEMMA NoteFinalKeepsCache ==
  ASSUME NEW m, NEW rows, NEW words, NEW ok, CacheInv(m, rows, words, ok), NEW s \in Streams
  PROVE  CacheInv(NoteFinal(m, s), rows, words, ok)
<1>. DEFINE n == NoteFinal(m, s)
<1>1. /\ n.loaded = m.loaded /\ n.evicted = m.evicted
      /\ n.events = m.events /\ n.deltas = m.deltas
      /\ \A t \in Streams : /\ n.open[t].first = m.open[t].first
                            /\ n.open[t].chunks = m.open[t].chunks
                            /\ n.open[t].seqs = m.open[t].seqs
  BY NoteFinalFields DEF CacheInv
<1>2. DigestInv(n)
  BY NoteFinalKeepsDigest DEF CacheInv
<1>. HIDE DEF n
<1>3. CacheKeyed(n)
  BY <1>1 DEF CacheInv, CacheKeyed
<1>4. ChunksCached(n)
  BY <1>1 DEF CacheInv, ChunksCached
<1>5. DeltasOpen(n, ok)
  BY <1>1 DEF CacheInv, DeltasOpen
<1>6. TextSaid(n, rows, words)
  BY <1>1 DEF CacheInv, TextSaid
<1>7. RowsWritten(n, rows) /\ RowsCached(n, rows)
  BY <1>1 DEF CacheInv, RowsWritten, RowsCached
<1>. QED BY <1>2, <1>3, <1>4, <1>5, <1>6, <1>7 DEF CacheInv, n

(* A final that is written carries what its stream had gathered, and no     *)
(* open delta of another stream.                                           *)
LEMMA FinalIsWritten ==
  ASSUME NEW m, NEW rows, NEW words, NEW ok \in BOOLEAN,
         CacheInv(m, rows, words, ok), FinishedWritten(m, rows, ok), NEW s \in Streams,
         NEW e \in Event, e.kind # "delta", e.seq <= MaxSeq,
         m.open[s].chunks \subseteq e.text, e.text \subseteq words[s]
  PROVE  FinishedWritten(WithEvent(NoteFinal(m, s), e),
                         IF HasStore THEN rows \cup {e} ELSE rows, ok)
<1>. DEFINE n == NoteFinal(m, s)
            p == WithEvent(n, e)
            more == IF HasStore THEN rows \cup {e} ELSE rows
            stored(evs) == {f \in evs : f.kind # "delta"}
<1>1. /\ n.events = m.events /\ n.deltas = m.deltas
      /\ \A t \in Streams : /\ n.open[t].chunks = m.open[t].chunks
                            /\ n.open[t].seqs = m.open[t].seqs
                            /\ t # s => n.open[t].finalSeen = m.open[t].finalSeen
      /\ m.open[s].seqs # {} => n.open[s].finalSeen
      /\ m.open[s].finalSeen => n.open[s].finalSeen
  BY NoteFinalFields DEF CacheInv
<1>2. DigestInv(n)
  BY NoteFinalKeepsDigest DEF CacheInv
<1>. HIDE DEF n
<1>3. p.events = m.events \cup {e} /\ p.open = n.open /\ p.deltas = m.deltas
  BY <1>1, <1>2, WithEventFields
<1>. HIDE DEF p
<1>4. ASSUME ok, NEW t \in Streams, p.open[t].finalSeen
      PROVE  p.open[t].chunks \subseteq TextOf(more \cup stored(p.events))
  <2>1. p.open[t].chunks = m.open[t].chunks
    BY <1>1, <1>3
  <2>2. CASE t = s
    <3>1. e \in stored(p.events)
      BY <1>3
    <3>2. e.text \subseteq TextOf(more \cup stored(p.events))
      BY <3>1, TextOfMember
    <3>. QED BY <2>1, <2>2, <3>2
  <2>3. CASE t # s
    <3>1. m.open[t].finalSeen
      BY <1>1, <1>3, <1>4, <2>3
    <3>2. m.open[t].chunks \subseteq TextOf(rows \cup stored(m.events))
      BY <1>4, <3>1 DEF FinishedWritten
    <3>3. rows \cup stored(m.events) \subseteq more \cup stored(p.events)
      BY <1>3
    <3>. QED BY <2>1, <3>2, <3>3, TextOfMember
  <2>. QED BY <2>2, <2>3
<1>5. ASSUME NEW x \in TextOf(more) \cap p.deltas
      PROVE  \E t \in Streams : p.open[t].finalSeen /\ x \in p.open[t].seqs
  <2>1. CASE x \in TextOf(rows)
    <3>1. PICK t \in Streams : m.open[t].finalSeen /\ x \in m.open[t].seqs
      BY <1>3, <1>5, <2>1 DEF FinishedWritten
    <3>2. n.open[t].finalSeen
      BY <1>1, <3>1
    <3>. QED BY <1>1, <1>3, <3>1, <3>2
  <2>2. CASE x \in e.text
    <3>1. x \in m.open[s].seqs
      BY <1>3, <1>5, <2>2 DEF CacheInv, TextSaid
    <3>. QED BY <1>1, <1>3, <3>1
  <2>3. x \in TextOf(rows) \/ x \in e.text
    BY <1>5, TextOfMember
  <2>. QED BY <2>1, <2>2, <2>3
<1>. QED BY <1>4, <1>5 DEF FinishedWritten, p, n

(* A row without text changes nothing about the finals. *)
LEMMA PlainRowIsWritten ==
  ASSUME NEW m, NEW rows, NEW words, NEW ok \in BOOLEAN,
         CacheInv(m, rows, words, ok), FinishedWritten(m, rows, ok),
         NEW e \in Event, e.kind # "delta", e.seq <= MaxSeq, e.text = {}
  PROVE  FinishedWritten(WithEvent(m, e), IF HasStore THEN rows \cup {e} ELSE rows, ok)
<1>. DEFINE p == WithEvent(m, e)
            more == IF HasStore THEN rows \cup {e} ELSE rows
            stored(evs) == {f \in evs : f.kind # "delta"}
<1>1. p.events = m.events \cup {e} /\ p.open = m.open /\ p.deltas = m.deltas
  BY WithEventFields DEF CacheInv
<1>. HIDE DEF p
<1>2. rows \cup stored(m.events) \subseteq more \cup stored(p.events)
  BY <1>1
<1>3. TextOf(rows \cup stored(m.events)) \subseteq TextOf(more \cup stored(p.events))
  BY <1>2, TextOfMember
<1>4. TextOf(more) \subseteq TextOf(rows)
  BY TextOfMember
<1>. QED BY <1>1, <1>3, <1>4 DEF FinishedWritten, p

(* The last n rows of the log: all but older rows, at most n of them, and   *)
(* some of them unless there are none.                                     *)
LEMMA TailIsNewest ==
  ASSUME NEW rows, rows \subseteq Event, \A e, f \in rows : e.seq = f.seq => e = f,
         \A e \in rows : e.seq <= MaxSeq, NEW n \in Nat \ {0}
  PROVE  LET tail == {e \in rows : Cardinality({f \in rows : f.seq > e.seq}) < n}
         IN  /\ \A e \in rows \ tail, t \in tail : e.seq < t.seq
             /\ Cardinality(tail) <= n
             /\ rows # {} => tail # {}
<1>. DEFINE above(e) == {f \in rows : f.seq > e.seq}
            tail == {e \in rows : Cardinality(above(e)) < n}
<1>1. IsFiniteSet(rows)
  BY KeyedIsFinite
<1>2. \A e \in rows : above(e) \in SUBSET rows /\ IsFiniteSet(above(e)) /\ Cardinality(above(e)) \in Nat
  BY <1>1, FS_Subset, FS_CardinalityType
<1>3. ASSUME NEW e \in rows \ tail, NEW t \in tail
      PROVE  e.seq < t.seq
  <2>. SUFFICES ASSUME t.seq <= e.seq PROVE FALSE
    BY DEF Event
  <2>1. above(e) \in SUBSET above(t)
    BY DEF Event
  <2>2. ~(Cardinality(above(e)) < n) /\ Cardinality(above(t)) < n
    OBVIOUS
  <2>. HIDE DEF above
  <2>3. Cardinality(above(e)) <= Cardinality(above(t))
    BY <1>2, <2>1, FS_Subset
  <2>. QED BY <1>2, <2>2, <2>3
<1>4. Cardinality(tail) <= n
  <2>1. CASE tail = {}
    <3>1. Cardinality({}) = 0
      BY FS_EmptySet
    <3>. HIDE DEF tail
    <3>2. Cardinality(tail) = 0
      BY <2>1, <3>1
    <3>. QED BY <3>2
  <2>2. CASE tail # {}
    <3>1. SeqsOf(tail) \in SUBSET Nat /\ SeqsOf(tail) # {}
      <4>1. tail \subseteq Event
        OBVIOUS
      <4>. HIDE DEF tail
      <4>. QED BY <2>2, <4>1 DEF SeqsOf, Event
    <3>2. PICK q \in SeqsOf(tail) : \A y \in SeqsOf(tail) : q <= y
      BY <3>1, LeastExists
    <3>3. PICK t \in tail : t.seq = q
      BY DEF SeqsOf
    <3>4. \A e \in tail : t.seq <= e.seq /\ e.seq \in Nat
      BY <3>1, <3>2, <3>3 DEF SeqsOf
    <3>5. tail \ {t} \in SUBSET above(t)
      <4>1. \A e \in tail : e \in rows
        OBVIOUS
      <4>2. ASSUME NEW e \in tail, e # t PROVE e \in above(t)
        <5>1. e.seq # t.seq
          BY <4>1, <4>2
        <5>2. e.seq > t.seq
          BY <3>4, <5>1
        <5>. QED BY <4>1, <5>2
      <4>. QED BY <4>2
    <3>6. Cardinality(above(t)) < n /\ t \in rows
      BY <3>3
    <3>7. IsFiniteSet(tail) /\ Cardinality(tail) \in Nat
      <4>1. tail \in SUBSET rows
        OBVIOUS
      <4>. HIDE DEF tail
      <4>. QED BY <1>1, <4>1, FS_Subset, FS_CardinalityType
    <3>. HIDE DEF tail, above
    <3>8. Cardinality(tail \ {t}) = Cardinality(tail) - 1
      BY <3>3, <3>7, FS_RemoveElement
    <3>9. Cardinality(tail \ {t}) <= Cardinality(above(t))
      BY <1>2, <3>5, <3>6, FS_Subset
    <3>. QED BY <1>2, <3>6, <3>7, <3>8, <3>9
  <2>. QED BY <2>1, <2>2
<1>5. ASSUME rows # {} PROVE tail # {}
  <2>1. SeqsOf(rows) \in SUBSET Nat /\ SeqsOf(rows) # {} /\ \A q \in SeqsOf(rows) : q <= MaxSeq
    BY <1>5 DEF SeqsOf, Event
  <2>2. PICK q \in SeqsOf(rows) : \A y \in SeqsOf(rows) : q >= y
    BY <2>1, HighestIsMax, BoundsAssumption
  <2>3. PICK r \in rows : r.seq = q
    BY DEF SeqsOf
  <2>4. \A e \in rows : e.seq <= r.seq /\ e.seq \in Nat
    BY <2>1, <2>2, <2>3 DEF SeqsOf
  <2>5. above(r) = {}
    BY <2>4
  <2>6. Cardinality({}) = 0
    BY FS_EmptySet
  <2>7. Cardinality(above(r)) = 0
    <3>. HIDE DEF above
    <3>. QED BY <2>5, <2>6
  <2>. HIDE DEF above
  <2>8. r \in tail
    BY <2>7
  <2>. QED BY <2>8
<1>. QED BY <1>3, <1>4, <1>5

(* A Session of a process that has just booted, and the same once it has    *)
(* loaded the tail of the given rows.                                      *)
Booted == [events |-> {}, evicted |-> 0, open |-> NothingOpen, deltas |-> {}, loaded |-> FALSE]

TailOf(rows) == {e \in rows : Cardinality({f \in rows : f.seq > e.seq}) < MEMORY_EVENT_CAP}

Reloaded(rows) ==
  [events |-> TailOf(rows),
   evicted |-> IF TailOf(rows) = {} THEN 0 ELSE Larger(0, Lowest(SeqsOf(TailOf(rows))) - 1),
   open |-> NothingOpen, deltas |-> {}, loaded |-> TRUE]

(* The text of the cache and of the log together. *)
AllText(m, rows) == TextOf(m.events) \cup TextOf(rows)

(* No finished stream is left in the digest, and the cache is in its bound. *)
Trimmed(m) == Harvested(m) /\ Cardinality(Droppable(m)) <= 2 * MEMORY_EVENT_CAP

(* The history of a Session m whose tail is loaded: the cache, digest and   *)
(* rows agree, every cached event and every text has been issued, and until *)
(* a write fails all text is there but what a crash destroyed.             *)
Untrimmed(m, rows, words, ok, high, lost) ==
  /\ CacheInv(m, rows, words, ok)
  /\ FinishedWritten(m, rows, ok)
  /\ \A e \in m.events : e.seq <= high \/ e \in rows
  /\ words \in [Streams -> SUBSET Nat]
  /\ \A s \in Streams : \A x \in words[s] : x <= high
  /\ ok => \A s \in Streams : words[s] \ lost \subseteq AllText(m, rows)

(* The same between two steps: with a store, and until a write fails, the   *)
(* cache has been trimmed.                                                 *)
Hist(m, rows, words, ok, high, lost) ==
  /\ Untrimmed(m, rows, words, ok, high, lost)
  /\ ok /\ HasStore => Trimmed(m)

HistoryInv ==
  /\ Hist(EnsureHydrated(mem), log, spoken, failures = 0, top, crashLost)
  /\ mem.loaded \/ mem = Booted

(* The rows that survived a crash are a history, whatever tail of them is   *)
(* loaded: what the tail leaves out lies below `evicted`.                  *)
LEMMA ReloadedIsHistory ==
  ASSUME HasStore, NEW rows, rows \subseteq Event, \A e, f \in rows : e.seq = f.seq => e = f,
         \A r \in rows : r.kind # "delta" /\ r.seq > 0 /\ r.seq <= MaxSeq,
         NEW words \in [Streams -> SUBSET Nat], NEW high, NEW ok \in BOOLEAN,
         \A s \in Streams : \A x \in words[s] : x <= high,
         \A r \in rows : r.text \subseteq UNION {words[s] : s \in Streams}
  PROVE  /\ Hist(Reloaded(rows), rows, words, ok, high, (UNION {words[s] : s \in Streams}) \ TextOf(rows))
         /\ AllText(Reloaded(rows), rows) = TextOf(rows)
<1>. DEFINE tail == TailOf(rows)
            m == Reloaded(rows)
            lost == (UNION {words[s] : s \in Streams}) \ TextOf(rows)
            low == IF tail = {} THEN 0 ELSE Larger(0, Lowest(SeqsOf(tail)) - 1)
<1>1. MEMORY_EVENT_CAP \in Nat \ {0} /\ MEMORY_EVENT_CAP \in Nat
  BY CapAssumption
<1>2. /\ \A e \in rows \ tail, t \in tail : e.seq < t.seq
      /\ Cardinality(tail) <= MEMORY_EVENT_CAP
      /\ rows # {} => tail # {}
  BY <1>1, TailIsNewest DEF TailOf
<1>3. tail \subseteq rows
  BY DEF TailOf
<1>4. /\ m.events = tail /\ m.evicted = low /\ m.open = NothingOpen
      /\ m.deltas = {} /\ m.loaded = TRUE
      /\ m = [events |-> tail, evicted |-> low, open |-> NothingOpen, deltas |-> {}, loaded |-> TRUE]
  BY DEF Reloaded
<1>. HIDE DEF tail, m
<1>5. low \in Nat /\ \A e \in rows \ tail : e.seq <= low
  <2>1. CASE tail = {}
    BY <1>2, <2>1
  <2>2. CASE tail # {}
    <3>1. SeqsOf(tail) \in SUBSET Nat /\ SeqsOf(tail) # {}
      BY <1>3, <2>2 DEF SeqsOf, Event
    <3>2. Lowest(SeqsOf(tail)) \in SeqsOf(tail) /\ Lowest(SeqsOf(tail)) \in Nat
      BY <3>1, LowestIsMin
    <3>3. PICK t \in tail : t.seq = Lowest(SeqsOf(tail))
      BY <3>2 DEF SeqsOf
    <3>4. \A e \in rows \ tail : e.seq < Lowest(SeqsOf(tail)) /\ e.seq \in Nat
      BY <1>2, <3>3 DEF Event
    <3>. QED BY <2>2, <3>2, <3>4 DEF Larger
  <2>. QED BY <2>1, <2>2
<1>. HIDE DEF low
<1>6. NothingOpen \in [Streams -> OpenStream]
  BY DEF NothingOpen, Absent, OpenStream
<1>7. m \in Mem
  BY <1>3, <1>4, <1>5, <1>6 DEF Mem
<1>8. DigestInv(m)
  <2>1. \A e \in m.events : e.seq <= MaxSeq
    BY <1>3, <1>4
  <2>. QED BY <1>4, <1>7, <2>1, ClearedDigest
<1>9. \A s \in Streams : m.open[s].seqs = {} /\ m.open[s].chunks = {} /\ ~m.open[s].finalSeen
  BY <1>4 DEF NothingOpen, Absent
<1>10. CacheKeyed(m)
  BY <1>3, <1>4 DEF CacheKeyed
<1>11. ChunksCached(m) /\ DeltasOpen(m, ok)
  BY <1>3, <1>4, <1>9 DEF ChunksCached, DeltasOpen
<1>12. TextSaid(m, rows, words)
  BY <1>3, <1>4, <1>9 DEF TextSaid
<1>13. RowsWritten(m, rows)
  BY <1>3, <1>4 DEF RowsWritten
<1>14. RowsCached(m, rows)
  <2>1. ASSUME NEW r \in rows
        PROVE  r.seq <= m.evicted \/ \E e \in m.events : e.seq = r.seq
    BY <1>4, <1>5
  <2>2. \A r \in rows, e \in m.events : e.seq = r.seq => e = r
    BY <1>3, <1>4
  <2>. QED BY <2>1, <2>2 DEF RowsCached
<1>15. FinishedWritten(m, rows, ok) /\ Harvested(m)
  BY <1>4, <1>9 DEF FinishedWritten, Harvested
<1>16. Cardinality(Droppable(m)) <= 2 * MEMORY_EVENT_CAP
  <2>1. Droppable(m) = tail
    BY <1>4 DEF Droppable
  <2>2. IsFiniteSet(tail)
    BY <1>3, KeyedIsFinite
  <2>3. Cardinality(tail) \in Nat
    BY <2>2, FS_CardinalityType
  <2>. QED BY <1>1, <1>2, <2>1, <2>3
<1>17. CacheInv(m, rows, words, ok)
  BY <1>8, <1>10, <1>11, <1>12, <1>13, <1>14 DEF CacheInv
<1>18. AllText(m, rows) = TextOf(rows)
  <2>1. TextOf(m.events) \subseteq TextOf(rows)
    BY <1>3, <1>4, TextOfMember
  <2>. QED BY <2>1 DEF AllText
<1>19. \A s \in Streams : words[s] \ lost \subseteq AllText(m, rows)
  <2>1. ASSUME NEW s \in Streams, NEW x \in words[s], x \notin lost
        PROVE  x \in TextOf(rows)
    <3>1. x \in UNION {words[t] : t \in Streams}
      OBVIOUS
    <3>. QED BY <2>1, <3>1
  <2>. HIDE DEF lost
  <2>. QED BY <1>18, <2>1
<1>20. \A e \in m.events : e \in rows
  BY <1>3, <1>4
<1>. HIDE DEF lost
<1>21. Hist(m, rows, words, ok, high, lost)
  BY <1>15, <1>16, <1>17, <1>19, <1>20 DEF Hist, Untrimmed, Trimmed
<1>. QED BY <1>18, <1>21 DEF m, lost

(* Pushing an event p already holds trims the cache and keeps the history. *)
LEMMA TrimmedIsHistory ==
  ASSUME NEW p, NEW rows, NEW words, NEW ok \in BOOLEAN, NEW high, NEW lost,
         Untrimmed(p, rows, words, ok, high, lost)
  PROVE  LET t == TrimCache(p)
         IN  /\ Hist(t, rows, words, ok, high, lost)
             /\ HasStore => Trimmed(t)
             /\ ok => AllText(p, rows) \subseteq AllText(t, rows)
             /\ t.deltas \subseteq p.deltas
             /\ t.events \subseteq p.events
<1>. DEFINE t == TrimCache(p)
<1>1. CacheInv(p, rows, words, ok) /\ FinishedWritten(p, rows, ok)
  BY DEF Untrimmed
<1>2. /\ CacheInv(t, rows, words, ok)
      /\ FinishedWritten(t, rows, ok)
      /\ HasStore => Trimmed(t)
      /\ ok => TextOf(p.events) \subseteq TextOf(t.events) \cup TextOf(rows)
  BY <1>1, TrimKeepsCache DEF Trimmed
<1>3. t.deltas \subseteq p.deltas /\ t.events \subseteq p.events
  BY <1>1, TrimKeepsDigest DEF CacheInv
<1>. HIDE DEF t
<1>4. ok => AllText(p, rows) \subseteq AllText(t, rows)
  BY <1>2 DEF AllText
<1>5. Untrimmed(t, rows, words, ok, high, lost)
  BY <1>2, <1>3, <1>4 DEF Untrimmed
<1>. QED BY <1>2, <1>3, <1>4, <1>5 DEF t, Hist

(* The stored event e is next in the history of m, and n is the Session     *)
(* that has noted it.                                                      *)
IsNextRow(m, rows, words, ok, high, lost, n, e) ==
  /\ Hist(m, rows, words, ok, high, lost)
  /\ high \in Nat /\ e \in Event /\ e.kind # "delta" /\ e.seq > high /\ e.seq <= MaxSeq
  /\ \A r \in rows : r.seq < e.seq
  /\ \/ n = m /\ e.text = {}
     \/ \E s \in Streams : /\ n = NoteFinal(m, s)
                           /\ m.open[s].chunks \subseteq e.text
                           /\ e.text \subseteq words[s]

(* What pushing it keeps. *)
PushKeeps(m, rows, words, ok, lost, n, e) ==
  LET t == Push(n, e)
      more == IF HasStore THEN rows \cup {e} ELSE rows
  IN  /\ Hist(t, more, words, ok, e.seq, lost)
      /\ HasStore => Trimmed(t)
      /\ ok => AllText(m, rows) \subseteq AllText(t, more)
      /\ t.deltas \subseteq m.deltas
      /\ t.events \subseteq m.events \cup {e}

(* Pushing a stored event with a fresh seq: a final of stream s that has    *)
(* what the stream gathered, or an event without text.                     *)
LEMMA PushIsHistory ==
  ASSUME NEW m, NEW rows, NEW words, NEW ok \in BOOLEAN, NEW high, NEW lost, NEW n, NEW e,
         IsNextRow(m, rows, words, ok, high, lost, n, e)
  PROVE  PushKeeps(m, rows, words, ok, lost, n, e)
<1>. DEFINE p == WithEvent(n, e)
            more == IF HasStore THEN rows \cup {e} ELSE rows
<1>. /\ Hist(m, rows, words, ok, high, lost)
     /\ high \in Nat /\ e \in Event /\ e.kind # "delta" /\ e.seq > high /\ e.seq <= MaxSeq
  BY DEF IsNextRow
<1>1. CacheInv(m, rows, words, ok) /\ FinishedWritten(m, rows, ok)
  BY DEF Hist, Untrimmed
<1>2. /\ CacheInv(n, rows, words, ok)
      /\ n.events = m.events /\ n.deltas = m.deltas
      /\ e.text \subseteq UNION {words[s] : s \in Streams}
      /\ FinishedWritten(p, more, ok)
  <2>1. CASE n = m /\ e.text = {}
    BY <1>1, <2>1, PlainRowIsWritten
  <2>2. ASSUME NEW s \in Streams, n = NoteFinal(m, s),
               m.open[s].chunks \subseteq e.text, e.text \subseteq words[s]
        PROVE  /\ CacheInv(n, rows, words, ok)
               /\ n.events = m.events /\ n.deltas = m.deltas
               /\ e.text \subseteq UNION {words[t] : t \in Streams}
               /\ FinishedWritten(p, more, ok)
    <3>1. CacheInv(n, rows, words, ok)
      BY <1>1, <2>2, NoteFinalKeepsCache
    <3>2. n.events = m.events /\ n.deltas = m.deltas
      BY <1>1, <2>2, NoteFinalFields DEF CacheInv
    <3>3. FinishedWritten(WithEvent(NoteFinal(m, s), e), more, ok)
      BY <1>1, <2>2, FinalIsWritten
    <3>. QED BY <2>2, <3>1, <3>2, <3>3
  <2>. QED BY <2>1, <2>2 DEF IsNextRow
<1>3. \A f \in m.events \cup rows : f.seq < e.seq
  <2>1. m.events \subseteq Event /\ e.seq \in Nat
    BY <1>1 DEF CacheInv, DigestInv, Mem, Event
  <2>. QED BY <2>1 DEF IsNextRow, Hist, Untrimmed, Event
<1>4. e.seq > 0 /\ e.seq \in Nat
  BY DEF Event
<1>5. CacheInv(p, more, words, ok)
  BY <1>2, <1>3, <1>4, RowKeepsCache
<1>6. p.events = m.events \cup {e} /\ p.deltas = m.deltas
  BY <1>2, WithEventFields DEF CacheInv
<1>7. words \in [Streams -> SUBSET Nat] /\ \A s \in Streams : \A x \in words[s] : x <= e.seq
  BY <1>4 DEF Hist, Untrimmed, Event
<1>8. \A f \in p.events : f.seq <= e.seq \/ f \in more
  BY <1>3, <1>4, <1>6, <1>1 DEF CacheInv, DigestInv, Mem, Event
<1>9. AllText(m, rows) \subseteq AllText(p, more)
  <2>1. m.events \subseteq p.events /\ rows \subseteq more
    BY <1>6
  <2>. HIDE DEF p, more
  <2>2. TextOf(m.events) \subseteq TextOf(p.events) /\ TextOf(rows) \subseteq TextOf(more)
    BY <2>1, TextOfMember
  <2>. QED BY <2>2 DEF AllText
<1>10. ok => \A s \in Streams : words[s] \ lost \subseteq AllText(p, more)
  BY <1>9 DEF Hist, Untrimmed
<1>. HIDE DEF p, more
<1>11. LET t == TrimCache(p)
       IN  /\ Hist(t, more, words, ok, e.seq, lost)
           /\ HasStore => Trimmed(t)
           /\ ok => AllText(p, more) \subseteq AllText(t, more)
           /\ t.deltas \subseteq p.deltas
           /\ t.events \subseteq p.events
  <2>1. Untrimmed(p, more, words, ok, e.seq, lost)
    BY <1>2, <1>5, <1>7, <1>8, <1>10 DEF Untrimmed
  <2>. QED BY <2>1, TrimmedIsHistory
<1>12. Push(n, e) = TrimCache(p)
  BY DEF Push, p, WithEvent
<1>. QED BY <1>6, <1>9, <1>11, <1>12 DEF more, PushKeeps

(* Closing the turn of a trimmed cache keeps the history and its text. *)
LEMMA CloseIsHistory ==
  ASSUME NEW m, NEW rows, NEW words, NEW ok \in BOOLEAN, NEW high, NEW lost,
         Hist(m, rows, words, ok, high, lost), HasStore => Trimmed(m)
  PROVE  LET c == CloseStreams(m)
             more == IF HasStore THEN rows \cup Aggregates(m) ELSE rows
         IN  /\ Hist(c, more, words, ok, high, lost)
             /\ ok => AllText(m, rows) \subseteq AllText(c, more)
             /\ c.deltas = {}
<1>. DEFINE A == Aggregates(m)
            c == CloseStreams(m)
            more == IF HasStore THEN rows \cup A ELSE rows
<1>1. CacheInv(m, rows, words, ok) /\ FinishedWritten(m, rows, ok)
  BY DEF Hist, Untrimmed
<1>2. HasStore => Harvested(m) /\ Cardinality(Droppable(m)) <= 2 * MEMORY_EVENT_CAP
  BY DEF Trimmed
<1>3. /\ CacheInv(c, more, words, ok)
      /\ FinishedWritten(c, more, ok)
      /\ HasStore => Trimmed(c)
      /\ ok => TextOf(m.events) \subseteq TextOf(c.events) \cup TextOf(more)
  BY <1>1, <1>2, CloseKeepsCache DEF Trimmed
<1>4. c.deltas = {} /\ c.events \subseteq m.events \cup A
  BY <1>1, CloseKeepsDigest DEF CacheInv
<1>5. ASSUME NEW e \in c.events
      PROVE  e.seq <= high \/ e \in more
  <2>1. CASE e \in m.events
    BY <2>1 DEF Hist, Untrimmed
  <2>2. CASE e \in A
    <3>1. PICK f \in m.events : f.seq = e.seq /\ e.seq \in m.deltas
      BY <1>1, <2>2, AggregatesSaid
    <3>2. f \notin rows
      BY <1>1, <3>1 DEF CacheInv, RowsWritten
    <3>. QED BY <3>1, <3>2 DEF Hist, Untrimmed
  <2>. QED BY <1>4, <2>1, <2>2
<1>. HIDE DEF c, A
<1>6. rows \subseteq more
  OBVIOUS
<1>. HIDE DEF more
<1>7. ok => AllText(m, rows) \subseteq AllText(c, more)
  <2>1. TextOf(rows) \subseteq TextOf(more)
    BY <1>6, TextOfMember
  <2>. QED BY <1>3, <2>1 DEF AllText
<1>8. Untrimmed(c, more, words, ok, high, lost)
  BY <1>3, <1>5, <1>7 DEF Hist, Untrimmed
<1>. QED BY <1>3, <1>4, <1>7, <1>8 DEF Hist, c, more, A

-----------------------------------------------------------------------------
(* What each action does to the history *)

Said == UNION {spoken[s] : s \in Streams}

(* An event was recorded: the text grows by what the event said. *)
HistoryGrows ==
  /\ Hist(mem', log', spoken', failures' = 0, top', crashLost')
  /\ failures' = failures
  /\ log \subseteq log'
  /\ top' > top
  /\ mem'.deltas \subseteq mem.deltas \cup {top'}
  /\ Said' \in {Said, Said \cup {top'}}
  /\ failures = 0 => AllText(EnsureHydrated(mem), log) \cup (Said' \ Said) \subseteq AllText(mem', log')

(* A write failed: the rows that were written stay. *)
HistoryFaulty ==
  /\ Hist(mem', log', spoken', FALSE, top', crashLost')
  /\ failures' > 0
  /\ log \subseteq log'
  /\ top' >= top
  /\ mem'.deltas \subseteq mem.deltas
  /\ spoken' = spoken

(* A Session that has loaded its tail is its own reloaded form. *)
LEMMA LoadedIsHydrated ==
  /\ mem.loaded => EnsureHydrated(mem) = mem
  /\ mem'.loaded => EnsureHydrated(mem)' = mem'
BY DEF EnsureHydrated

(* What the actions start from: the loaded Session and a fresh seq. *)
LEMMA HistoryStart ==
  ASSUME IInv, HistoryInv
  PROVE  LET h == EnsureHydrated(mem)
         IN  /\ Hist(h, log, spoken, failures = 0, top, crashLost)
             /\ DigestInv(h) /\ h.deltas = mem.deltas /\ h.open = mem.open
             /\ top \in Nat /\ NextSeqFor \in Nat /\ NextSeqFor > top /\ log \subseteq Event
             /\ \A r \in log : r.seq < NextSeqFor
             /\ \A f \in h.events \cup log : f.seq < NextSeqFor
<1>. DEFINE h == EnsureHydrated(mem)
<1>1. Hist(h, log, spoken, failures = 0, top, crashLost)
  BY DEF HistoryInv
<1>2. DigestInv(h) /\ h.deltas = mem.deltas /\ h.open = mem.open
  BY HydrateKeepsDigest DEF IInv, TypeOK
<1>. HIDE DEF h
<1>3. /\ top \in Nat /\ NextSeqFor \in Nat /\ NextSeqFor > top
      /\ \A r \in log : r.seq < NextSeqFor
  BY NextSeqIsAbove DEF IInv, TypeOK
<1>4. \A f \in h.events : f.seq < NextSeqFor
  <2>1. h.events \subseteq Event
    BY <1>2 DEF DigestInv, Mem
  <2>2. \A f \in h.events : f.seq <= top \/ f \in log
    BY <1>1 DEF Hist, Untrimmed
  <2>. QED BY <1>3, <2>1, <2>2 DEF Event
<1>. QED BY <1>1, <1>2, <1>3, <1>4 DEF h, IInv, TypeOK

(* A streamed delta. *)
LEMMA DeltaHistory ==
  ASSUME IInv, HistoryInv, NEW s \in Streams, NEW chunk \in BOOLEAN, RecordDelta(s, chunk)
  PROVE  HistoryGrows
<1>. DEFINE q == NextSeqFor
            h == EnsureHydrated(mem)
            e == [seq |-> q, kind |-> "delta", stream |-> s, text |-> IF chunk THEN {q} ELSE {}]
            n == NoteDelta(h, s, q, chunk)
            p == WithEvent(n, e)
            words == [spoken EXCEPT ![s] = @ \cup e.text]
            ok == failures = 0
<1>1. /\ Hist(h, log, spoken, ok, top, crashLost)
      /\ DigestInv(h) /\ h.deltas = mem.deltas /\ h.open = mem.open
      /\ top \in Nat /\ q \in Nat /\ q > top /\ log \subseteq Event
      /\ \A f \in h.events \cup log : f.seq < q
  BY HistoryStart
<1>2. /\ mem' = TrimCache(p) /\ top' = q /\ q <= MaxSeq
      /\ spoken' = words
      /\ HasStore \/ ~mem.open[s].finalSeen
      /\ UNCHANGED <<log, crashLost, crashes, failures>>
  BY DEF RecordDelta, Push, WithEvent
<1>3. e \in Event /\ e.text \subseteq {q} /\ e.text \in SUBSET Nat /\ e.seq = q
  BY <1>1 DEF Event
<1>. HIDE DEF h, q
<1>4. spoken \in [Streams -> SUBSET Nat]
  BY DEF IInv, TypeOK
<1>5. ok => ~h.open[s].finalSeen
  <2>1. CASE HasStore
    BY <1>1, <2>1 DEF Hist, Trimmed, Harvested
  <2>2. CASE ~HasStore
    BY <1>1, <1>2, <2>2
  <2>. QED BY <2>1, <2>2
<1>6. \A t \in Streams : \A x \in spoken[t] : x <= top /\ x \in Nat
  BY <1>1, <1>4 DEF Hist, Untrimmed
<1>7. ok \in BOOLEAN
  OBVIOUS
<1>. HIDE DEF ok
<1>8. /\ CacheInv(p, log, words, ok)
      /\ FinishedWritten(p, log, ok)
      /\ p.events = h.events \cup {e}
  <2>1. CacheInv(h, log, spoken, ok) /\ FinishedWritten(h, log, ok)
    BY <1>1 DEF Hist, Untrimmed
  <2>2. IsFresh(q, h, log, spoken)
    BY <1>1, <1>2, <1>4, <1>6 DEF IsFresh
  <2>. HIDE DEF e
  <2>3. LET d == DeltaEvent(s, q, chunk)
            w == WithEvent(NoteDelta(h, s, q, chunk), d)
        IN  /\ CacheInv(w, log, [spoken EXCEPT ![s] = @ \cup d.text], ok)
            /\ FinishedWritten(w, log, ok)
            /\ w.events = h.events \cup {d}
    BY <1>5, <1>7, <2>1, <2>2, DeltaKeepsCache
  <2>4. e = DeltaEvent(s, q, chunk)
    BY DEF e, DeltaEvent
  <2>. QED BY <2>3, <2>4
<1>9. p.deltas = mem.deltas \cup {q}
  <2>1. DigestInv(n) /\ n.deltas = h.deltas \cup {q}
    <3>1. q \notin h.deltas
      BY <1>1, NextSeqIsAbove DEF q, IInv, TypeOK, Mem
    <3>. QED BY <1>1, <1>2, <3>1, NoteDeltaKeepsDigest
  <2>. HIDE DEF n
  <2>2. e.seq <= MaxSeq
    BY <1>2, <1>3
  <2>. HIDE DEF e
  <2>. QED BY <1>1, <1>3, <2>1, <2>2, WithEventFields
<1>. HIDE DEF p, n, e
<1>10. words \in [Streams -> SUBSET Nat]
  BY <1>3, <1>4
<1>11. \A t \in Streams : spoken[t] \subseteq words[t] /\ words[t] \subseteq spoken[t] \cup e.text
  BY <1>4
<1>12. words[s] = spoken[s] \cup e.text
  BY <1>4
<1>. HIDE DEF words
<1>13. \A t \in Streams : \A x \in words[t] : x <= q
  BY <1>1, <1>3, <1>6, <1>11
<1>14. \A f \in p.events : f.seq <= q \/ f \in log
  <2>1. h.events \subseteq Event
    BY <1>1 DEF DigestInv, Mem
  <2>. QED BY <1>1, <1>3, <1>8, <2>1 DEF Event
<1>15. AllText(h, log) \cup e.text \subseteq AllText(p, log)
  <2>1. e \in p.events /\ h.events \subseteq p.events
    BY <1>8
  <2>2. TextOf(h.events) \subseteq TextOf(p.events) /\ e.text \subseteq TextOf(p.events)
    BY <2>1, TextOfMember
  <2>. QED BY <2>2 DEF AllText
<1>16. ok => \A t \in Streams : words[t] \ crashLost \subseteq AllText(p, log)
  BY <1>1, <1>11, <1>15 DEF Hist, Untrimmed
<1>17. Untrimmed(p, log, words, ok, q, crashLost)
  BY <1>8, <1>10, <1>13, <1>14, <1>16 DEF Untrimmed
<1>18. /\ Hist(mem', log, words, ok, q, crashLost)
       /\ ok => AllText(p, log) \subseteq AllText(mem', log)
       /\ mem'.deltas \subseteq mem.deltas \cup {q}
  BY <1>2, <1>7, <1>9, <1>17, TrimmedIsHistory
<1>19. Said' \in {Said, Said \cup {q}} /\ Said' \subseteq Said \cup e.text
  <2>1. Said' = Said \cup e.text
    BY <1>2, <1>11, <1>12 DEF Said
  <2>2. e.text = {} \/ e.text = {q}
    BY <1>3
  <2>. QED BY <2>1, <2>2
<1>20. ok => AllText(h, log) \cup (Said' \ Said) \subseteq AllText(mem', log)
  BY <1>15, <1>18, <1>19
<1>21. (failures' = 0) = ok
  BY <1>2 DEF ok
<1>22. Hist(mem', log', spoken', failures' = 0, top', crashLost')
  BY <1>2, <1>18, <1>21
<1>. QED BY <1>1, <1>2, <1>18, <1>19, <1>20, <1>22 DEF HistoryGrows, h, ok

(* A stored event: a final that has what its stream gathered, or a note. *)
LEMMA RowHistory ==
  ASSUME IInv, HistoryInv, NEW n, NEW e \in Event, e.kind # "delta", e.seq = NextSeqFor,
         Append(n, e),
         \/ n = EnsureHydrated(mem) /\ e.text = {}
         \/ \E s \in Streams : /\ n = NoteFinal(EnsureHydrated(mem), s)
                               /\ EnsureHydrated(mem).open[s].chunks \subseteq e.text
                               /\ e.text \subseteq spoken[s]
  PROVE  HistoryGrows
<1>. DEFINE h == EnsureHydrated(mem)
            more == IF HasStore THEN log \cup {e} ELSE log
            ok == failures = 0
            t == Push(n, e)
<1>1. /\ Hist(h, log, spoken, ok, top, crashLost)
      /\ h.deltas = mem.deltas
      /\ top \in Nat /\ e.seq \in Nat /\ e.seq > top
      /\ \A r \in log : r.seq < e.seq
  BY HistoryStart
<1>2. /\ mem' = t /\ log' = more /\ top' = e.seq /\ e.seq <= MaxSeq
      /\ UNCHANGED <<spoken, crashLost, failures>>
  BY DEF Append
<1>3. \/ n = h /\ e.text = {}
      \/ \E s \in Streams : /\ n = NoteFinal(h, s)
                            /\ h.open[s].chunks \subseteq e.text
                            /\ e.text \subseteq spoken[s]
  OBVIOUS
<1>4. ok \in BOOLEAN
  OBVIOUS
<1>. HIDE DEF h, ok
<1>10. IsNextRow(h, log, spoken, ok, top, crashLost, n, e)
  BY <1>1, <1>2, <1>3 DEF IsNextRow
<1>5. /\ Hist(t, more, spoken, ok, e.seq, crashLost)
      /\ ok => AllText(h, log) \subseteq AllText(t, more)
      /\ t.deltas \subseteq h.deltas
  <2>1. PushKeeps(h, log, spoken, ok, crashLost, n, e)
    BY <1>10, <1>4, PushIsHistory
  <2>. QED BY <2>1 DEF PushKeeps
<1>6. log \subseteq log'
  BY <1>2
<1>. HIDE DEF t, more
<1>7. (failures' = 0) = ok
  BY <1>2 DEF ok
<1>8. Hist(mem', log', spoken', failures' = 0, top', crashLost')
  BY <1>2, <1>5, <1>7
<1>9. Said' = Said
  BY <1>2 DEF Said
<1>. QED BY <1>1, <1>2, <1>5, <1>6, <1>8, <1>9 DEF HistoryGrows, h, ok

(* A final that is stored has what the digest gathered for its stream. *)
LEMMA FinalHistory ==
  ASSUME IInv, HistoryInv, NEW s \in Streams, NEW given \in BOOLEAN, RecordFinal(s, given)
  PROVE  HistoryGrows
<1>. DEFINE h == EnsureHydrated(mem)
            m == NoteFinal(h, s)
            e == FinalEvent(m, s, given)
<1>1. CacheInv(h, log, spoken, failures = 0) /\ DigestInv(h)
  BY HistoryStart DEF Hist, Untrimmed
<1>2. m.open[s].chunks = h.open[s].chunks
  BY <1>1, NoteFinalFields
<1>3. Append(m, e)
  BY DEF RecordFinal
<1>4. h.open[s].chunks \subseteq spoken[s]
  BY <1>1 DEF CacheInv, TextSaid
<1>5. FinalText(m, s, given) \subseteq spoken[s] /\ h.open[s].chunks \subseteq FinalText(m, s, given)
  BY <1>2, <1>4 DEF FinalText
<1>6. spoken[s] \subseteq Nat
  BY DEF IInv, TypeOK
<1>7. /\ e \in Event /\ e.kind # "delta" /\ e.seq = NextSeqFor
      /\ h.open[s].chunks \subseteq e.text /\ e.text \subseteq spoken[s]
  BY <1>5, <1>6, NextSeqIsAbove DEF FinalEvent, Event, StoredKinds
<1>. HIDE DEF e
<1>. QED BY <1>3, <1>7, RowHistory

(* Any other stored event carries no text. *)
LEMMA NoteHistory ==
  ASSUME IInv, HistoryInv, RecordNote
  PROVE  HistoryGrows
<1>. DEFINE e == [seq |-> NextSeqFor, kind |-> "note", stream |-> NoStream, text |-> {}]
<1>1. Append(EnsureHydrated(mem), e)
  BY DEF RecordNote
<1>2. e \in Event /\ e.kind # "delta" /\ e.seq = NextSeqFor /\ e.text = {}
  BY NextSeqIsAbove DEF Event, StoredKinds
<1>. HIDE DEF e
<1>. QED BY <1>1, <1>2, RowHistory

(* What a closing turn works on, as a history. *)
LEMMA ClosingHistory ==
  ASSUME IInv, HistoryInv, EndEvent.seq <= MaxSeq
  PROVE  LET m == Push(EnsureHydrated(mem), EndEvent)
             more == IF HasStore THEN log \cup {EndEvent} ELSE log
         IN  /\ Hist(m, more, spoken, failures = 0, EndEvent.seq, crashLost)
             /\ HasStore => Trimmed(m)
             /\ failures = 0 => AllText(EnsureHydrated(mem), log) \subseteq AllText(m, more)
             /\ m.deltas \subseteq mem.deltas
             /\ EndEvent.seq \in Nat /\ EndEvent.seq > top
<1>. DEFINE h == EnsureHydrated(mem)
            e == EndEvent
            ok == failures = 0
<1>1. e \in Event /\ e.kind # "delta" /\ e.seq = NextSeqFor /\ e.text = {} /\ e.seq <= MaxSeq
  BY NextSeqIsAbove DEF EndEvent, Event, StoredKinds
<1>2. /\ Hist(h, log, spoken, ok, top, crashLost)
      /\ h.deltas = mem.deltas
      /\ top \in Nat /\ e.seq \in Nat /\ e.seq > top
      /\ \A r \in log : r.seq < e.seq
  BY <1>1, HistoryStart
<1>3. ok \in BOOLEAN
  OBVIOUS
<1>. HIDE DEF h, e, ok
<1>5. IsNextRow(h, log, spoken, ok, top, crashLost, h, e)
  BY <1>1, <1>2 DEF IsNextRow
<1>4. LET t == Push(h, e)
          more == IF HasStore THEN log \cup {e} ELSE log
      IN  /\ Hist(t, more, spoken, ok, e.seq, crashLost)
          /\ HasStore => Trimmed(t)
          /\ ok => AllText(h, log) \subseteq AllText(t, more)
          /\ t.deltas \subseteq h.deltas
          /\ t.events \subseteq h.events \cup {e}
  <2>1. PushKeeps(h, log, spoken, ok, crashLost, h, e)
    BY <1>3, <1>5, PushIsHistory
  <2>. QED BY <2>1 DEF PushKeeps
<1>. QED BY <1>2, <1>4 DEF h, e, ok

(* The end of a turn. *)
LEMMA EndHistory ==
  ASSUME IInv, HistoryInv, RecordEnd
  PROVE  HistoryGrows
<1>. DEFINE m == Push(EnsureHydrated(mem), EndEvent)
            rows == IF HasStore THEN log \cup {EndEvent} ELSE log
            more == IF HasStore THEN rows \cup Aggregates(m) ELSE rows
            ok == failures = 0
            c == CloseStreams(m)
            q == EndEvent.seq
<1>1. EndEvent.seq <= MaxSeq
  BY DEF RecordEnd
<1>2. /\ mem' = c /\ top' = q /\ log' = more
      /\ UNCHANGED <<spoken, crashLost, failures>>
  BY DEF RecordEnd
<1>3. /\ Hist(m, rows, spoken, ok, q, crashLost)
      /\ HasStore => Trimmed(m)
      /\ ok => AllText(EnsureHydrated(mem), log) \subseteq AllText(m, rows)
      /\ q \in Nat /\ q > top
  BY <1>1, ClosingHistory
<1>4. log \subseteq log'
  BY <1>2
<1>5. ok \in BOOLEAN
  OBVIOUS
<1>. HIDE DEF m, ok, rows, q
<1>6. /\ Hist(c, more, spoken, ok, q, crashLost)
      /\ ok => AllText(m, rows) \subseteq AllText(c, more)
      /\ c.deltas = {}
  BY <1>3, <1>5, CloseIsHistory
<1>. HIDE DEF c, more
<1>7. (failures' = 0) = ok
  BY <1>2 DEF ok
<1>8. Hist(mem', log', spoken', failures' = 0, top', crashLost')
  BY <1>2, <1>6, <1>7
<1>9. Said' = Said
  BY <1>2 DEF Said
<1>. QED BY <1>2, <1>3, <1>4, <1>6, <1>8, <1>9 DEF HistoryGrows, ok

(* A history after a failed write promises less. *)
LEMMA FaultyIsHistory ==
  ASSUME NEW m, NEW rows, NEW words, NEW ok, NEW high, NEW lost,
         Hist(m, rows, words, ok, high, lost)
  PROVE  Hist(m, rows, words, FALSE, high, lost)
<1>1. DeltasOpen(m, ok) => DeltasOpen(m, FALSE)
  BY DEF DeltasOpen
<1>2. FinishedWritten(m, rows, ok) => FinishedWritten(m, rows, FALSE)
  BY DEF FinishedWritten
<1>3. CacheInv(m, rows, words, ok) => CacheInv(m, rows, words, FALSE)
  BY <1>1 DEF CacheInv
<1>. QED BY <1>2, <1>3 DEF Hist, Untrimmed

(* A final that cannot be written marks its stream finished all the same. *)
LEMMA FinalFailsHistory ==
  ASSUME IInv, HistoryInv, NEW s \in Streams, NEW given \in BOOLEAN, FinalFails(s, given)
  PROVE  HistoryFaulty
<1>. DEFINE h == EnsureHydrated(mem)
            n == NoteFinal(h, s)
<1>1. /\ mem' = n /\ failures' = failures + 1
      /\ UNCHANGED <<log, top, spoken, crashLost>>
  BY DEF FinalFails
<1>2. /\ Hist(h, log, spoken, FALSE, top, crashLost)
      /\ h.deltas = mem.deltas /\ DigestInv(h) /\ top \in Nat
  BY HistoryStart, FaultyIsHistory
<1>. HIDE DEF h
<1>3. CacheInv(n, log, spoken, FALSE)
  BY <1>2, NoteFinalKeepsCache DEF Hist, Untrimmed
<1>4. /\ n.events = h.events /\ n.deltas = h.deltas
      /\ \A t \in Streams : n.open[t].seqs = h.open[t].seqs
      /\ \A t \in Streams : h.open[t].finalSeen => n.open[t].finalSeen
  <2>1. /\ n.events = h.events /\ n.deltas = h.deltas
        /\ \A t \in Streams : /\ n.open[t].seqs = h.open[t].seqs
                              /\ t # s => n.open[t].finalSeen = h.open[t].finalSeen
        /\ h.open[s].finalSeen => n.open[s].finalSeen
    BY <1>2, NoteFinalFields
  <2>. HIDE DEF n
  <2>2. ASSUME NEW t \in Streams, h.open[t].finalSeen
        PROVE  n.open[t].finalSeen
    <3>1. CASE t = s
      BY <2>1, <2>2, <3>1
    <3>2. CASE t # s
      BY <2>1, <2>2, <3>2
    <3>. QED BY <3>1, <3>2
  <2>. QED BY <2>1, <2>2
<1>. HIDE DEF n
<1>5. FinishedWritten(n, log, FALSE)
  BY <1>2, <1>4 DEF Hist, Untrimmed, FinishedWritten
<1>6. Hist(n, log, spoken, FALSE, top, crashLost)
  BY <1>2, <1>3, <1>4, <1>5 DEF Hist, Untrimmed
<1>7. failures' > 0
  BY <1>1 DEF IInv, TypeOK
<1>8. Hist(mem', log', spoken', FALSE, top', crashLost')
  BY <1>1, <1>6 DEF n
<1>9. mem'.deltas \subseteq mem.deltas /\ top' >= top
  BY <1>1, <1>2, <1>4 DEF n
<1>. QED BY <1>1, <1>7, <1>8, <1>9 DEF HistoryFaulty

(* A turn whose aggregates could be written in part only. *)
LEMMA CloseFailsHistory ==
  ASSUME IInv, HistoryInv, CloseFails
  PROVE  HistoryFaulty
<1>. DEFINE m == Push(EnsureHydrated(mem), EndEvent)
            rows == log \cup {EndEvent}
            c == [m EXCEPT !.open = NothingOpen, !.deltas = {}]
            q == EndEvent.seq
<1>1. HasStore /\ q <= MaxSeq
  BY DEF CloseFails
<1>2. PICK W \in SUBSET Aggregates(m) : log' = rows \cup W
  <2>1. PICK failed \in Aggregates(m) :
          log' = log \cup {EndEvent} \cup {a \in Aggregates(m) : a.seq < failed.seq}
    BY DEF CloseFails
  <2>. HIDE DEF m
  <2>2. {a \in Aggregates(m) : a.seq < failed.seq} \in SUBSET Aggregates(m)
    OBVIOUS
  <2>. QED BY <2>1, <2>2
<1>3. /\ mem' = c /\ top' = q /\ failures' = failures + 1
      /\ UNCHANGED <<spoken, crashLost>>
  BY DEF CloseFails
<1>4. /\ Hist(m, rows, spoken, FALSE, q, crashLost)
      /\ q \in Nat /\ q > top /\ top \in Nat
  BY <1>1, ClosingHistory, FaultyIsHistory DEF IInv, TypeOK
<1>5. log \subseteq log'
  BY <1>2
<1>6. failures' > 0
  BY <1>3 DEF IInv, TypeOK
<1>. HIDE DEF m, rows, q
<1>7. CacheInv(m, rows, spoken, FALSE) /\ m \in Mem
  BY <1>4 DEF Hist, Untrimmed, CacheInv, DigestInv
<1>8. /\ CacheInv(c, rows \cup W, spoken, FALSE)
      /\ FinishedWritten(c, rows \cup W, FALSE)
      /\ c.events = m.events
  BY <1>1, <1>7, HalfCloseKeepsCache
<1>9. c.deltas = {}
  BY <1>7 DEF Mem
<1>. HIDE DEF c
<1>10. \A e \in c.events : e.seq <= q \/ e \in rows \cup W
  BY <1>4, <1>8 DEF Hist, Untrimmed
<1>11. Hist(c, rows \cup W, spoken, FALSE, q, crashLost)
  BY <1>4, <1>8, <1>10 DEF Hist, Untrimmed
<1>12. Hist(mem', log', spoken', FALSE, top', crashLost')
  BY <1>2, <1>3, <1>11
<1>13. mem'.deltas \subseteq mem.deltas /\ top' >= top
  BY <1>3, <1>4, <1>9
<1>. QED BY <1>3, <1>5, <1>6, <1>12, <1>13 DEF HistoryFaulty

(* Two Sessions with the same fields are the same. *)
LEMMA SameFields ==
  ASSUME NEW a \in Mem, NEW b \in Mem, a.events = b.events, a.evicted = b.evicted,
         a.open = b.open, a.deltas = b.deltas, a.loaded = b.loaded
  PROVE  a = b
BY DEF Mem

(* A process that has booted over rows which extend the log. *)
LEMMA BootHistory ==
  ASSUME IInv, HistoryInv, NEW rows, log \subseteq rows, rows \subseteq Event,
         \A e, f \in rows : e.seq = f.seq => e = f,
         \A r \in rows : r.kind # "delta" /\ r.seq > 0 /\ r.seq <= MaxSeq,
         \A r \in rows : r.text \subseteq Said,
         Boot(rows)
  PROVE  /\ HistoryInv'
         /\ AllText(EnsureHydrated(mem)', log') = TextOf(log')
         /\ Said' = Said /\ log \subseteq log' /\ mem'.deltas = {}
         /\ UNCHANGED <<top, failures>>
<1>1. /\ HasStore /\ log' = rows /\ mem' = Booted
      /\ crashLost' = Said \ TextOf(rows)
      /\ UNCHANGED <<top, spoken, failures>>
  BY DEF Boot, Booted, Said
<1>3. spoken \in [Streams -> SUBSET Nat] /\ \A s \in Streams : \A x \in spoken[s] : x <= top
  BY DEF HistoryInv, Hist, Untrimmed
<1>4. (failures = 0) \in BOOLEAN
  OBVIOUS
<1>5. /\ Hist(Reloaded(rows), rows, spoken, failures = 0, top, Said \ TextOf(rows))
      /\ AllText(Reloaded(rows), rows) = TextOf(rows)
  BY <1>1, <1>3, <1>4, ReloadedIsHistory DEF Said
<1>2. EnsureHydrated(mem)' = Reloaded(rows)
  <2>. DEFINE tail == TailOf(rows)
              low == IF tail = {} THEN 0 ELSE Larger(0, Lowest(SeqsOf(tail)) - 1)
              r == Reloaded(rows)
              b == Booted
              g == [b EXCEPT !.loaded = TRUE, !.events = @ \cup tail, !.evicted = low]
  <2>1. ReadTail(MEMORY_EVENT_CAP)' = tail
    BY <1>1 DEF ReadTail, TailOf
  <2>2. r \in Mem
    BY <1>5 DEF Hist, Untrimmed, CacheInv, DigestInv
  <2>. HIDE DEF tail
  <2>3. EnsureHydrated(mem)' = g
    BY <1>1, <2>1 DEF EnsureHydrated, Booted
  <2>4. /\ r.events = tail /\ r.evicted = low /\ r.open = NothingOpen
        /\ r.deltas = {} /\ r.loaded = TRUE
    BY DEF Reloaded, tail
  <2>5. /\ b.events = {} /\ b.evicted = 0 /\ b.open = NothingOpen
        /\ b.deltas = {} /\ b.loaded = FALSE
    BY DEF Booted
  <2>6. b \in Mem
    BY <2>2, <2>4 DEF Mem, Booted
  <2>. HIDE DEF low, r, b
  <2>7. tail \in SUBSET Event /\ low \in Nat
    BY <2>2, <2>4 DEF Mem
  <2>8. g \in Mem
    BY <2>5, <2>6, <2>7 DEF Mem
  <2>9. /\ g.events = tail /\ g.evicted = low /\ g.open = NothingOpen
        /\ g.deltas = {} /\ g.loaded = TRUE
    BY <2>5, <2>6 DEF Mem
  <2>. HIDE DEF g
  <2>10. g = r
    BY <2>2, <2>4, <2>8, <2>9, SameFields
  <2>. QED BY <2>3, <2>10 DEF r
<1>6. Hist(EnsureHydrated(mem), log, spoken, failures = 0, top, crashLost)'
  BY <1>1, <1>2, <1>5
<1>7. mem'.deltas = {} /\ Said' = Said
  BY <1>1 DEF Booted, Said
<1>. QED BY <1>1, <1>2, <1>5, <1>6, <1>7 DEF HistoryInv

(* What the rows of the log say. *)
LEMMA RowsOfLog ==
  ASSUME IInv, HistoryInv
  PROVE  /\ \A r \in log : /\ HasStore /\ r.kind # "delta" /\ r.seq > 0 /\ r.seq <= MaxSeq
                           /\ r.text \subseteq Said
         /\ log \subseteq Event
         /\ \A e, f \in log : e.seq = f.seq => e = f
<1>1. TextSaid(EnsureHydrated(mem), log, spoken) /\ RowsWritten(EnsureHydrated(mem), log)
  BY DEF HistoryInv, Hist, Untrimmed, CacheInv
<1>. QED BY <1>1 DEF TextSaid, RowsWritten, Said, IInv, TypeOK, LogBounded, LogKeyed

(* What a restart does to the history, whether the process died between    *)
(* two steps or while it wrote the aggregates of a turn that was ending.   *)
HistoryReboots ==
  /\ HistoryInv'
  /\ AllText(EnsureHydrated(mem)', log') = TextOf(log')
  /\ Said' = Said /\ log \subseteq log' /\ mem'.deltas = {}
  /\ UNCHANGED <<top, failures>>

(* A crash between two steps. *)
LEMMA CrashHistory ==
  ASSUME IInv, HistoryInv, Crash
  PROVE  HistoryReboots
BY RowsOfLog, BootHistory DEF Crash, HistoryReboots

(* A crash among the writes of a closing turn: the status and the first    *)
(* aggregates are rows, the rest of the turn is gone.                      *)
LEMMA CrashInCloseHistory ==
  ASSUME IInv, HistoryInv, CrashInClose
  PROVE  HistoryReboots
<1>. DEFINE m == Push(EnsureHydrated(mem), EndEvent)
            A == Aggregates(m)
            base == IF HasStore THEN log \cup {EndEvent} ELSE log
<1>1. EndEvent.seq <= MaxSeq
  BY DEF CrashInClose
<1>2. PICK missing \in A : Boot(log \cup {EndEvent} \cup {a \in A : a.seq < missing.seq})
  BY DEF CrashInClose
<1>. DEFINE W == {a \in A : a.seq < missing.seq}
            rows == log \cup {EndEvent} \cup W
<1>3. W \in SUBSET A /\ HasStore
  BY <1>2 DEF Boot
<1>4. Hist(m, base, spoken, failures = 0, EndEvent.seq, crashLost)
  BY <1>1, ClosingHistory
<1>. HIDE DEF W
<1>5. /\ W \subseteq Event /\ EndEvent \in Event
      /\ \A e, f \in rows : e.seq = f.seq => e = f
      /\ \A r \in rows : r.seq <= EndEvent.seq
  BY <1>1, <1>3, ClosingTurn
<1>6. /\ log \subseteq Event
      /\ \A r \in log : r.kind # "delta" /\ r.seq > 0 /\ r.text \subseteq Said
  BY RowsOfLog
<1>. HIDE DEF m
<1>7. CacheInv(m, base, spoken, failures = 0)
  BY <1>4 DEF Hist, Untrimmed
<1>8. \A a \in A : a.kind = "aggregate" /\ a.seq > 0 /\ a.text \subseteq Said
  BY <1>7, AggregatesSaid DEF Said
<1>9. EndEvent.kind # "delta" /\ EndEvent.seq > 0 /\ EndEvent.text \subseteq Said
  BY NextSeqIsAbove DEF EndEvent, IInv, TypeOK
<1>10. EndEvent.seq \in Nat /\ MaxSeq \in Nat /\ \A r \in rows : r.seq \in Nat
  BY <1>5, <1>6, BoundsAssumption DEF Event
<1>11. \A r \in rows : /\ r.kind # "delta" /\ r.seq > 0 /\ r.seq <= MaxSeq
                       /\ r.text \subseteq Said
  BY <1>1, <1>3, <1>5, <1>6, <1>8, <1>9, <1>10
<1>12. log \subseteq rows /\ rows \subseteq Event /\ Boot(rows)
  BY <1>2, <1>5, <1>6 DEF W
<1>. HIDE DEF rows
<1>. QED BY <1>5, <1>11, <1>12, BootHistory DEF HistoryReboots

(* A session starts with an empty history. *)
LEMMA InitHistory == Init => HistoryInv
<1>. SUFFICES ASSUME Init PROVE HistoryInv
  OBVIOUS
<1>1. IInv
  BY InitInv
<1>2. /\ log = {} /\ top = 0 /\ crashLost = {} /\ failures = 0
      /\ spoken = [s \in Streams |-> {}]
      /\ mem.events = {} /\ mem.evicted = 0 /\ mem.open = NothingOpen
      /\ mem.deltas = {} /\ mem.loaded
  BY DEF Init
<1>3. EnsureHydrated(mem) = mem
  BY <1>2, LoadedIsHydrated
<1>4. \A s \in Streams : /\ mem.open[s].seqs = {} /\ mem.open[s].chunks = {}
                         /\ ~mem.open[s].finalSeen /\ spoken[s] = {}
  BY <1>2 DEF NothingOpen, Absent
<1>5. CacheInv(mem, log, spoken, TRUE)
  BY <1>1, <1>2, <1>4 DEF CacheInv, IInv, TypeOK, CacheKeyed, ChunksCached, DeltasOpen,
                           TextSaid, RowsWritten, RowsCached
<1>6. FinishedWritten(mem, log, TRUE) /\ Harvested(mem)
  <2>1. TextOf(log) = {}
    BY <1>2 DEF TextOf
  <2>. QED BY <1>4, <2>1 DEF FinishedWritten, Harvested
<1>7. Cardinality(Droppable(mem)) <= 2 * MEMORY_EVENT_CAP
  <2>1. Droppable(mem) = {}
    BY <1>2 DEF Droppable
  <2>. QED BY <2>1, FS_EmptySet, CapAssumption
<1>8. spoken \in [Streams -> SUBSET Nat]
  BY <1>2
<1>9. Untrimmed(mem, log, spoken, TRUE, top, crashLost)
  BY <1>2, <1>4, <1>5, <1>6, <1>8 DEF Untrimmed
<1>10. Hist(mem, log, spoken, TRUE, top, crashLost)
  BY <1>6, <1>7, <1>9 DEF Hist, Trimmed
<1>11. (failures = 0) = TRUE
  BY <1>2
<1>. QED BY <1>2, <1>3, <1>10, <1>11 DEF HistoryInv

(* Recording an event and failing to write one leave a history behind. *)
LEMMA GrownIsHistory ==
  ASSUME HistoryGrows \/ HistoryFaulty
  PROVE  HistoryInv' /\ EnsureHydrated(mem)' = mem'
<1>1. Hist(mem', log', spoken', failures' = 0, top', crashLost')
  <2>1. CASE HistoryGrows
    BY <2>1 DEF HistoryGrows
  <2>2. CASE HistoryFaulty
    <3>1. (failures' = 0) = FALSE
      BY <2>2 DEF HistoryFaulty
    <3>. QED BY <2>2, <3>1 DEF HistoryFaulty
  <2>. QED BY <2>1, <2>2
<1>2. mem'.loaded
  BY <1>1 DEF Hist, Untrimmed, CacheInv, CacheKeyed
<1>3. EnsureHydrated(mem)' = mem'
  BY <1>2, LoadedIsHydrated
<1>. QED BY <1>1, <1>2, <1>3 DEF HistoryInv

(* Loading the tail changes nothing that the history is about. *)
HistoryStays ==
  /\ HistoryInv'
  /\ EnsureHydrated(mem)' = EnsureHydrated(mem)
  /\ mem'.deltas = mem.deltas
  /\ UNCHANGED <<log, spoken, failures, top, crashLost>>

(* The first access after a restart. *)
LEMMA AccessHistory ==
  ASSUME IInv, HistoryInv, Access
  PROVE  HistoryStays
<1>1. mem' = EnsureHydrated(mem) /\ UNCHANGED <<log, spoken, failures, top, crashLost>>
  BY DEF Access
<1>2. Hist(EnsureHydrated(mem), log, spoken, failures = 0, top, crashLost)
  BY DEF HistoryInv
<1>3. EnsureHydrated(mem).loaded
  BY <1>2 DEF Hist, Untrimmed, CacheInv, CacheKeyed
<1>4. EnsureHydrated(mem)' = EnsureHydrated(mem)
  BY <1>1, <1>3, LoadedIsHydrated
<1>5. mem'.deltas = mem.deltas
  BY <1>1, HistoryStart
<1>. QED BY <1>1, <1>2, <1>3, <1>4, <1>5 DEF HistoryInv, HistoryStays

(* A step of somebody else. *)
LEMMA IdleHistory ==
  ASSUME HistoryInv, UNCHANGED vars
  PROVE  HistoryStays
<1>1. mem' = mem /\ UNCHANGED <<log, spoken, failures, top, crashLost>>
  BY DEF vars
<1>2. EnsureHydrated(mem)' = EnsureHydrated(mem)
  BY <1>1 DEF EnsureHydrated, ReadTail
<1>. QED BY <1>1, <1>2 DEF HistoryInv, HistoryStays, Booted

(* What a step does to the history: it is one of four kinds. *)
LEMMA StepHistory ==
  ASSUME IInv, HistoryInv, [Next]_vars
  PROVE  HistoryGrows \/ HistoryFaulty \/ HistoryReboots \/ HistoryStays
<1>1. CASE \E s \in Streams, chunk \in BOOLEAN : RecordDelta(s, chunk)
  BY <1>1, DeltaHistory
<1>2. CASE \E s \in Streams, given \in BOOLEAN : RecordFinal(s, given)
  BY <1>2, FinalHistory
<1>3. CASE RecordNote
  BY <1>3, NoteHistory
<1>4. CASE RecordEnd
  BY <1>4, EndHistory
<1>5. CASE \E s \in Streams, given \in BOOLEAN : FinalFails(s, given)
  BY <1>5, FinalFailsHistory
<1>6. CASE CloseFails
  BY <1>6, CloseFailsHistory
<1>7. CASE Access
  BY <1>7, AccessHistory
<1>8. CASE Crash
  BY <1>8, CrashHistory
<1>9. CASE CrashInClose
  BY <1>9, CrashInCloseHistory
<1>10. CASE UNCHANGED vars
  BY <1>10, IdleHistory
<1>. QED BY <1>1, <1>2, <1>3, <1>4, <1>5, <1>6, <1>7, <1>8, <1>9, <1>10 DEF Next

(* The history holds in every reachable state. *)
LEMMA HistoryInvariance == Spec => [](IInv /\ HistoryInv)
<1>1. IInv /\ HistoryInv /\ [Next]_vars => IInv' /\ HistoryInv'
  BY NextStep, StepHistory, GrownIsHistory DEF HistoryReboots, HistoryStays
<1>. QED BY <1>1, InitInv, InitHistory, PTL DEF Spec

(* What a full replay shows is the text of the cache and of the log. *)
LEMMA ShownIsText ==
  ASSUME IInv, HistoryInv
  PROVE  TextOf(EventsSince(EnsureHydrated(mem), 0)) = AllText(EnsureHydrated(mem), log)
<1>. DEFINE m == EnsureHydrated(mem)
            full == EventsSince(m, 0)
<1>1. DigestInv(m) /\ CacheKeyed(m) /\ RowsWritten(m, log) /\ RowsCached(m, log)
  BY DEF HistoryInv, Hist, Untrimmed, CacheInv
<1>. HIDE DEF m
<1>2. m.events \subseteq full /\ full \subseteq m.events \cup log
  BY <1>1 DEF EventsSince, CacheKeyed
<1>3. ASSUME NEW r \in log, NEW x \in r.text
      PROVE  \E e \in full : x \in e.text
  <2>1. CASE \E e \in m.events : e.seq = r.seq
    BY <1>1, <1>2, <1>3, <2>1 DEF RowsCached
  <2>2. CASE \A e \in m.events : e.seq # r.seq
    <3>1. r.seq <= m.evicted /\ r.seq > 0 /\ HasStore
      BY <1>1, <2>2 DEF RowsCached, RowsWritten
    <3>2. r.seq \in Nat /\ m.evicted \in Nat
      BY <1>1 DEF IInv, TypeOK, Event, DigestInv, Mem
    <3>3. r \in full
      BY <2>2, <3>1, <3>2 DEF EventsSince, SeqsOf
    <3>. QED BY <1>3, <3>3
  <2>. QED BY <2>1, <2>2
<1>. HIDE DEF full
<1>4. TextOf(full) \subseteq AllText(m, log)
  BY <1>2 DEF AllText, TextOf
<1>5. AllText(m, log) \subseteq TextOf(full)
  BY <1>2, <1>3 DEF AllText, TextOf
<1>. QED BY <1>4, <1>5 DEF full, m

(* A full replay shows every text that no crash destroyed. *)
LEMMA HistoryKeepsText ==
  ASSUME IInv, HistoryInv
  PROVE  TextKept
<1>1. Hist(EnsureHydrated(mem), log, spoken, failures = 0, top, crashLost)
  BY DEF HistoryInv
<1>2. failures = 0 => \A s \in Streams : spoken[s] \ crashLost \subseteq AllText(EnsureHydrated(mem), log)
  BY <1>1 DEF Hist, Untrimmed
<1>. QED BY <1>2, ShownIsText DEF TextKept

(* Until a write fails, text that no row has is an open delta's. *)
LEMMA UnwrittenIsOpen ==
  ASSUME IInv, HistoryInv, HasStore, failures = 0
  PROVE  AllText(EnsureHydrated(mem), log) \subseteq TextOf(log) \cup mem.deltas
<1>. DEFINE m == EnsureHydrated(mem)
<1>1. Hist(m, log, spoken, failures = 0, top, crashLost) /\ m.deltas = mem.deltas
  BY HistoryStart
<1>2. DigestInv(m) /\ DeltasOpen(m, failures = 0) /\ RowsWritten(m, log)
  BY <1>1 DEF Hist, Untrimmed, CacheInv
<1>. HIDE DEF m
<1>3. ASSUME NEW e \in m.events, NEW x \in e.text
      PROVE  x \in TextOf(log) \cup mem.deltas
  <2>1. CASE e.kind = "delta"
    BY <1>1, <1>2, <1>3, <2>1 DEF DeltasOpen, DigestInv
  <2>2. CASE e.kind # "delta"
    BY <1>2, <1>3, <2>2 DEF RowsWritten, TextOf
  <2>. QED BY <2>1, <2>2
<1>4. TextOf(m.events) \subseteq TextOf(log) \cup mem.deltas
  BY <1>3 DEF TextOf
<1>. QED BY <1>4 DEF AllText, m

(* What is in memory alone belongs to a stream that is still open. *)
LEMMA HistoryRisksOpenText ==
  ASSUME IInv, HistoryInv
  PROVE  OnlyOpenTextAtRisk
<1>1. Hist(EnsureHydrated(mem), log, spoken, failures = 0, top, crashLost)
  BY DEF HistoryInv
<1>2. failures = 0 => \A s \in Streams : spoken[s] \ crashLost \subseteq AllText(EnsureHydrated(mem), log)
  BY <1>1 DEF Hist, Untrimmed
<1>. QED BY <1>2, UnwrittenIsOpen DEF OnlyOpenTextAtRisk

(* Above the evicted part every row has an event of its seq in the cache,   *)
(* so that merging the log over the live tail adds only what lies below.   *)
LEMMA HistoryResumes ==
  ASSUME IInv, HistoryInv
  PROVE  ResumeIsSuffix
<1>. DEFINE m == EnsureHydrated(mem)
<1>1. DigestInv(m) /\ CacheKeyed(m) /\ RowsWritten(m, log) /\ RowsCached(m, log)
  BY DEF HistoryInv, Hist, Untrimmed, CacheInv
<1>2. /\ m.evicted \in Nat /\ \A e \in m.events : e.seq \in Nat /\ e.seq > 0
      /\ \A r \in log : r.seq \in Nat /\ r.seq > 0
  BY <1>1 DEF IInv, TypeOK, Event, DigestInv, Mem, CacheKeyed, RowsWritten
<1>. HIDE DEF m
<1>3. ASSUME NEW f \in 0..top
      PROVE  EventsSince(m, f) = {e \in EventsSince(m, 0) : e.seq > f}
  <2>. DEFINE live(g) == {e \in m.events : e.seq > g}
  <2>1. f \in Nat
    BY DEF IInv, TypeOK
  <2>2. live(f) = {e \in live(0) : e.seq > f}
    BY <1>2, <2>1
  <2>3. \A r \in log : r.seq > f => (r.seq \in SeqsOf(live(f)) <=> r.seq \in SeqsOf(live(0)))
    BY <1>2, <2>1 DEF SeqsOf
  <2>4. f >= m.evicted => \A r \in log : r.seq > f => r.seq \in SeqsOf(live(0))
    BY <1>1, <1>2, <2>1 DEF RowsCached, SeqsOf
  <2>. DEFINE old(g) == {e \in log : e.seq > g /\ e.seq \notin SeqsOf(live(g))}
  <2>5. old(f) = {e \in old(0) : e.seq > f}
    BY <1>2, <2>1, <2>3
  <2>6. f >= m.evicted => {e \in old(0) : e.seq > f} = {}
    BY <2>4
  <2>7. \A g : EventsSince(m, g) = IF g >= m.evicted \/ ~HasStore THEN live(g) ELSE live(g) \cup old(g)
    BY DEF EventsSince
  <2>. HIDE DEF live, old
  <2>8. CASE ~HasStore \/ 0 >= m.evicted
    BY <1>2, <2>1, <2>2, <2>7, <2>8
  <2>9. CASE HasStore /\ ~(0 >= m.evicted) /\ f >= m.evicted
    BY <2>2, <2>6, <2>7, <2>9
  <2>10. CASE HasStore /\ ~(0 >= m.evicted) /\ ~(f >= m.evicted)
    BY <2>2, <2>5, <2>7, <2>10
  <2>. QED BY <1>2, <2>1, <2>8, <2>9, <2>10
<1>. QED BY <1>3 DEF ResumeIsSuffix, m

(* A delta that is shown is open, and what stands in a row is not. *)
LEMMA HistoryShowsOnce ==
  ASSUME IInv, HistoryInv
  PROVE  NoTextTwice
<1>. DEFINE m == EnsureHydrated(mem)
            full == EventsSince(m, 0)
            ok == failures = 0
<1>. SUFFICES ASSUME HasStore, ok, NEW d \in full, NEW e \in full, d.kind = "delta",
                     e.text \cap d.text # {}
              PROVE  d = e
  BY DEF NoTextTwice
<1>1. Hist(m, log, spoken, ok, top, crashLost)
  BY DEF HistoryInv
<1>. HIDE DEF m
<1>2. /\ DigestInv(m) /\ CacheKeyed(m) /\ DeltasOpen(m, ok) /\ RowsWritten(m, log)
      /\ FinishedWritten(m, log, ok) /\ Harvested(m)
  BY <1>1 DEF Hist, Untrimmed, Trimmed, CacheInv
<1>3. d \in m.events \cup log /\ e \in m.events \cup log
  BY DEF EventsSince
<1>4. d \in m.events
  BY <1>2, <1>3 DEF RowsWritten
<1>5. d.seq \in e.text /\ d.seq \in m.deltas
  BY <1>2, <1>4 DEF DeltasOpen, DigestInv
<1>6. CASE e \in m.events /\ e.kind = "delta"
  BY <1>2, <1>4, <1>5, <1>6 DEF DeltasOpen, CacheKeyed
<1>7. CASE e \notin m.events \/ e.kind # "delta"
  <2>1. e \in log
    BY <1>2, <1>3, <1>7 DEF RowsWritten
  <2>2. d.seq \in TextOf(log) \cap m.deltas
    BY <1>5, <2>1 DEF TextOf
  <2>. QED BY <1>2, <2>2 DEF FinishedWritten, Harvested
<1>. QED BY <1>6, <1>7

(* A cache that was trimmed, or not loaded yet, is in its bound. *)
LEMMA HistoryIsBounded ==
  ASSUME IInv, HistoryInv
  PROVE  CacheBounded
<1>. DEFINE b == {e \in mem.events : e.seq \notin mem.deltas}
<1>. SUFFICES ASSUME HasStore, failures = 0 PROVE Cardinality(b) <= 2 * MEMORY_EVENT_CAP
  BY DEF CacheBounded
<1>1. CASE mem.loaded
  <2>1. Trimmed(mem)
    BY <1>1, LoadedIsHydrated DEF HistoryInv, Hist
  <2>. QED BY <2>1 DEF Trimmed, Droppable
<1>2. CASE ~mem.loaded
  <2>1. mem.events = {}
    BY <1>2 DEF HistoryInv, Booted
  <2>2. b = {}
    BY <2>1
  <2>. QED BY <2>2, FS_EmptySet, CapAssumption
<1>. QED BY <1>1, <1>2

(* A replay is whole, whatever was evicted, reloaded or lost in a crash:    *)
(* every text is there and once, a resume from any cursor is the end of    *)
(* the full replay, and the cache stays bounded meanwhile.                 *)
THEOREM ReplayStaysWhole == Spec => []ReplayIsWhole
<1>1. IInv /\ HistoryInv => ReplayIsWhole
  BY HistoryKeepsText, HistoryRisksOpenText, HistoryResumes, HistoryShowsOnce, HistoryIsBounded
  DEF ReplayIsWhole
<1>. QED BY <1>1, HistoryInvariance, PTL

-----------------------------------------------------------------------------
(* Session, StreamDigest and the store implement Transcript *)

(* A full replay shows what is on disk and nothing that was not said, and   *)
(* until a write fails only the text of the open turn is not on disk.      *)
LEMMA ReplayIsHonest == HasStore /\ IInv /\ HistoryInv => History!Honest
<1>. SUFFICES ASSUME HasStore, IInv, HistoryInv PROVE History!Honest
  OBVIOUS
<1>. DEFINE m == EnsureHydrated(mem)
            shown == TextOf(EventsSince(m, 0))
<1>1. shown = AllText(m, log)
  BY ShownIsText
<1>2. TextSaid(m, log, spoken)
  BY DEF HistoryInv, Hist, Untrimmed, CacheInv
<1>3. failures = 0 => AllText(m, log) \subseteq TextOf(log) \cup mem.deltas
  BY UnwrittenIsOpen
<1>4. failures \in Nat
  BY DEF IInv, TypeOK
<1>. HIDE DEF m
<1>5. TextOf(log) \subseteq AllText(m, log) /\ AllText(m, log) \subseteq Said
  BY <1>2 DEF AllText, TextSaid, Said, TextOf
<1>. HIDE DEF shown
<1>6. /\ TextOf(log) \subseteq shown
      /\ shown \subseteq Said
      /\ ~(failures > 0) => shown \ TextOf(log) \subseteq mem.deltas
  BY <1>1, <1>3, <1>4, <1>5
<1>. QED BY <1>6 DEF History!Honest, shown, m, Said

(* The same in the next state. *)
LEMMA ReplayStaysHonest == HasStore /\ IInv' /\ HistoryInv' => History!Honest'
<1>1. (HasStore /\ IInv /\ HistoryInv => History!Honest)'
  BY ReplayIsHonest, PTL
<1>. QED BY <1>1

(* What is shown after a step. *)
LEMMA ShownNext ==
  IInv' /\ HistoryInv' =>
    TextOf(EventsSince(EnsureHydrated(mem), 0))' = AllText(EnsureHydrated(mem)', log')
<1>1. IInv /\ HistoryInv =>
        TextOf(EventsSince(EnsureHydrated(mem), 0)) = AllText(EnsureHydrated(mem), log)
  BY ShownIsText
<1>2. (IInv /\ HistoryInv =>
        TextOf(EventsSince(EnsureHydrated(mem), 0)) = AllText(EnsureHydrated(mem), log))'
  BY <1>1, PTL
<1>. QED BY <1>2

(* An event that is recorded is told to the session. *)
LEMMA GrowsIsSpeak ==
  ASSUME HasStore, IInv, HistoryInv, IInv', HistoryInv', HistoryGrows
  PROVE  History!Speak
<1>. DEFINE shown == TextOf(EventsSince(EnsureHydrated(mem), 0))
            said == UNION {spoken[s] : s \in Streams}
<1>1. shown = AllText(EnsureHydrated(mem), log) /\ shown' = AllText(mem', log')
  BY ShownIsText, ShownNext, GrownIsHistory
<1>2. failures \in Nat /\ (~(failures > 0) => failures = 0)
  BY DEF IInv, TypeOK
<1>3. said = Said /\ said' = Said'
  BY DEF Said
<1>4. /\ top' > top
      /\ said' \in {said, said \cup {top'}}
      /\ (failures' > 0) = (failures > 0)
      /\ mem'.deltas \subseteq mem.deltas \cup {top'}
      /\ log \subseteq log'
  BY <1>3 DEF HistoryGrows
<1>5. TextOf(log) \subseteq TextOf(log')
  BY <1>4 DEF TextOf
<1>6. ~(failures > 0) => shown \cup (said' \ said) \subseteq shown'
  BY <1>1, <1>2, <1>3 DEF HistoryGrows
<1>7. History!Honest'
  BY ReplayStaysHonest
<1>. QED BY <1>4, <1>5, <1>6, <1>7 DEF History!Speak

(* A write that fails leaves what is on disk there. *)
LEMMA FaultyIsWriteFails ==
  ASSUME HasStore, IInv, HistoryInv, IInv', HistoryInv', HistoryFaulty
  PROVE  History!WriteFails
<1>1. /\ (failures' > 0) = TRUE
      /\ top' >= top
      /\ (UNION {spoken[s] : s \in Streams})' = UNION {spoken[s] : s \in Streams}
      /\ mem'.deltas \subseteq mem.deltas
      /\ log \subseteq log'
  BY DEF HistoryFaulty
<1>2. TextOf(log) \subseteq TextOf(log')
  BY <1>1 DEF TextOf
<1>3. History!Honest'
  BY ReplayStaysHonest
<1>. QED BY <1>1, <1>2, <1>3 DEF History!WriteFails

(* A process that dies is a restart. *)
LEMMA RebootIsRestart ==
  ASSUME HasStore, IInv, HistoryInv, IInv', HistoryInv', HistoryReboots
  PROVE  History!Restart
<1>. DEFINE shown == TextOf(EventsSince(EnsureHydrated(mem), 0))
            said == UNION {spoken[s] : s \in Streams}
<1>1. shown' = TextOf(log')
  BY ShownNext DEF HistoryReboots
<1>2. said' = said
  BY DEF HistoryReboots, Said
<1>3. TextOf(log) \subseteq TextOf(log')
  BY DEF HistoryReboots, TextOf
<1>4. UNCHANGED <<top, failures>> /\ mem'.deltas = {}
  BY DEF HistoryReboots
<1>5. History!Honest'
  BY ReplayStaysHonest
<1>. QED BY <1>1, <1>2, <1>3, <1>4, <1>5 DEF History!Restart

(* Loading the tail, or nothing, is a step nobody sees. *)
LEMMA StaysIsStutter ==
  ASSUME IInv, HistoryInv, IInv', HistoryInv', HistoryStays
  PROVE  UNCHANGED History!tvars
<1>. DEFINE shown == TextOf(EventsSince(EnsureHydrated(mem), 0))
<1>1. shown' = shown
  BY ShownIsText, ShownNext DEF HistoryStays
<1>. QED BY <1>1 DEF HistoryStays, History!tvars

(* Nothing was said at first. *)
LEMMA InitIsEmpty == Init => History!Init
<1>. SUFFICES ASSUME Init PROVE History!Init
  OBVIOUS
<1>1. /\ log = {} /\ top = 0 /\ failures = 0
      /\ mem.events = {} /\ mem.deltas = {} /\ mem.loaded
      /\ \A s \in Streams : spoken[s] = {}
  BY DEF Init
<1>2. UNION {spoken[s] : s \in Streams} = {}
  BY <1>1
<1>3. TextOf(log) = {} /\ TextOf(mem.events) = {}
  BY <1>1 DEF TextOf
<1>4. TextOf(EventsSince(EnsureHydrated(mem), 0)) = {}
  BY <1>1, <1>3, InitInv, InitHistory, ShownIsText, LoadedIsHydrated DEF AllText
<1>. QED BY <1>1, <1>2, <1>3, <1>4 DEF History!Init

(* Session, StreamDigest and the store keep every promise of Transcript to *)
(* a device: text that was said stays visible, text of a turn that is over *)
(* is kept for good, a restart takes away the open turn only.              *)
THEOREM HistoryIsKept ==
  ASSUME HasStore
  PROVE  Spec => ImplementsTranscript
<1>1. Init => History!Init
  BY InitIsEmpty
<1>2. IInv /\ HistoryInv /\ IInv' /\ HistoryInv' /\ [Next]_vars => [History!Next]_(History!tvars)
  BY StepHistory, GrowsIsSpeak, FaultyIsWriteFails, RebootIsRestart, StaysIsStutter
  DEF History!Next
<1>. QED BY <1>1, <1>2, HistoryInvariance, PTL DEF Spec, ImplementsTranscript, History!Spec
=============================================================================
