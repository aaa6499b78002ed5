------------------------------- MODULE Compaction -------------------------------
(***************************************************************************)
(* `makit compact` (storage/compact.ts, cli/compact.ts): a log written by an   *)
(* older daemon, with a row for every streamed delta, is rewritten to what the *)
(* digest of stream_digest.ts would have kept. One session. A delta's text is   *)
(* named by the seq it was first written at, and a row carries a set of these.  *)
(* The log is read, and its rewriting is a transaction of its own, so a daemon  *)
(* that still runs (--force) may write in between, and a crash may come anywhere. *)
(***************************************************************************)
EXTENDS Naturals, FiniteSets, FiniteSetsExt

CONSTANTS
    Messages, Tools,    \* ids of streams: messages (or thoughts) and tool calls
    None,
    MaxRows,            \* bound: seqs
    MaxCompactions      \* bound

Streams == Messages \cup Tools

VARIABLES
    log,            \* from a seq to a row [kind, stream, text]
    next,           \* the seq the daemon takes next
    plan,           \* what a compaction has read and means to do, or None
    late,           \* history: text streamed after a final of its stream, in the same turn
    compactions

vars == <<log, next, plan, late, compactions>>

Row(kind, s, text) == [kind |-> kind, stream |-> s, text |-> text]

Init == log = <<>> /\ next = 1 /\ plan = None /\ late = {} /\ compactions = 0

-----------------------------------------------------------------------------
(* The digest, replayed over rows: what it makes of each stream of each turn. *)

TurnEnds(rows) == {q \in DOMAIN rows : rows[q].kind = "end"}

\* a turn goes by the seq of the row that ends it; the last one may be open
TurnOf(rows, q) ==
    LET later == {e \in TurnEnds(rows) : e >= q}
    IN  IF later = {} THEN MaxRows + 1 ELSE Min(later)

Deltas(rows, s, t) ==
    {q \in DOMAIN rows : rows[q].kind = "delta" /\ rows[q].stream = s /\ TurnOf(rows, q) = t}

Text(rows, Q) == UNION {rows[q].text : q \in Q}

\* noteFinal at row f knows the stream: a delta of its turn came before
StreamIsOpen(rows, f) ==
    \E q \in Deltas(rows, rows[f].stream, TurnOf(rows, f)) : q < f

Finished(rows, s, t) ==
    \E f \in DOMAIN rows : /\ rows[f].kind = "final" /\ rows[f].stream = s
                           /\ TurnOf(rows, f) = t /\ StreamIsOpen(rows, f)

\* a tool.call.end without output is given the chunks that came before it
Rewritten(rows) ==
    [f \in {q \in DOMAIN rows : /\ rows[q].kind = "final" /\ rows[q].stream \in Tools
                                /\ rows[q].text = {} /\ StreamIsOpen(rows, q)} |->
        Text(rows, {q \in Deltas(rows, rows[f].stream, TurnOf(rows, f)) : q < f})]

\* at rest the last turn is closed too: nothing will end it any more
ClosedTurns(rows, keepOpen) == TurnEnds(rows) \cup (IF keepOpen THEN {} ELSE {MaxRows + 1})

Removed(rows, turns) == UNION {Deltas(rows, s, t) : s \in Streams, t \in turns}

\* a stream without a final becomes one row at its first delta
Aggregates(rows, turns) ==
    LET open == {st \in Streams \X turns :
                    /\ ~Finished(rows, st[1], st[2])
                    /\ Text(rows, Deltas(rows, st[1], st[2])) # {}}
        slot(st) == Min(Deltas(rows, st[1], st[2]))
        kind(s) == IF s \in Messages THEN "final" ELSE "delta"
    IN  [q \in {slot(st) : st \in open} |->
            LET st == CHOOSE x \in open : slot(x) = q
            IN  Row(kind(st[1]), st[1], Text(rows, Deltas(rows, st[1], st[2])))]

Plan(rows, keepOpen) ==
    LET turns == ClosedTurns(rows, keepOpen)
    IN  [rewrite |-> Rewritten(rows), remove |-> Removed(rows, turns), insert |-> Aggregates(rows, turns)]

Replaced(rows, p) ==
    [q \in DOMAIN rows |-> IF q \in DOMAIN p.rewrite THEN [rows[q] EXCEPT !.text = p.rewrite[q]] ELSE rows[q]]

Without(rows, Q) == [q \in DOMAIN rows \ Q |-> rows[q]]

With(rows, new) == [q \in DOMAIN rows \cup DOMAIN new |-> IF q \in DOMAIN new THEN new[q] ELSE rows[q]]

Applied(rows, p) == With(Without(Replaced(rows, p), p.remove), p.insert)

-----------------------------------------------------------------------------
(* The daemon, an older build: every event is a row. *)

Append(row) ==
    /\ next <= MaxRows
    /\ log' = [q \in DOMAIN log \cup {next} |-> IF q = next THEN row ELSE log[q]]
    /\ next' = next + 1
    /\ UNCHANGED <<plan, compactions>>

\* text that a stream has said; a final repeats all of it
Said(s) == UNION {log[q].text : q \in {q \in DOMAIN log : log[q].stream = s}}

Delta(s, chunk) ==
    /\ late' = IF chunk /\ Finished(log, s, MaxRows + 1) THEN late \cup {next} ELSE late
    /\ Append(Row("delta", s, IF chunk THEN {next} ELSE {}))

Final(s) == Append(Row("final", s, Said(s))) /\ UNCHANGED late

EndWithoutOutput(s) == s \in Tools /\ Append(Row("final", s, {})) /\ UNCHANGED late

\* session.status idle or exited
TurnEnd == Append(Row("end", None, {})) /\ UNCHANGED late

-----------------------------------------------------------------------------
(* The compaction. *)

\* runCompact: the open turn is spared if a daemon runs; if none does, nothing comes between
ReadLog ==
    /\ plan = None /\ compactions < MaxCompactions
    /\ plan' = Plan(log, TRUE)
    /\ compactions' = compactions + 1
    /\ UNCHANGED <<log, next, late>>

\* mutant: no transaction, so a crash may come after the DELETE
OutcomesPiecemeal(p) ==
    {log, Applied(log, p), Without(Replaced(log, p), p.remove)}

\* all of the writes land, or a crash or an error leaves none
Outcomes(p) == {log, Applied(log, p)}

Apply ==
    /\ plan # None
    /\ log' \in Outcomes(plan)
    /\ plan' = None
    /\ UNCHANGED <<next, late, compactions>>

CompactAtRest ==
    /\ plan = None /\ compactions < MaxCompactions
    /\ log' \in Outcomes(Plan(log, FALSE))
    /\ compactions' = compactions + 1
    /\ UNCHANGED <<next, plan, late>>

Next ==
    \/ \E s \in Streams : Delta(s, TRUE) \/ Delta(s, FALSE) \/ Final(s) \/ EndWithoutOutput(s)
    \/ TurnEnd
    \/ ReadLog \/ Apply \/ CompactAtRest

Spec == Init /\ [][Next]_vars

-----------------------------------------------------------------------------
(* Properties. *)

(* Once said, a stretch of text stays in some row, whatever is compacted, how *)
(* often, and where it stops, but for what a stream said after its own final:  *)
(* the deltas of the turn go, and the final does not have it.                 *)
NoTextLost ==
    [][\A q \in (UNION {log[r].text : r \in DOMAIN log}) \ late :
          q \in UNION {log'[r].text : r \in DOMAIN log'}]_vars

\* A log that was compacted at rest is left as it is by the next compaction.
CompactsOnce ==
    LET once == Applied(log, Plan(log, FALSE)) IN Applied(once, Plan(once, FALSE)) = once

\* A seq keeps its place: what it holds afterwards is of the stream it was of.
SeqsKeepTheirPlace ==
    [][\A q \in DOMAIN log' : q < next => q \in DOMAIN log /\ log'[q].stream = log[q].stream]_vars

CompactionLosesNothing == NoTextLost /\ [](CompactsOnce) /\ SeqsKeepTheirPlace
=============================================================================
