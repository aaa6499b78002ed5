----------------------------- MODULE ChildTransport -----------------------------
(***************************************************************************)
(* The transport of an agent's process (adapters/child_transport.ts): lines    *)
(* out of the chunks of its stdout, with a cap on their length; the end of     *)
(* the stream and the exit, which come in any order; and disposal, SIGTERM     *)
(* and then SIGKILL for a process that does not go.                           *)
(*                                                                         *)
(* The agent writes frames 1, 2, ...: a byte is the number of its frame, and    *)
(* Newline ends it. Listeners throw nothing of interest here.                 *)
(***************************************************************************)
EXTENDS Naturals, Sequences, FiniteSets

CONSTANTS
    MaxFrameBytes,      \* the cap
    MaxLength, MaxFrames, MaxChunk      \* bounds: of a frame, of the output, of a chunk

VARIABLES
    child,          \* "running", "exited" (not reaped yet) or "reaped"
    written,        \* the lengths of the frames written, the last of which may be unfinished
    unfinished,     \* the last frame is unfinished
    pipe,           \* bytes on their way
    buf, dropUntilNewline, lines, streamEnded,
    settled, exits,     \* onExit has been called, and how often
    sigterm, killTimer, sigkilled,
    disposed        \* history

output == <<written, unfinished>>
reader == <<buf, dropUntilNewline, lines, streamEnded>>
killer == <<sigterm, killTimer, sigkilled, disposed>>
vars == <<child, output, pipe, reader, settled, exits, killer>>

Newline == 0

Init ==
    /\ child = "running"
    /\ written = <<>> /\ unfinished = FALSE /\ pipe = <<>>
    /\ buf = <<>> /\ dropUntilNewline = FALSE /\ lines = <<>> /\ streamEnded = FALSE
    /\ settled = FALSE /\ exits = 0
    /\ sigterm = FALSE /\ killTimer = FALSE /\ sigkilled = FALSE /\ disposed = FALSE

-----------------------------------------------------------------------------
(* The process. *)

WriteByte ==
    /\ child = "running"
    /\ IF unfinished
       THEN /\ written[Len(written)] < MaxLength
            /\ written' = [written EXCEPT ![Len(written)] = @ + 1]
       ELSE Len(written) < MaxFrames /\ written' = Append(written, 1)
    /\ unfinished' = TRUE
    /\ pipe' = Append(pipe, Len(written'))
    /\ UNCHANGED <<child, reader, settled, exits, killer>>

EndFrame ==
    /\ child = "running" /\ unfinished /\ unfinished' = FALSE
    /\ pipe' = Append(pipe, Newline)
    /\ UNCHANGED <<child, written, reader, settled, exits, killer>>

\* by itself, or on SIGTERM; an agent may ignore that, but not SIGKILL
Exits ==
    /\ child = "running" /\ child' = "exited"
    /\ UNCHANGED <<output, pipe, reader, settled, exits, killer>>

Killed == sigkilled /\ Exits

-----------------------------------------------------------------------------
(* stdout. *)

\* mutant: a frame is measured only while it is unfinished
TooLongWhilePending(line) == FALSE

TooLong(line) == Len(line) > MaxFrameBytes

\* a byte: a newline ends the line, which is given unless it is too long or its beginning was dropped
Take(r, byte) ==
    IF byte # Newline THEN [r EXCEPT !.buf = Append(@, byte)]
    ELSE [buf |-> <<>>, dropping |-> FALSE,
          lines |-> IF r.dropping \/ TooLong(r.buf) THEN r.lines ELSE Append(r.lines, r.buf)]

\* the loop over the newlines of a chunk: the buffer, whether a frame is being dropped, and the lines
\* that were given, after each of its bytes
Split(n) ==
    LET after[i \in 0 .. n] ==
          IF i = 0 THEN [buf |-> buf, dropping |-> dropUntilNewline, lines |-> lines]
          ELSE Take(after[i - 1], pipe[i])
    IN  after

\* then an unfinished frame over the cap is dropped, and what comes of it until its newline
Data(n) ==
    /\ ~streamEnded /\ n \in 1 .. Len(pipe)
    /\ LET r == Split(n)[n]
           over == Len(r.buf) > MaxFrameBytes
       IN /\ lines' = r.lines
          /\ buf' = IF over THEN <<>> ELSE r.buf
          /\ dropUntilNewline' = (over \/ r.dropping)
    /\ pipe' = SubSeq(pipe, n + 1, Len(pipe))
    /\ UNCHANGED <<child, output, streamEnded, settled, exits, killer>>

\* flushPendingLine, and the stream's end: everything has been read
StreamEnds ==
    /\ ~streamEnded /\ child # "running" /\ pipe = <<>>
    /\ streamEnded' = TRUE
    /\ IF buf # <<>> /\ ~dropUntilNewline
       THEN lines' = Append(lines, buf) /\ buf' = <<>>
       ELSE UNCHANGED <<lines, buf>>
    /\ UNCHANGED <<child, output, pipe, dropUntilNewline, settled, exits, killer>>

-----------------------------------------------------------------------------
(* The exit, and dispose. *)

\* settle, on the child's exit: a queued SIGKILL is dropped
Reaped ==
    /\ child = "exited" /\ child' = "reaped"
    /\ ~settled /\ settled' = TRUE /\ exits' = exits + 1
    /\ killTimer' = FALSE
    /\ UNCHANGED <<output, pipe, reader, sigterm, sigkilled, disposed>>

Escalate == killTimer' = TRUE

Dispose ==
    /\ ~disposed \/ ~killTimer
    /\ disposed' = TRUE
    /\ IF settled \/ sigkilled THEN UNCHANGED <<sigterm, killTimer>>
       ELSE sigterm' = TRUE /\ (IF killTimer THEN UNCHANGED killTimer ELSE Escalate)
    /\ UNCHANGED <<child, output, pipe, reader, settled, exits, sigkilled>>

GraceEnds ==
    /\ killTimer /\ killTimer' = FALSE
    /\ IF settled THEN UNCHANGED sigkilled ELSE sigkilled' = TRUE
    /\ UNCHANGED <<child, output, pipe, reader, settled, exits, sigterm, disposed>>

Next ==
    \/ WriteByte \/ EndFrame \/ Exits \/ Killed
    \/ (\E n \in 1 .. MaxChunk : Data(n)) \/ StreamEnds
    \/ Reaped \/ Dispose \/ GraceEnds

\* timers fire, a killed process goes and the system reports it; an agent owes nothing
Fairness == WF_vars(Killed) /\ WF_vars(Reaped) /\ WF_vars(GraceEnds)

Spec == Init /\ [][Next]_vars /\ Fairness

-----------------------------------------------------------------------------
Frame(k) == [i \in 1 .. written[k] |-> k]

\* frames that were read to their newline, or to the end of the stream
Read == {k \in DOMAIN written :
            /\ \A i \in DOMAIN pipe : pipe[i] # k
            /\ IF k = Len(written) /\ unfinished THEN streamEnded ELSE
                 Cardinality({i \in DOMAIN pipe : pipe[i] = Newline})
                   <= Cardinality({j \in DOMAIN written : j > k /\ ~(j = Len(written) /\ unfinished)})}

\* What the adapters are given are the agent's frames, whole, in order and once, however they were
\* cut into chunks; and it is all of them but those over the cap, of which no piece is given.
LinesArriveWhole ==
    LET fits == {k \in Read : written[k] <= MaxFrameBytes} IN
    /\ Len(lines) = Cardinality(fits)
    /\ \A k \in fits : lines[Cardinality({j \in fits : j <= k})] = Frame(k)

\* A process that was disposed of is gone in the end, though it ignores SIGTERM.
DisposedExits == disposed ~> settled
=============================================================================
