------------------------------ MODULE Transcript ------------------------------
(***************************************************************************)
(* What the history of one session promises a device, whatever cache, log  *)
(* and digest keep it: numbers go up, text that was said stays visible,    *)
(* text of a turn that is over is kept for good, and a restart takes away  *)
(* only what was neither.  EventLog implements it (EventLog!ImplementsTranscript).   *)
(***************************************************************************)
EXTENDS Naturals

VARIABLES
  issued,  \* the highest number ever given to an event
  said,    \* every piece of text that was ever said, each by its number
  shown,   \* the text a device that asks for everything is shown now
  kept,    \* the text that is on disk
  open,    \* the text of the turn that is still going on
  faulty   \* has a write to the disk failed?

tvars == <<issued, said, shown, kept, open, faulty>>

Init ==
  /\ issued = 0
  /\ said = {} /\ shown = {} /\ kept = {} /\ open = {}
  /\ faulty = FALSE

(* Text is shown only if it was said, and what is on disk is shown; until  *)
(* a write fails, only the text of the open turn is not on disk.           *)
Honest ==
  /\ kept \subseteq shown
  /\ shown \subseteq said
  /\ ~faulty => shown \ kept \subseteq open

(* The session is told something: a new number, and perhaps a new piece of *)
(* text under it, which joins the open turn.                               *)
Speak ==
  /\ issued' > issued
  /\ said' \in {said, said \cup {issued'}}
  /\ faulty' = faulty
  /\ kept \subseteq kept'
  /\ ~faulty => shown \cup (said' \ said) \subseteq shown'
  /\ open' \subseteq open \cup {issued'}
  /\ Honest'

(* The process dies: the open turn is gone, the disk is not, and the text  *)
(* of a turn that was just being closed may have reached it in part.       *)
Restart ==
  /\ UNCHANGED <<issued, said, faulty>>
  /\ kept \subseteq kept'
  /\ shown' = kept'
  /\ open' = {}
  /\ Honest'

(* A write fails: from here on what is not on disk may go.                 *)
WriteFails ==
  /\ faulty' = TRUE
  /\ issued' >= issued
  /\ said' = said
  /\ kept \subseteq kept'
  /\ open' \subseteq open
  /\ Honest'

Next == Speak \/ Restart \/ WriteFails

Spec == Init /\ [][Next]_tvars
=============================================================================
