--------------------------- MODULE CheckpointSlot ---------------------------
(***************************************************************************)
(* What the publication protocols promise of one checkpoint directory: its *)
(* readers see at most one generation; a generation appears once, when the *)
(* save that is under way publishes it; and what a later save has hidden   *)
(* never comes back.                                                       *)
(***************************************************************************)
EXTENDS Naturals

VARIABLES clock,   \* how many saves have begun
          shown    \* the generations that some reader accepts

vars == <<clock, shown>>

Init == clock = 0 /\ shown = {}

\* A save begins; it may hide what was there at once.
Begin == clock' = clock + 1 /\ shown' \in SUBSET shown

\* The save under way hides what was there.
Withdraw == shown # {} /\ shown' = {} /\ clock' = clock

\* The save under way is shown, and nothing else is.
Publish == clock > 0 /\ shown = {} /\ shown' = {clock} /\ clock' = clock

Next == Begin \/ Withdraw \/ Publish

Spec == Init /\ [][Next]_vars
=============================================================================
