------------------------------ MODULE BatchStream ------------------------------
(***************************************************************************)
(* What batch planning promises of the stream of training samples: the     *)
(* draws of the schedule are reordered within a bounded window, none is    *)
(* lost or repeated, and none waits for ever.                              *)
(***************************************************************************)
EXTENDS Integers, FiniteSets

CONSTANTS
    Window,     \* draws looked at beyond those emitted
    Least, Most \* samples of one microstep

VARIABLES
    step,       \* microsteps emitted
    emitted     \* draws emitted

vars == <<step, emitted>>

Init == step = 0 /\ emitted = {}

Visible == 0 .. Cardinality(emitted) + Window - 1

\* The oldest waiting draw is always taken.
Emit ==
    /\ step' = step + 1
    /\ emitted \subseteq emitted'
    /\ LET taken == emitted' \ emitted
       IN  /\ taken \subseteq Visible
           /\ Cardinality(taken) \in Least .. Most
           /\ \E oldest \in taken : 0 .. oldest - 1 \subseteq emitted

Next == Emit

Spec == Init /\ [][Next]_vars

\* No draw starves: after microstep n, the first n draws have been emitted.
NoStarvation == 0 .. step - 1 \subseteq emitted
================================================================================
