-------------------------- MODULE OfflineKDArtifact --------------------------
(***************************************************************************)
(* What the producers of offline_kd promise to a reader of an artifact: it *)
(* appears at once, holds rows in source order, and never changes.  Until  *)
(* the publication is durable a power loss may undo it.                    *)
(***************************************************************************)
EXTENDS Integers, Sequences

CONSTANT Rows       \* the rows an artifact may hold, [index : Nat, ...]

VARIABLES
    published,      \* the rows a reader obtains; <<>> while there is no artifact
    permanent       \* no power loss can undo the publication

vars == <<published, permanent>>

InSourceOrder(s) == \A n, m \in 1 .. Len(s) : n < m => s[n].index < s[m].index

Init == published = <<>> /\ permanent = FALSE

\* Stated on the next state: the set of artifacts is not enumerated.
Publish ==
    /\ published = <<>> /\ permanent' = FALSE
    /\ published' # <<>>
    /\ \A n \in 1 .. Len(published') : published'[n] \in Rows
    /\ InSourceOrder(published')

Settle == published # <<>> /\ permanent' = TRUE /\ UNCHANGED published

Undo == ~ permanent /\ published' = <<>> /\ UNCHANGED permanent

Next == Publish \/ Settle \/ Undo

Spec == Init /\ [][Next]_vars
=============================================================================
