------------------------------- MODULE Nodes -------------------------------
(* The ranks of a job, on nodes whose local files they share. *)
CONSTANT Workers

VARIABLE leader    \* rank -> the rank of its node with LOCAL_RANK 0

\* Every node has such a rank.
Grouped == leader \in [Workers -> Workers] /\ \A r \in Workers : leader[leader[r]] = leader[r]
=============================================================================
