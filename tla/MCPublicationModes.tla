------------------------- MODULE MCPublicationModes -------------------------
(* Instances of PublicationModes for TLC. *)
EXTENDS PublicationModes

ddp == [backend |-> "ddp", planned |-> FALSE, only |-> FALSE]
ddpPlanned == [backend |-> "ddp", planned |-> TRUE, only |-> FALSE]
sharded == [backend |-> "sharded", planned |-> FALSE, only |-> FALSE]
shardedPlanned == [backend |-> "sharded", planned |-> TRUE, only |-> FALSE]
weightsOnly == [backend |-> "sharded", planned |-> TRUE, only |-> TRUE]

MCModes == {ddp, ddpPlanned, sharded, shardedPlanned, weightsOnly}
MCPlanned == {ddpPlanned, shardedPlanned}
MCSharded == {sharded, shardedPlanned}
=============================================================================
