----------------------------- MODULE MCTraining -----------------------------
(***************************************************************************)
(* What a training is fed with and what it leaves behind, side by side for *)
(* TLC: the stream of draws, the planner that groups them into batches,    *)
(* the epochs without a planner, and the checkpoints of a ddp job.  `part' *)
(* says which one a behaviour is about, and the others stay as they begin. *)
(* The planner takes a draw by its number only, so nothing of the stream   *)
(* reaches it.                                                             *)
(***************************************************************************)
EXTENDS CheckpointCommit, BatchPlanner, SampleSchedule, EpochSampler

VARIABLE part

MCModes == {"fixed", "token_budget"}

\* With four tokens to a batch, the last can only be alone.
MCCosts == {[tokens |-> 1, patches |-> 0], [tokens |-> 2, patches |-> 1],
            [tokens |-> 1, patches |-> 2], [tokens |-> 3, patches |-> 0]}

\* Bound: with a budget for a cardinality the second call is looked at where the first left
\* more than one sample; after a full plan it is much as with a fixed cardinality.
Explored == mode = "token_budget" /\ microstep > 0 => Len(buffer) > BufferSize - Global

\* The planner with grouping length, over two costs: two samples share a pack if they
\* differ, and a rank takes one that has patches.
Lengths == INSTANCE BatchPlanner
    WITH Modes <- {"length", "packed"},
         Costs <- {[tokens |-> 1, patches |-> 2], [tokens |-> 2, patches |-> 0]}

\* Up to six samples on up to three ranks, in windows of up to two batches, with every tail;
\* groups of up to two prompts, up to two of each in a row, each group twice.
PlainSetups ==
    [grouped : {FALSE}, samples : 1 .. 6, batch : 1 .. 3, world : 1 .. 3, drop : BOOLEAN,
     equal : BOOLEAN, ga : 1 .. 2, unique : {1}, mini : {1}, repeat : {1}]
GroupedSetups ==
    [grouped : {TRUE}, samples : 2 .. 4, batch : 1 .. 4, world : 1 .. 2, drop : BOOLEAN,
     equal : {TRUE}, ga : 1 .. 2, unique : 1 .. 2, mini : 1 .. 2, repeat : {2}]
MCSetups == PlainSetups \cup GroupedSetups

MCInit ==
    /\ part \in {"schedule", "planner", "lengths", "epochs", "commit"}
    /\ IF part = "lengths" THEN Lengths!Init ELSE Init
    /\ ScheduleInit
    /\ EpochInit
    /\ CommitInit
    /\ part \in {"schedule", "epochs", "commit"} => mode = "fixed"
    /\ part # "schedule" =>
           /\ kind = "concat" /\ world = 1
           /\ quota = Hamilton([s \in Source |-> 1])
    /\ part # "epochs" =>
           setup = [grouped |-> FALSE, samples |-> 1, batch |-> 1, world |-> 1, drop |-> FALSE,
                    equal |-> FALSE, ga |-> 1, unique |-> 1, mini |-> 1, repeat |-> 1]

MCNext ==
    /\ \/ /\ part = "schedule" /\ Draw
          /\ UNCHANGED <<vars, epochVars, commitVars>>
       \/ /\ part = "planner" /\ Explored /\ Next
          /\ UNCHANGED <<scheduleVars, epochVars, commitVars>>
       \/ /\ part = "lengths" /\ Lengths!Next
          /\ UNCHANGED <<scheduleVars, epochVars, commitVars>>
       \/ /\ part = "epochs" /\ EpochNext
          /\ UNCHANGED <<vars, scheduleVars, commitVars>>
       \/ /\ part = "commit" /\ CommitNext
          /\ UNCHANGED <<vars, scheduleVars, epochVars>>
    /\ UNCHANGED part

MCSpec == MCInit /\ [][MCNext]_<<vars, part, scheduleVars, epochVars, commitVars>>
=============================================================================
