------------------------------ MODULE MCStartup ------------------------------
(***************************************************************************)
(* What a starting job reads while others may be writing it, and the       *)
(* stream it then trains from, side by side for TLC: the choice of a       *)
(* checkpoint to resume from, the files of the base model, the cache of a  *)
(* source's records, and the planned sampler, whose jobs are all sharded,  *)
(* as the .cfg sets Sharded, or all ddp.  They share no state but the      *)
(* nodes that the ranks are on: `part' says which one a behaviour is       *)
(* about, and the others stay as they begin.                               *)
(***************************************************************************)
EXTENDS PlannedSampler, ResumeGuard, ModelArtifact, RecordCache

\* The files of a checkpoint in the order of sorted().
MCNames == <<"model", "marker", "state">>

VARIABLE part

Ddp == INSTANCE PlannedSampler WITH Sharded <- FALSE

One == CHOOSE r \in Workers : TRUE

\* A part that is not running begins in one way.  The workers are alike, so that one of them
\* leads wherever there is one node, and the two contents of a file of the model are alike, so
\* that this one begins with the first.  A checkpoint that is not whole was left before the
\* save got to "model".
MCInit ==
    /\ part \in {"sharded", "ddp", "resume", "model", "records"}
    /\ Init /\ ResumeInit /\ ModelInit /\ RecordInit
    /\ leader[One] = One /\ \A f \in {1, 2} : artifact[mount[One]][f].content = 1
    /\ \A s \in Steps : Valid(s) \/ checkpoints[s]["model"] = s
    /\ part # "resume" =>
           /\ protocol = "backend_native"
           /\ \A s \in Steps : Valid(s)
    /\ part # "model" =>
           /\ \A r \in Workers : mount[r] = r
           /\ \A r \in Workers, f \in ModelFile : artifact[r][f].content = 1
    /\ part # "records" =>
           source = 1 /\ \A r \in Workers : dir[r] = dir[leader[r]] /\ dir[r] = leader[r]
    /\ part \in {"sharded", "ddp", "resume"} => \A r \in Workers : leader[r] = r

\* The nodes are those of the model and of the records.
startupVars == <<resumeVars, modelVars, recordVars>>

InSharded(A) == part = "sharded" /\ A /\ UNCHANGED <<part, startupVars>>
InDdp(A)     == part = "ddp" /\ A /\ UNCHANGED <<part, startupVars>>
Trains(A, B) == InSharded(A) \/ InDdp(B)

MCNext ==
    \/ Trains(Next, Ddp!Next)
    \/ part = "resume" /\ ResumeNext /\ UNCHANGED <<part, vars, modelVars, recordVars>>
    \/ /\ part = "model" /\ ModelNext
       /\ UNCHANGED <<part, vars, resumeVars, dir, world, cache, locked, opening, warming, fp,
                      built, store>>
    \/ /\ part = "records" /\ RecordNext
       /\ UNCHANGED <<part, vars, resumeVars, mount, files, errors, building, file, stage, own,
                      ok, stat, digest, plan, loaded>>

all == <<part, vars, startupVars>>

\* The fairness of PlannedSampler.
MCFairness ==
    WF_all(\/ Trains(StartJob, Ddp!StartJob) \/ Trains(Finish, Ddp!Finish)
           \/ Trains(OptimizerStep, Ddp!OptimizerStep)
           \/ \E r \in Ranks : \/ Trains(Produce(r), Ddp!Produce(r))
                               \/ Trains(Train(r), Ddp!Train(r)))

MCSpec == MCInit /\ [][MCNext]_all /\ MCFairness

\* The training ends, or the jobs fail as often as they may; see PlannedSampler.
PlannedTrainingEnds == part \in {"sharded", "ddp"} => TrainingEnds
=============================================================================
