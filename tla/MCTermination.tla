---------------------------- MODULE MCTermination ----------------------------
(***************************************************************************)
(* The two state machines that must come to an end by themselves, side by  *)
(* side for TLC: one checkpoint attempt of three ranks, and a run of the   *)
(* inference pipeline.  `part' says which one a behaviour is about; the    *)
(* other stays as it begins.                                               *)
(***************************************************************************)
EXTENDS CheckpointCommit, InferRun

VARIABLE part

\* Stages with and without a timeout and a back-off that is shorter than it, engines
\* that do and do not support the controls.
MCConfigs ==
    [timeout : {0, 3}, retries : {1}, backoff : {0, 2}, failFast : BOOLEAN,
     deadlines : BOOLEAN, cancels : BOOLEAN]

\* Both stages have the same engine and back-off, and their own timeout and fail_fast.
\* The part that is not running begins in one way only.
MCInit ==
    /\ part \in {"checkpoint", "infer"}
    /\ CommitInit /\ InferInit
    /\ config[2] \in {[config[1] EXCEPT !.timeout = t, !.failFast = f] : t \in {0, 3}, f \in BOOLEAN}
    /\ part = "checkpoint" =>
           event = "none" /\ \A s \in 1 .. 2 : config[s] = CHOOSE c \in MCConfigs : TRUE

Commits(A) == part = "checkpoint" /\ A /\ UNCHANGED <<part, inferVars>>
Infers(A)  == part = "infer" /\ A /\ UNCHANGED <<part, commitVars>>

all == <<part, commitVars, inferVars>>

MCNext == Commits(CommitNext) \/ Infers(InferNext)

\* The fairness of CheckpointCommit and of InferRun, for the part that is running.
MCFairness ==
    /\ \A r \in Ranks : WF_all(Commits(RankStep(r)))
    /\ WF_all(Commits(RankZeroStep)) /\ WF_all(Commits(Teardown))
    /\ WF_all(Infers(Pipeline)) /\ WF_all(Infers(Engine)) /\ WF_all(Infers(Tick))

MCSpec == MCInit /\ [][MCNext]_all /\ MCFairness

\* Every run of the inference pipeline returns or raises.
RunEnds == part = "infer" ~> Ended
=============================================================================
