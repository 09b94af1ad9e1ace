--------------------------- MODULE MCTrainerParts ---------------------------
(***************************************************************************)
(* Five parts of a training job that share no state, side by side for TLC: *)
(* `part' says which one a behaviour is about, and the others stay as they *)
(* begin.  Their constants are in the .cfg.                                *)
(***************************************************************************)
EXTENDS Histories, LossWindow, LossReporting, ProgressManager, TLC

VARIABLE part

\* The ranks of the other parts, and the threads, are all alike.
WorkerSymmetry == Permutations(Threads)

all == <<part, vars, opdVars, lossVars, reportingVars, progressVars>>

MCInit ==
    /\ part \in {"telemetry", "opd", "loss", "reporting", "progress"}
    /\ Init /\ OpdInit /\ LossInit /\ ReportingInit /\ ProgressInit
    /\ part # "progress" => sinks = {}

MCNext ==
    /\ \/ /\ part = "telemetry" /\ Next
          /\ UNCHANGED <<opdVars, lossVars, reportingVars, progressVars>>
       \/ /\ part = "opd" /\ OpdNext
          /\ UNCHANGED <<vars, lossVars, reportingVars, progressVars>>
       \/ /\ part = "loss" /\ LossNext
          /\ UNCHANGED <<vars, opdVars, reportingVars, progressVars>>
       \/ /\ part = "reporting" /\ ReportingNext
          /\ UNCHANGED <<vars, opdVars, lossVars, progressVars>>
       \/ /\ part = "progress" /\ ProgressNext
          /\ UNCHANGED <<vars, opdVars, lossVars, reportingVars>>
    /\ UNCHANGED part

MCSpec == MCInit /\ [][MCNext]_all
=============================================================================
