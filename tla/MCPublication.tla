---------------------------- MODULE MCPublication ----------------------------
(***************************************************************************)
(* What publishes its files by a marker or a rename, side by side for TLC: *)
(* the offline KD artifact, over a small dataset; a checkpoint that jobs   *)
(* of several modes save; the artifacts of several hosts and their merge;  *)
(* and a new version of a distillation bundle.  `part' says which one a    *)
(* behaviour is about and, for the first artifact, who gives the writer    *)
(* its rows: any caller of add, which may pass rows over and stop wherever *)
(* it likes, or the pipeline.                                              *)
(***************************************************************************)
EXTENDS OfflineKDPipeline, PublicationModes, DetectionMap

VARIABLES part,
          stem, verdict, links, near, filtered, labels, finalization, at, todo, gt, artifact,
          index, reasons, bundle

bundleVars == <<stem, verdict, links, near, filtered, labels, finalization, at, todo, gt, artifact,
                index, reasons, bundle>>

\* The third row fills a shard alone.
MCBytes  == [i \in 0 .. Length - 1 |-> IF i = 2 THEN 3 ELSE 1]
MCDenied == {1}

Mode(b, planned, only) == [backend |-> b, planned |-> planned, only |-> only]

MCHostOf == [r \in 0 .. 1 |-> IF r = 0 THEN "a" ELSE "b"]

\* Jobs of every mode.
MCModes ==
    {Mode(b, planned, FALSE) : b \in {"ddp", "sharded"}, planned \in BOOLEAN}
        \cup {Mode("sharded", TRUE, TRUE)}

\* Two rows and two new ones, one of which may share the name of an old one; two runs.
NextVersion == INSTANCE DetectionBundle
    WITH Old <- {1, 2}, New <- {3, 4}, MaxRun <- 2,
         Stemmings <- {<<"a", "b", "c", "d">>, <<"a", "b", "a", "d">>},
         content <- labels, run <- finalization, pc <- at, output <- bundle

\* The parts that are not running begin in one way only.
MCInit ==
    /\ part \in {"caller", "pipeline", "modes", "map", "bundle"}
    /\ PipelineInit /\ ModesInit /\ MapInit /\ NextVersion!Init
    /\ bad \in IF part = "map" THEN {{}, {1}, {2}} ELSE {{}}
    /\ part # "bundle" => stem[3] # stem[1] /\ links /\ verdict = [r \in {3, 4} |-> "clean"]

MCNext ==
    /\ \/ part = "caller" /\ Next /\ UNCHANGED <<pipeline, modesVars, mapVars, bundleVars>>
       \/ part = "pipeline" /\ PipelineNext /\ UNCHANGED <<modesVars, mapVars, bundleVars>>
       \/ part = "modes" /\ ModesNext /\ UNCHANGED <<allvars, mapVars, bundleVars>>
       \/ part = "map" /\ MapNext /\ UNCHANGED <<allvars, modesVars, bundleVars>>
       \/ part = "bundle" /\ NextVersion!Next /\ UNCHANGED <<allvars, modesVars, mapVars>>
    /\ UNCHANGED part

all == <<allvars, part, modesVars, mapVars, bundleVars>>

\* A pipeline that runs goes on, see FairPipeline.
MCFairness ==
    WF_all(/\ part = "pipeline"
           /\ Loop \/ WriterStep \/ (OpenWriter /\ pc = "first")
           /\ UNCHANGED <<part, modesVars, mapVars, bundleVars>>)

MCSpec == MCInit /\ [][MCNext]_all /\ MCFairness

\* The pipeline passes no row over, which another caller may do, and gives the writer none
\* that it refuses.
PipelineKeepsRows == part = "pipeline" => NothingPassedOver /\ NeverRefused

\* A job of the pipeline that is started ends, by publication or otherwise.
PipelineJobEnds == part = "pipeline" /\ pc # "down" ~> pc = "down"

\* A published bundle is the old one without the dropped rows and with the new ones; see
\* DetectionBundle.
BundleWhole == NextVersion!BundleWhole
=============================================================================
