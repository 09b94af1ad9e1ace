-------------------------- MODULE OfflineKDPipeline --------------------------
(***************************************************************************)
(* produce_detection_pseudo_kd_artifact of offline_kd/producer.py: one     *)
(* coroutine keeps up to Width generations running, takes their results as *)
(* they come, and gives the rows to the OfflineKDWriter in source order.   *)
(*                                                                         *)
(* A generation that fails the schema of a pseudo label goes to the bad-   *)
(* case file instead, which is written but never fsynced: what a power loss *)
(* takes of it is not modelled, logged holds what was ever written.        *)
(***************************************************************************)
EXTENDS OfflineKDWriter, FiniteSets

CONSTANTS
    Denied,         \* source rows the denylist excludes
    Width,          \* scoring_batch_size
    ReorderLimit    \* rows submitted and not yet committed, at most

ASSUME PipelineAssumption == /\ Denied \subseteq Indices
                             /\ Width \in Nat \ {0}
                             /\ ReorderLimit \in Nat /\ ReorderLimit >= Width

VARIABLES
    phase,      \* where run_pipeline is in its loop
    cursor,     \* next_source_index
    active,     \* rows being generated
    done,       \* of them, those the last wait returned
    order,      \* submitted_order
    completed,  \* rows whose result has arrived, in the reorder buffer
    rejected,   \* of them, those that were bad cases
    logged      \* rows in the bad-case file, of all jobs

loop     == <<phase, cursor, active, done, order, completed, rejected>>
pipeline == <<loop, logged>>
allvars  == <<vars, pipeline>>

PipelineInit ==
    /\ Init
    /\ phase = "refill" /\ cursor = 0
    /\ active = {} /\ done = {} /\ order = <<>> /\ completed = {} /\ rejected = {}
    /\ logged = {}

\* The writer is open and waits for the coroutine.
Turn(p) == pc = "ready" /\ ~ closing /\ phase = p

-----------------------------------------------------------------------------
\* The job opens the writer; the coroutine then starts at its cursor.
OpenWriter ==
    /\ Open
    /\ IF pc' = "ready"
       THEN /\ phase' = "refill" /\ cursor' = next'
            /\ active' = {} /\ done' = {} /\ order' = <<>>
            /\ completed' = {} /\ rejected' = {}
       ELSE UNCHANGED loop
    /\ UNCHANGED logged

\* refill: submit the next row that is not denied ...
Room == Cardinality(active) < Width /\ Cardinality(active) + Cardinality(completed) < ReorderLimit

Submit ==
    /\ Turn("refill") /\ Room
    /\ \E i \in cursor .. Length - 1 :
          /\ i \notin Denied /\ cursor .. i - 1 \subseteq Denied
          /\ active' = active \cup {i}
          /\ order' = Append(order, i)
          /\ cursor' = i + 1
    /\ UNCHANGED <<phase, done, completed, rejected, logged, vars>>

\* Mutant: the loop goes on when nothing is running.
RefilledForEver ==
    /\ Turn("refill")
    /\ cursor .. Length - 1 \subseteq Denied \/ ~ Room
    /\ cursor' = IF Room THEN Length ELSE cursor
    /\ phase' = IF active # {} THEN "wait" ELSE "refill"
    /\ UNCHANGED <<active, done, order, completed, rejected, logged, vars>>

\* ... until there is no room or no row.
Refilled ==
    /\ Turn("refill")
    /\ cursor .. Length - 1 \subseteq Denied \/ ~ Room
    /\ cursor' = IF Room THEN Length ELSE cursor
    /\ phase' = IF active # {} THEN "wait" ELSE "drain"
    /\ UNCHANGED <<active, done, order, completed, rejected, logged, vars>>

\* asyncio.wait(FIRST_COMPLETED): some generations have finished, in any order.
Wait ==
    /\ Turn("wait")
    /\ done' \in SUBSET active \ {{}}
    /\ phase' = "take"
    /\ UNCHANGED <<cursor, active, order, completed, rejected, logged, vars>>

\* The result of one of them is a row for the artifact, or a bad case.
TakeRow ==
    /\ Turn("take")
    /\ \E i \in done :
          /\ done' = done \ {i} /\ active' = active \ {i}
          /\ completed' = completed \cup {i}
    /\ UNCHANGED <<phase, cursor, order, rejected, logged, vars>>

TakeBadCase ==
    /\ Turn("take")
    /\ \E i \in done :
          /\ done' = done \ {i} /\ active' = active \ {i}
          /\ completed' = completed \cup {i}
          /\ rejected' = rejected \cup {i}
          /\ logged' = logged \cup {i}
    /\ UNCHANGED <<phase, cursor, order, vars>>

TakenAll ==
    /\ Turn("take") /\ done = {}
    /\ phase' = "commit"
    /\ UNCHANGED <<cursor, active, done, order, completed, rejected, logged, vars>>

\* Mutant: rows are committed as they complete.
ReadyInAnyOrder == completed
\* commit_ready: the oldest submitted row, if its result has arrived.
ReadyRows == IF order # <<>> THEN {Head(order)} \cap completed ELSE {}

CommitRow ==
    /\ Turn("commit")
    /\ \E i \in ReadyRows \ rejected :
          /\ order' = Tail(order)
          /\ completed' = completed \ {i}
          /\ Add(i)
    /\ UNCHANGED <<phase, cursor, active, done, rejected, logged>>

SkipBadCase ==
    /\ Turn("commit")
    /\ \E i \in ReadyRows \cap rejected :
          /\ order' = Tail(order)
          /\ completed' = completed \ {i}
          /\ rejected' = rejected \ {i}
    /\ UNCHANGED <<phase, cursor, active, done, logged, vars>>

CommittedAll ==
    /\ Turn("commit") /\ ReadyRows = {}
    /\ phase' = "refill"
    /\ UNCHANGED <<cursor, active, done, order, completed, rejected, logged, vars>>

\* Nothing is running: the pipeline must have drained, and the writer finalizes.
Drain ==
    /\ Turn("drain")
    /\ IF order = <<>> /\ completed = {}
       THEN Finalize
       ELSE pc' = "down" /\ UNCHANGED <<job, memory, files, durable>>
    /\ UNCHANGED pipeline

\* The writer's own steps, and what happens to the job and the machine.
WriterStep == (Flush \/ Closing) /\ UNCHANGED pipeline
Disturbed  == (Kill \/ JournalCommit \/ PowerLoss) /\ UNCHANGED pipeline

Loop == Submit \/ Refilled \/ Wait \/ TakeRow \/ TakeBadCase \/ TakenAll
        \/ CommitRow \/ SkipBadCase \/ CommittedAll \/ Drain

PipelineNext == OpenWriter \/ Loop \/ WriterStep \/ Disturbed

PipelineSpec == PipelineInit /\ [][PipelineNext]_allvars

\* A job that runs goes on: its generations finish, its writes return.
FairPipeline == PipelineSpec /\ WF_allvars(Loop \/ WriterStep \/ (OpenWriter /\ pc = "first"))

-----------------------------------------------------------------------------
(***************************************************************************)
(* Properties.                                                             *)
(***************************************************************************)
\* The shape of the state.
PipelineTypeOK ==
    /\ phase \in {"refill", "wait", "take", "commit", "drain"}
    /\ cursor \in 0 .. Length
    /\ active \subseteq Indices /\ done \subseteq active
    /\ order \in Seq(Indices)
    /\ completed \subseteq Indices /\ rejected \subseteq completed
    /\ logged \subseteq Indices

\* The published artifact holds every row of the source, except the denied ones
\* and those that were logged as bad cases: no crash, restart or order of
\* completion makes the producer pass a row over.
Published == {jsonl[n].row.index : n \in 1 .. Len(jsonl)}
NothingPassedOver ==
    place = "output" => Indices \subseteq Published \cup Denied \cup logged

\* The pipeline never gives the writer a row it refuses, and never ends with rows
\* left in the reorder buffer.
NeverRefused ==
    /\ phase = "commit" /\ pc = "ready" => \A i \in ReadyRows : Accepts(i)
    /\ phase = "drain" => order = <<>> /\ completed = {}

\* A job that is started ends, by publication or otherwise.
JobEnds == pc # "down" ~> pc = "down"
=============================================================================
