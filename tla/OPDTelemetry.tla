----------------------------- MODULE OPDTelemetry -----------------------------
(***************************************************************************)
(* The history of OPDTelemetryMonitor through checkpoints and resumes      *)
(* (shaft/opd/telemetry.py).  Unlike EfficiencyTelemetry it has no         *)
(* transaction: a rank's snapshot is one file that is replaced by rename   *)
(* in the callbacks of a save, and what binds it to the model is the       *)
(* manifest of the checkpoint, which is published after it (the jobs are   *)
(* ddp: see CheckpointCommit).  And it restores strictly: a rank that      *)
(* cannot read a whole history makes the job raise.  Each job chooses anew *)
(* whether it measures and whether it persists (train.efficiency.enabled,  *)
(* persist).                                                               *)
(***************************************************************************)
EXTENDS Naturals, Sequences

CONSTANTS Students,
          Settings,    \* what jobs set: "on", "unsaved" (persist=false), "off" (enabled=false)
          MaxOpdStep,  \* optimizer steps of a whole run
          MaxOpdJobs   \* bound: jobs, the first and the resumed ones

OpdSteps == 1 .. MaxOpdStep

VARIABLES settings,  \* what the jobs so far were set to, the current or last one at the end
          opd,       \* the job: "down", "train", "begin" and "write" of a save, "done"
          taken,     \* ghost: for each step its model has taken, the job that took it
          frames,    \* each rank's monitor: for each frame, the job that measured it
          wrote,     \* ranks whose callbacks of this save are over
          opdModel,  \* lineage of the model in checkpoint-<step>
          manifest,  \* it is published
          opdSnaps,  \* its snapshot of each rank, <<>> for none
          summary,   \* lineage and histories of the runs' published telemetry
          refused    \* ghost: lineages of the checkpoints the telemetry has turned away

opdSaved == <<opdModel, manifest, opdSnaps>>
opdVars == <<settings, opd, taken, frames, wrote, opdSaved, summary, refused>>

opdJob == Len(settings)
setting == IF settings = <<>> THEN "off" ELSE settings[opdJob]
opdStep == Len(taken)
Alike(x) == [r \in Students |-> x]
Enabled == setting # "off"

OpdInit ==
    /\ settings = <<>> /\ opd = "down" /\ taken = <<>> /\ frames = Alike(<<>>)
    /\ wrote = {}
    /\ opdModel = [s \in OpdSteps |-> <<>>]
    /\ manifest = [s \in OpdSteps |-> FALSE]
    /\ opdSnaps = [s \in OpdSteps |-> Alike(<<>>)]
    /\ summary = {} /\ refused = {}

\* A snapshot is a contiguous complete history of its checkpoint's steps.
ReadableAt(r, s) == Len(opdSnaps[s][r]) = s

\* The ranks gather their errors: a history that one cannot read is refused by all.
Restorable(s) == \A r \in Students : ReadableAt(r, s)

\* A job starts, from nothing (s = 0) or from a checkpoint the resolver accepts.
StartOpd(m, s) ==
    /\ opd \in {"down", "done"} /\ opdJob < MaxOpdJobs
    /\ s > 0 => manifest[s]
    /\ settings' = Append(settings, m)
    /\ taken' = IF s = 0 THEN <<>> ELSE opdModel[s]
    /\ LET strict == m # "off" /\ s > 0
       IN  /\ opd' = IF strict /\ ~Restorable(s) THEN "down" ELSE "train"
           /\ frames' = IF strict THEN opdSnaps[s] ELSE Alike(<<>>)
           /\ refused' = IF strict /\ ~Restorable(s) THEN refused \cup {opdModel[s]} ELSE refused
    /\ UNCHANGED <<wrote, opdSaved, summary>>

\* An optimizer step ends: each rank commits the frame of its window; a save may follow.
TrainOpd(saving) ==
    /\ opd = "train" /\ opdStep < MaxOpdStep
    /\ taken' = Append(taken, opdJob)
    /\ frames' = IF Enabled THEN [r \in Students |-> Append(frames[r], opdJob)] ELSE frames
    /\ opd' = IF saving THEN "begin" ELSE opd
    /\ UNCHANGED <<settings, wrote, opdSaved, summary, refused>>

\* The manifest is revoked and the model is written; the snapshots of an earlier save stay.
BeginSave ==
    /\ opd = "begin" /\ opd' = "write" /\ wrote' = {}
    /\ manifest' = [manifest EXCEPT ![opdStep] = FALSE]
    /\ opdModel' = [opdModel EXCEPT ![opdStep] = taken]
    /\ UNCHANGED <<settings, taken, frames, opdSnaps, summary, refused>>

\* on_save of rank r, which writes nothing unless it persists.
WriteFrames(r) ==
    /\ opd = "write" /\ r \notin wrote
    /\ wrote' = wrote \cup {r}
    /\ opdSnaps' = IF setting = "on" THEN [opdSnaps EXCEPT ![opdStep][r] = frames[r]] ELSE opdSnaps
    /\ UNCHANGED <<settings, opd, taken, frames, opdModel, manifest, summary, refused>>

\* Every rank's callbacks have succeeded and the manifest is published.
Publish ==
    /\ opd = "write" /\ wrote = Students
    /\ opd' = "train"
    /\ manifest' = [manifest EXCEPT ![opdStep] = TRUE]
    /\ UNCHANGED <<settings, taken, frames, wrote, opdModel, opdSnaps, summary, refused>>

\* Training is over: the ranks gather their histories and rank 0 publishes them.  Each has
\* the same steps, and the last one is the trainer's.
Finalize ==
    /\ opd = "train" /\ opdStep = MaxOpdStep
    /\ opd' = "done"
    /\ summary' = IF setting = "on" THEN summary \cup {<<taken, frames>>} ELSE summary
    /\ UNCHANGED <<settings, taken, frames, wrote, opdSaved, refused>>

\* A kill, or an error of one rank, which the save shares with all.
StopOpd ==
    /\ opd \notin {"down", "done"}
    /\ opd' = "down"
    /\ UNCHANGED <<settings, taken, frames, wrote, opdSaved, summary, refused>>

OpdNext ==
    \/ \E m \in Settings, s \in 0 .. MaxOpdStep : StartOpd(m, s)
    \/ \E saving \in BOOLEAN : TrainOpd(saving)
    \/ BeginSave
    \/ \E r \in Students : WriteFrames(r)
    \/ Publish \/ Finalize \/ StopOpd

OpdSpec == OpdInit /\ [][OpdNext]_opdVars

-----------------------------------------------------------------------------
\* Every job that took these steps persisted its telemetry.
Persisted(lineage) == \A i \in DOMAIN lineage : settings[lineage[i]] = "on"

\* The lineage up to the current job, which only has to measure, persisted its telemetry.
Measured == Enabled /\ \A i \in DOMAIN taken : taken[i] = opdJob \/ settings[taken[i]] = "on"

\* Whichever checkpoint of whichever lineage was resumed, and whatever the jobs beside that
\* lineage were set to, which write the same directories: while the jobs before the current
\* one persisted their telemetry, each rank's monitor holds the frames of the very steps the
\* model has taken, and so does what is published of a lineage that was persisted throughout
\* (OPDTelemetryMonitor.from_checkpoint and finalize).
MeasuredIsTrained ==
    /\ opd \in {"train", "begin", "write", "done"} /\ Measured => frames = Alike(taken)
    /\ \A p \in summary : Persisted(p[1]) => p[2] = Alike(p[1])

\* And a checkpoint the resolver accepts is turned away because of its telemetry only when
\* some job of its lineage did not persist it.
RefusedUnpersisted == \A lineage \in refused : ~Persisted(lineage)

\* The telemetry "does not change the correctness of planner, loss or checkpoint", as the
\* configuration reference says: it turns no checkpoint away that the resolver accepts.
ResumeNotRefused == refused = {}
=============================================================================
