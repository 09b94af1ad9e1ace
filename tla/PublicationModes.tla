-------------------------- MODULE PublicationModes --------------------------
(***************************************************************************)
(* One directory checkpoint-<step> that jobs of several modes write, one   *)
(* after the other (shaft/training/checkpointing.py).  A mode is a backend *)
(* (ddp, or a sharded one: FSDP, DeepSpeed), whether batches are planned   *)
(* and whether only the model is saved.  It decides which files are        *)
(* written, which marker publishes them and what a resume verifies:        *)
(*                                                                         *)
(*   ddp               a manifest with the hash of every file              *)
(*   sharded, planned  a marker, prepared and then committed, with hashes  *)
(*                     of the small files and the sizes of the shards      *)
(*   sharded           no marker: the backend's own                        *)
(*   only the model    a marker with the sizes of the weights, in a        *)
(*                     directory emptied first                             *)
(*                                                                         *)
(* How the ranks converge, and power loss, are CheckpointCommit's matter:  *)
(* here a save is killed, or raises, between any two file operations.      *)
(***************************************************************************)
EXTENDS Integers, Sequences

CONSTANTS Peers,         \* the ranks other than 0: positive numbers
          Modes,         \* the modes jobs run in, of AllModes
          MaxAttempts    \* bound: how many saves begin

AllModes == [backend : {"ddp", "sharded"}, planned : BOOLEAN, only : BOOLEAN]

VARIABLES contents,   \* content of each file: the attempt that wrote it, negated if torn
          commit,     \* shaft_checkpoint_commit.json
          backend,    \* shaft_backend_checkpoint_commit.json
          modelOnly,  \* shaft_model_only_checkpoint.json
          modes,      \* the mode of each attempt; the last is under way or over
          saving,     \* where the attempt under way is
          written,    \* how many of its files each rank has written
          open,       \* the rank is in the middle of the next one
          reported    \* ghost: the attempt whose commit returned, until the next begins

modesVars == <<contents, commit, backend, modelOnly, modes, saving, written, open, reported>>

Ranks == Peers \cup {0}
weights == <<"weights", 0>>
optimizer == <<"optimizer", 0>>
trainerState == <<"state", 0>>
Shards == {"shard"} \X Ranks
Rngs == {"rng"} \X Ranks
Artifacts == {weights, optimizer, trainerState} \cup Shards \cup Rngs

Absent == 0
NoMarker == [status |-> "none"]

attempt == Len(modes)
mode == modes[attempt]

\* A torn file's size differs from a whole one's; whole ones of two attempts are alike.
Size(content) == IF content > 0 THEN 1 ELSE content

-----------------------------------------------------------------------------
(* Which protocol a mode uses *)

UsesCommit(m) == ~m.only /\ m.backend = "ddp"
UsesPlanningCommit(m) == ~m.only /\ m.backend = "sharded" /\ m.planned
UsesPublication(m) == m.only \/ UsesCommit(m) \/ UsesPlanningCommit(m)

\* The files rank r writes, in order; "rng" 0 stands for the scheduler as well.
Duty(m, r) ==
    IF r # 0
    THEN CASE m.only               -> <<>>
           [] UsesCommit(m)        -> << <<"rng", r>> >>
           [] OTHER                -> << <<"shard", r>>, <<"rng", r>> >>
    ELSE CASE m.only               -> <<weights, trainerState>>
           [] UsesCommit(m)        -> <<weights, optimizer, <<"rng", 0>>, trainerState>>
           [] OTHER                -> <<weights, <<"shard", 0>>, <<"rng", 0>>, trainerState>>

Required == {weights, optimizer, trainerState} \cup Rngs   \* by the manifest
Hashed == {trainerState} \cup Rngs                         \* by the backend's marker

-----------------------------------------------------------------------------
(* What the validators accept *)

HasState == contents[trainerState] > 0
Planned == HasState /\ modes[contents[trainerState]].planned

\* Mutant: the manifest records sizes only.
ManifestBySize ==
    /\ commit.status = "committed" /\ HasState
    /\ \A a \in DOMAIN commit.files : Size(contents[a]) = Size(commit.files[a])

ManifestValid ==
    /\ commit.status = "committed"
    /\ HasState
    /\ \A a \in DOMAIN commit.files : contents[a] = commit.files[a]
    /\ commit.backend # NoMarker => backend = commit.backend
    /\ commit.planned = Planned

BackendValid ==
    /\ backend.status = "committed"
    /\ Planned
    /\ \A a \in Hashed : contents[a] = backend.files[a]
    /\ \A a \in Shards : Size(contents[a]) = Size(backend.files[a])

Forbidden ==
    \/ \E a \in Artifacts \ {weights, trainerState} : contents[a] # Absent
    \/ commit # NoMarker
    \/ backend # NoMarker

ModelOnlyValid ==
    /\ modelOnly.status = "committed"
    /\ Size(contents[weights]) = Size(modelOnly.weights)
    /\ ~Forbidden

\* The resolver takes the directory for a job of mode m.
Resolves(m) ==
    /\ ~m.only
    /\ modelOnly = NoMarker
    /\ IF UsesCommit(m)
       THEN ManifestValid /\ (m.planned => commit.planned)
       ELSE HasState /\ (m.planned => BackendValid)

\* Planning state is read through the backend's marker wherever there is one.
LoadsPlanning(m) ==
    m.planned => IF backend # NoMarker THEN ~UsesCommit(m) /\ BackendValid ELSE ManifestValid

Resumes(m) == Resolves(m) /\ LoadsPlanning(m)

-----------------------------------------------------------------------------
ModesInit ==
    /\ contents = [a \in Artifacts |-> Absent]
    /\ commit = NoMarker /\ backend = NoMarker /\ modelOnly = NoMarker
    /\ modes = <<>> /\ saving = "idle"
    /\ written = [r \in Ranks |-> 0] /\ open = [r \in Ranks |-> FALSE]
    /\ reported = 0

\* Mutant: no begin revokes the model-only marker.
BeginKeeping(m) ==
    /\ saving = "idle" /\ attempt < MaxAttempts
    /\ modes' = Append(modes, m)
    /\ saving' = IF m.only THEN "clear" ELSE "prepare"
    /\ written' = [r \in Ranks |-> 0] /\ open' = [r \in Ranks |-> FALSE]
    /\ reported' = 0
    /\ UNCHANGED <<contents, commit, backend, modelOnly>>

\* A job reaches the save of this step: rank 0 revokes the model-only marker, or
\* starts to empty the directory.
Begin(m) ==
    /\ saving = "idle" /\ attempt < MaxAttempts
    /\ modes' = Append(modes, m)
    /\ saving' = IF m.only THEN "clear" ELSE "prepare"
    /\ modelOnly' = IF m.only THEN modelOnly ELSE NoMarker
    /\ written' = [r \in Ranks |-> 0] /\ open' = [r \in Ranks |-> FALSE]
    /\ reported' = 0
    /\ UNCHANGED <<contents, commit, backend>>

\* rmtree, in whatever order the directory lists its entries.
ClearFile(a) ==
    /\ saving = "clear" /\ contents[a] # Absent
    /\ contents' = [contents EXCEPT ![a] = Absent]
    /\ UNCHANGED <<commit, backend, modelOnly, modes, saving, written, open, reported>>

ClearMarker ==
    /\ saving = "clear"
    /\ \/ commit # NoMarker /\ commit' = NoMarker /\ UNCHANGED <<backend, modelOnly>>
       \/ backend # NoMarker /\ backend' = NoMarker /\ UNCHANGED <<commit, modelOnly>>
       \/ modelOnly # NoMarker /\ modelOnly' = NoMarker /\ UNCHANGED <<commit, backend>>
    /\ UNCHANGED <<contents, modes, saving, written, open, reported>>

Cleared ==
    /\ saving = "clear" /\ ~Forbidden /\ modelOnly = NoMarker
    /\ contents[weights] = Absent /\ contents[trainerState] = Absent
    /\ saving' = "save"
    /\ UNCHANGED <<contents, commit, backend, modelOnly, modes, written, open, reported>>

\* Mutant: a sharded job prepares only a directory that has no marker.
PrepareOnce ==
    /\ saving = "prepare" /\ saving' = "save"
    /\ commit' = IF UsesCommit(mode) THEN NoMarker ELSE commit
    /\ backend' = IF UsesPlanningCommit(mode) /\ backend = NoMarker
                  THEN [status |-> "prepared", generation |-> attempt] ELSE backend
    /\ UNCHANGED <<contents, modelOnly, modes, written, open, reported>>

\* The rest of the begin: the manifest is revoked, or the backend's marker prepared, under a
\* generation of its own.
Prepare ==
    /\ saving = "prepare" /\ saving' = "save"
    /\ commit' = IF UsesCommit(mode) THEN NoMarker ELSE commit
    /\ backend' = IF UsesPlanningCommit(mode)
                  THEN [status |-> "prepared", generation |-> attempt] ELSE backend
    /\ UNCHANGED <<contents, modelOnly, modes, written, open, reported>>

\* HF and the backend write in place: a file is truncated, then whole.
OpenFile(r) ==
    /\ saving = "save" /\ ~open[r] /\ written[r] < Len(Duty(mode, r))
    /\ open' = [open EXCEPT ![r] = TRUE]
    /\ contents' = [contents EXCEPT ![Duty(mode, r)[written[r] + 1]] = -attempt]
    /\ UNCHANGED <<commit, backend, modelOnly, modes, saving, written, reported>>

CloseFile(r) ==
    /\ saving = "save" /\ open[r]
    /\ open' = [open EXCEPT ![r] = FALSE]
    /\ written' = [written EXCEPT ![r] = @ + 1]
    /\ contents' = [contents EXCEPT ![Duty(mode, r)[written[r] + 1]] = attempt]
    /\ UNCHANGED <<commit, backend, modelOnly, modes, saving, reported>>

Saved == saving = "save" /\ \A r \in Ranks : ~open[r] /\ written[r] = Len(Duty(mode, r))

Recorded == [a \in {b \in Artifacts : contents[b] # Absent} |-> contents[a]]

CommitTraining ==
    /\ Saved /\ UsesCommit(mode)
    /\ HasState /\ Required \subseteq DOMAIN Recorded
    /\ commit' = [status |-> "committed", files |-> Recorded, backend |-> backend,
                    planned |-> Planned]
    /\ saving' = "idle" /\ reported' = attempt
    /\ UNCHANGED <<contents, backend, modelOnly, modes, written, open>>

CommitBackend ==
    /\ Saved /\ UsesPlanningCommit(mode)
    /\ backend.status = "prepared" /\ Planned
    /\ Hashed \cup Shards \subseteq DOMAIN Recorded
    /\ backend' = [status |-> "committed", generation |-> backend.generation,
                   files |-> [a \in Hashed \cup Shards |-> contents[a]]]
    /\ saving' = "idle" /\ reported' = attempt
    /\ UNCHANGED <<contents, commit, modelOnly, modes, written, open>>

CommitModelOnly ==
    /\ Saved /\ mode.only
    /\ ~Forbidden /\ contents[weights] # Absent
    /\ modelOnly' = [status |-> "committed", weights |-> contents[weights]]
    /\ saving' = "idle" /\ reported' = attempt
    /\ UNCHANGED <<contents, commit, backend, modes, written, open>>

\* A sharded job that does not plan leaves publication to the backend.
SavedUnpublished ==
    /\ Saved /\ ~UsesPublication(mode)
    /\ saving' = "idle" /\ reported' = attempt
    /\ UNCHANGED <<contents, commit, backend, modelOnly, modes, written, open>>

\* The job is killed, or a rank's error has become every rank's.
Stop ==
    /\ saving # "idle" /\ saving' = "idle"
    /\ UNCHANGED <<contents, commit, backend, modelOnly, modes, written, open, reported>>

ModesNext ==
    \/ \E m \in Modes : Begin(m)
    \/ \E a \in Artifacts : ClearFile(a)
    \/ ClearMarker \/ Cleared \/ Prepare
    \/ \E r \in Ranks : OpenFile(r) \/ CloseFile(r)
    \/ CommitTraining \/ CommitBackend \/ CommitModelOnly \/ SavedUnpublished
    \/ Stop

ModesSpec == ModesInit /\ [][ModesNext]_modesVars

-----------------------------------------------------------------------------
(* Properties *)

\* Every variable has its type; no rank writes more than its files.
ModesTypeOK ==
    /\ contents \in [Artifacts -> -MaxAttempts .. MaxAttempts]
    /\ commit.status \in {"none", "committed"}
    /\ backend.status \in {"none", "prepared", "committed"}
    /\ modelOnly.status \in {"none", "committed"}
    /\ modes \in Seq(Modes) /\ attempt <= MaxAttempts
    /\ saving \in {"idle", "clear", "prepare", "save"}
    /\ written \in [Ranks -> 0 .. 4]
    /\ attempt > 0 => \A r \in Ranks : written[r] <= Len(Duty(mode, r))
    /\ open \in [Ranks -> BOOLEAN]
    /\ reported \in 0 .. attempt

\* What the manifest's validator accepts is one ddp attempt's, every file that a
\* resume needs.
ManifestIsOneAttempt ==
    ManifestValid => /\ UsesCommit(modes[contents[trainerState]])
                     /\ \A a \in Required : contents[a] = contents[trainerState]

\* What a sharded planned job would resume from is one attempt's.
BackendIsOneAttempt ==
    BackendValid => \A a \in Hashed \cup Shards : contents[a] = contents[trainerState]

\* A model-only marker that validates vouches for the weights it was written for,
\* though it only knows their size.
ModelOnlyIsOneAttempt ==
    ModelOnlyValid => contents[weights] = modelOnly.weights

\* So far every save has been one that a marker publishes.
AllPublish == \A n \in 1 .. attempt : UsesPublication(modes[n])

\* Whichever marker validates, the files it stands for are of one attempt; the
\* backend's as long as no save went without a marker.
VouchedIsOneAttempt ==
    ManifestIsOneAttempt /\ ModelOnlyIsOneAttempt /\ (AllPublish => BackendIsOneAttempt)

\* A checkpoint whose save returned can be used by a job of the same mode until
\* the directory is written again.
ReportedUsable ==
    reported # 0 => IF modes[reported].only THEN ModelOnlyValid ELSE Resumes(modes[reported])

\* The same, where no sharded job's marker lies in the directory of a ddp job.
ReportedUsableWithoutLeftover ==
    (reported # 0 /\ UsesCommit(modes[reported]) => backend = NoMarker) => ReportedUsable

\* The generations that some reader accepts (the backend's as above).
Shown ==
    (IF ManifestValid THEN {commit.files[trainerState]} ELSE {})
      \cup (IF BackendValid /\ AllPublish THEN {backend.files[trainerState]} ELSE {})
      \cup (IF ModelOnlyValid THEN {modelOnly.weights} ELSE {})

Slot == INSTANCE CheckpointSlot WITH clock <- attempt, shown <- Shown

\* Readers see one generation at a time, and none that was hidden again.
ImplementsSlot == Slot!Spec
=============================================================================
