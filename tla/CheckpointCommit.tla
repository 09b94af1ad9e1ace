-------------------------- MODULE CheckpointCommit --------------------------
(***************************************************************************)
(* The committed_manifest checkpoint protocol of training/checkpointing.py *)
(* (ShaftCheckpointCommitMixin), as the N ranks of one DDP job run it over *)
(* one output directory.                                                   *)
(*                                                                         *)
(* A save attempt walks every rank through the same sequence of phases;    *)
(* each phase ends in an all-gather of the ranks' statuses, and a rank     *)
(* leaves the phase only when every rank has contributed one.  The files   *)
(* of checkpoint-<step> are written by all the ranks; rank 0 publishes the *)
(* manifest that makes them a checkpoint.  A rank can be killed at any     *)
(* point, an operation can fail, the machine can lose power (and with it   *)
(* whatever was not fsynced), and a later job resumes from the directory   *)
(* as it was left.                                                         *)
(*                                                                         *)
(* A commit fsyncs the files of checkpoint-<step>, its subdirectories and  *)
(* itself, but not the output directory, which holds its name: a power     *)
(* loss can take a new checkpoint away as a whole (see entry).             *)
(*                                                                         *)
(* A file's content is the number of the save attempt that wrote it.       *)
(*                                                                         *)
(* An operator marked Mutant stands before the one it is a faulty variant  *)
(* of; no action of Next uses it (see README, "Mutants").                  *)
(***************************************************************************)
EXTENDS Integers, FiniteSets

CONSTANTS
    N,           \* world size
    MaxStep,     \* bound: the last global step that is saved
    MaxAttempt,  \* bound: save attempts over all the jobs
    Limit        \* train.save_total_limit

ASSUME WorldAssumption == N \in Nat \ {0}
ASSUME CommitBoundAssumption == MaxStep \in Nat /\ MaxAttempt \in Nat
ASSUME LimitAssumption == Limit \in Nat \ {0}

Ranks    == 0 .. N - 1
Steps    == 1 .. MaxStep
Absent   == 0
Torn     == -1
Versions == -1 .. MaxAttempt

\* What a training checkpoint must hold: rank 0's model (with its optimizer,
\* scheduler and random-generator states), its trainer state, and the
\* random-generator state of every other rank.
Model        == <<"model", 0>>
TrainerState == <<"trainer_state", 0>>
Rng(r)       == <<"rng", r>>
Artifacts    == {Model, TrainerState} \cup {Rng(r) : r \in Ranks \ {0}}

\* What rank r writes in HF's _save_checkpoint, and what it writes before a.
Owned(r) == IF r = 0 THEN {Model, TrainerState} ELSE {Rng(r)}
WrittenBefore(a) == IF a = TrainerState THEN {Model} ELSE {}

Empty        == [a \in Artifacts |-> Absent]
NoManifest   == Empty
Directory    == [files : [Artifacts -> Versions], manifest : [Artifacts -> Versions]]
Nothing      == [files |-> Empty, manifest |-> NoManifest]

\* The entry checkpoint-<s> of the output directory: synced, if it certainly survives a
\* power loss; and the directories that stood under this name before, of which it may lead
\* to one again if it does not survive.
Entry        == [synced : BOOLEAN, former : SUBSET Directory]

Gathers == {"barrier", "begin", "prepare", "save", "schedule", "callback",
            "preflight", "commit", "rotate"}
\* Mutant: the manifest is published before the callbacks have run.
CommitFirst(p) == CASE p = "barrier"   -> "begin"
                    [] p = "begin"     -> "prepare"
                    [] p = "prepare"   -> "save"
                    [] p = "save"      -> "preflight"
                    [] p = "preflight" -> "commit"
                    [] p = "commit"    -> "schedule"
                    [] p = "schedule"  -> "callback"
                    [] p = "callback"  -> "rotate"
                    [] OTHER           -> "train"
\* The order of the gathers of one save attempt.
NextPhase(p) == CASE p = "barrier"   -> "begin"
                  [] p = "begin"     -> "prepare"
                  [] p = "prepare"   -> "save"
                  [] p = "save"      -> "schedule"
                  [] p = "schedule"  -> "callback"
                  [] p = "callback"  -> "preflight"
                  [] p = "preflight" -> "commit"
                  [] p = "commit"    -> "rotate"
                  [] OTHER           -> "train"

VARIABLES
    pc,        \* per rank: the gather it is in, or train, raised, dead, down
    vote,      \* per gather and rank: the status contributed to it
    io,        \* how far rank 0 is in a multi-step file operation
    global_step, \* TrainerState.global_step, the same on every rank
    attempt,   \* number of the current (or last) save attempt
    disk,      \* checkpoint-<s> as any process sees it
    stable,    \* what of it certainly survives a power loss, if its entry does
    entry,     \* its entry in the output directory
    mtime,     \* attempt that last changed the directory
    reported   \* step of the last commit that returned, 0 if none (ghost)

commitVars == <<pc, vote, io, global_step, attempt, disk, stable, entry, mtime, reported>>

NoVotes == [p \in Gathers |-> [r \in Ranks |-> "none"]]

CommitInit ==
    /\ pc = [r \in Ranks |-> "train"]
    /\ vote = NoVotes
    /\ io = "idle"
    /\ global_step = 0
    /\ attempt = 0
    /\ disk = [s \in Steps |-> Nothing]
    /\ stable = disk
    /\ entry = [s \in Steps |-> [synced |-> FALSE, former |-> {}]]
    /\ mtime = [s \in Steps |-> 0]
    /\ reported = 0

-----------------------------------------------------------------------------
(***************************************************************************)
(* The collective every phase ends in.                                     *)
(***************************************************************************)
Working(r, p) == pc[r] = p /\ vote[p][r] = "none"

\* Rank r contributes its status to the gather it is in.
Contribute(r, p, status) == vote' = [vote EXCEPT ![p][r] = status]

\* Mutant: a rank looks at its own status only.
ConvergeOnOwn(r) ==
    LET p == pc[r] IN
    /\ p \in Gathers
    /\ \A q \in Ranks : vote[p][q] # "none"
    /\ pc' = [pc EXCEPT ![r] = IF vote[p][r] = "ok" THEN NextPhase(p) ELSE "raised"]
    /\ UNCHANGED <<vote, io, global_step, attempt, disk, stable, entry, mtime, reported>>

\* _raise_synchronized_checkpoint_error: with every status in, a rank goes on
\* if none reports an error and raises otherwise.
Converge(r) ==
    LET p == pc[r] IN
    /\ p \in Gathers
    /\ \A q \in Ranks : vote[p][q] # "none"
    /\ pc' = [pc EXCEPT ![r] = IF \A q \in Ranks : vote[p][q] = "ok"
                               THEN NextPhase(p) ELSE "raised"]
    /\ UNCHANGED <<vote, io, global_step, attempt, disk, stable, entry, mtime, reported>>

\* A phase in which rank r changes no checkpoint file.
PlainPhase(r, p, outcomes) ==
    /\ Working(r, p)
    /\ \E status \in outcomes : Contribute(r, p, status)
    /\ UNCHANGED <<pc, io, global_step, attempt, disk, stable, entry, mtime, reported>>

-----------------------------------------------------------------------------
(***************************************************************************)
(* One save attempt.                                                       *)
(***************************************************************************)
\* The ranks train in lockstep up to the next step that is saved.
TrainToSave ==
    /\ \A r \in Ranks : pc[r] = "train"
    /\ global_step < MaxStep /\ attempt < MaxAttempt
    /\ global_step' = global_step + 1
    /\ attempt' = attempt + 1
    /\ pc' = [r \in Ranks |-> "barrier"]
    /\ vote' = NoVotes
    /\ UNCHANGED <<io, disk, stable, entry, mtime, reported>>

\* barrier_if_distributed
EnterBarrier(r) == PlainPhase(r, "barrier", {"ok"})

\* revoke_training_checkpoint_commit: unlink the manifest of an earlier save of
\* this step, then fsync the directory.
RevokeManifest ==
    /\ Working(0, "begin") /\ io = "idle"
    /\ disk[global_step].manifest # NoManifest
    /\ disk' = [disk EXCEPT ![global_step].manifest = NoManifest]
    /\ mtime' = [mtime EXCEPT ![global_step] = attempt]
    /\ io' = "unlinked"
    /\ UNCHANGED <<pc, vote, global_step, attempt, stable, entry, reported>>

FinishBegin ==
    /\ Working(0, "begin")
    /\ disk[global_step].manifest = NoManifest
    /\ stable' = IF io = "unlinked"
                 THEN [stable EXCEPT ![global_step].manifest = NoManifest] ELSE stable
    /\ io' = "idle"
    /\ Contribute(0, "begin", "ok")
    /\ UNCHANGED <<pc, global_step, attempt, disk, entry, mtime, reported>>

FailBegin ==
    /\ Working(0, "begin")
    /\ io' = "idle"
    /\ Contribute(0, "begin", "error")
    /\ UNCHANGED <<pc, global_step, attempt, disk, stable, entry, mtime, reported>>

AwaitBegin(r) == r # 0 /\ PlainPhase(r, "begin", {"ok"})

\* _prepare_shaft_checkpoint_save, which a trainer may override and which may fail.
PrepareSave(r) == PlainPhase(r, "prepare", {"ok", "error"})

\* HF's _save_checkpoint on rank r: its files one by one, overwriting what an
\* earlier attempt left, then the status.
WriteArtifact(r, a) ==
    /\ Working(r, "save")
    /\ a \in Owned(r)
    /\ disk[global_step].files[a] # attempt
    /\ \A b \in WrittenBefore(a) : disk[global_step].files[b] = attempt
    /\ disk' = [disk EXCEPT ![global_step].files[a] = attempt]
    /\ mtime' = IF disk[global_step].files[a] = Absent THEN [mtime EXCEPT ![global_step] = attempt]
                                                ELSE mtime
    /\ UNCHANGED <<pc, vote, io, global_step, attempt, stable, entry, reported>>

FinishSave(r) ==
    /\ Working(r, "save")
    /\ \A a \in Owned(r) : disk[global_step].files[a] = attempt
    /\ PlainPhase(r, "save", {"ok"})

\* The files rank r may be in the middle of writing.
InFlight(r) == {a \in Owned(r) : /\ disk[global_step].files[a] # attempt
                                 /\ \A b \in WrittenBefore(a) : disk[global_step].files[b] = attempt}

\* The write of a file was cut short: the file is as before, or torn.
CutShort(r) ==
    \E torn \in SUBSET InFlight(r) :
        disk' = [disk EXCEPT ![global_step].files =
                    [a \in Artifacts |-> IF a \in torn THEN Torn ELSE @[a]]]

\* Mutant: an error of the save is swallowed.
SwallowSaveError(r) ==
    /\ Working(r, "save")
    /\ CutShort(r)
    /\ Contribute(r, "save", "ok")
    /\ UNCHANGED <<pc, io, global_step, attempt, stable, entry, mtime, reported>>

FailSave(r) ==
    /\ Working(r, "save")
    /\ CutShort(r)
    /\ Contribute(r, "save", "error")
    /\ UNCHANGED <<pc, io, global_step, attempt, stable, entry, mtime, reported>>

\* The on_save callbacks: their schedule must be the same on every rank, each one
\* must succeed, and leave every rank's TrainerControl the same.
ShareSchedule(r) == PlainPhase(r, "schedule", {"ok", "error"})
RunCallback(r)   == PlainPhase(r, "callback", {"ok", "error"})

\* The pending checkpoint must still be the one of the trainer's step.
Preflight(r)     == PlainPhase(r, "preflight", {"ok", "error"})

-----------------------------------------------------------------------------
(***************************************************************************)
(* Commit (rank 0) and rotation.                                           *)
(***************************************************************************)
\* What commit_training_checkpoint requires of the directory.
Committable(dir) == /\ \A a \in Artifacts : dir.files[a] # Absent
                    /\ dir.files[TrainerState] # Torn

\* Mutant: the files are hashed but not fsynced.
HashOnly ==
    /\ Working(0, "commit") /\ io = "idle"
    /\ Committable(disk[global_step])
    /\ io' = "fsynced"
    /\ UNCHANGED <<pc, vote, global_step, attempt, disk, stable, entry, mtime, reported>>

\* Every file of the checkpoint is fsynced and hashed, and so are its directories, up to
\* checkpoint-<step> itself; the output directory, with its entry, is not.
FsyncArtifacts ==
    /\ Working(0, "commit") /\ io = "idle"
    /\ Committable(disk[global_step])
    /\ stable' = [stable EXCEPT ![global_step].files = disk[global_step].files]
    /\ io' = "fsynced"
    /\ UNCHANGED <<pc, vote, global_step, attempt, disk, entry, mtime, reported>>

\* _atomic_write_json: the manifest, written and fsynced under a temporary
\* name, takes its final one ...
PublishManifest ==
    /\ Working(0, "commit") /\ io = "fsynced"
    /\ disk' = [disk EXCEPT ![global_step].manifest = disk[global_step].files]
    /\ mtime' = [mtime EXCEPT ![global_step] = attempt]
    /\ io' = "published"
    /\ UNCHANGED <<pc, vote, global_step, attempt, stable, entry, reported>>

\* ... and the rename is made durable.
FinishCommit ==
    /\ Working(0, "commit") /\ io = "published"
    /\ stable' = [stable EXCEPT ![global_step].manifest = disk[global_step].manifest]
    /\ reported' = global_step
    /\ io' = "idle"
    /\ Contribute(0, "commit", "ok")
    /\ UNCHANGED <<pc, global_step, attempt, disk, entry, mtime>>

\* Mutant: rank 0 raises its commit error without telling its peers.
RaiseCommitAlone ==
    /\ Working(0, "commit")
    /\ io' = "idle"
    /\ pc' = [pc EXCEPT ![0] = "raised"]
    /\ UNCHANGED <<vote, global_step, attempt, disk, stable, entry, mtime, reported>>

FailCommit ==
    /\ Working(0, "commit")
    /\ io' = "idle"
    /\ Contribute(0, "commit", "error")
    /\ UNCHANGED <<pc, global_step, attempt, disk, stable, entry, mtime, reported>>

AwaitCommit(r) == r # 0 /\ PlainPhase(r, "commit", {"ok"})

\* HF's rotate_checkpoints: all but the Limit most recently modified go.
Present(s) == disk[s] # Nothing
Newer(s)   == {t \in Steps : Present(t) /\ mtime[t] > mtime[s]}
Victims    == {s \in Steps : Present(s) /\ Cardinality(Newer(s)) >= Limit}

Rotate ==
    /\ Working(0, "rotate")
    /\ disk' = [s \in Steps |-> IF s \in Victims THEN Nothing ELSE disk[s]]
    /\ stable' = [s \in Steps |-> IF s \in Victims THEN Nothing ELSE stable[s]]
    /\ entry' = [s \in Steps |-> IF s \in Victims
                                 THEN [synced |-> FALSE,
                                       former |-> (entry[s].former \cup {stable[s]}) \ {Nothing}]
                                 ELSE entry[s]]
    /\ Contribute(0, "rotate", "ok")
    /\ UNCHANGED <<pc, io, global_step, attempt, mtime, reported>>

\* shutil.rmtree was cut short: some entries of one victim are gone.
PartlyRemoved ==
    \E s \in Victims, gone \in SUBSET Artifacts, keep \in BOOLEAN :
        disk' = [disk EXCEPT ![s] =
                    [files    |-> [a \in Artifacts |-> IF a \in gone THEN Absent
                                                       ELSE @.files[a]],
                     manifest |-> IF keep THEN @.manifest ELSE NoManifest]]

FailRotate ==
    /\ Working(0, "rotate")
    /\ PartlyRemoved \/ UNCHANGED disk
    /\ Contribute(0, "rotate", "error")
    /\ UNCHANGED <<pc, io, global_step, attempt, stable, entry, mtime, reported>>

AwaitRotate(r) == r # 0 /\ PlainPhase(r, "rotate", {"ok"})

-----------------------------------------------------------------------------
(***************************************************************************)
(* What can happen to the job, and what the next one finds.                *)
(***************************************************************************)
\* Rank r is killed; what it was writing or removing is left half done.
Die(r) ==
    /\ pc[r] \in Gathers \cup {"train"}
    /\ pc' = [pc EXCEPT ![r] = "dead"]
    /\ \/ Working(r, "save") /\ CutShort(r)
       \/ r = 0 /\ Working(r, "rotate") /\ PartlyRemoved
       \/ UNCHANGED disk
    /\ UNCHANGED <<vote, io, global_step, attempt, stable, entry, mtime, reported>>

\* The launcher ends the job once a process of it died, or once all raised.  A
\* rank that waits for a peer that raised is not rescued here: that no rank does
\* is the protocol's own business.
Teardown ==
    /\ \/ \E r \in Ranks : pc[r] = "dead"
       \/ \A r \in Ranks : pc[r] = "raised"
    /\ pc' = [r \in Ranks |-> "down"]
    /\ io' = "idle"
    /\ vote' = NoVotes
    /\ UNCHANGED <<global_step, attempt, disk, stable, entry, mtime, reported>>

\* What a power loss leaves of directories that were last seen as `seen' and of which
\* `sure' was stable.
Reboot(seen, sure) ==
    \E lost \in SUBSET {i \in Steps \X Artifacts :
                         seen[i[1]].files[i[2]] # sure[i[1]].files[i[2]]} :
    \E torn \in SUBSET {i \in lost : seen[i[1]].files[i[2]] # Absent},
       undone \in SUBSET {s \in Steps : seen[s].manifest # sure[s].manifest} :
        disk' = [s \in Steps |->
              [files    |-> [a \in Artifacts |->
                                IF <<s, a>> \in torn THEN Torn
                                ELSE IF <<s, a>> \in lost THEN sure[s].files[a]
                                ELSE seen[s].files[a]],
               manifest |-> IF s \in undone THEN sure[s].manifest ELSE seen[s].manifest]]

\* Power loss.  Of running ranks it is their deaths first (Die, Teardown), which change nothing
\* that is stable.  An entry that was not synced may lead to nothing, or to a directory that
\* was removed from under it.  In the directories that are left, each file that differs from
\* its stable content keeps its content, reverts, or is torn, and a rename or an unlink that
\* was not synced may revert.  What is found after it is stable, names included.
Unnamed == {s \in Steps : /\ ~ entry[s].synced
                          /\ stable[s] # Nothing \/ entry[s].former # {}}
Former  == {Nothing} \cup UNION {entry[s].former : s \in Unnamed}

PowerLoss ==
    /\ \A r \in Ranks : pc[r] = "down"
    /\ \E fallen \in SUBSET Unnamed : \E under \in [fallen -> Former] :
        /\ \A s \in fallen : under[s] \in entry[s].former \cup {Nothing}
        /\ Reboot([s \in Steps |-> IF s \in fallen THEN Nothing ELSE disk[s]],
                  [s \in Steps |-> IF s \in fallen THEN under[s] ELSE stable[s]])
        /\ reported' = IF reported \in fallen THEN 0 ELSE reported
    /\ stable' = disk'
    /\ entry' = [s \in Steps |-> [synced |-> disk'[s] # Nothing, former |-> {}]]
    /\ UNCHANGED <<pc, vote, io, global_step, attempt, mtime>>

\* validate_training_checkpoint_commit: the manifest is there, and every
\* required file is there with the recorded content.
Validates(dir) ==
    /\ dir.manifest # NoManifest
    /\ \A a \in Artifacts : dir.files[a] = dir.manifest[a] /\ dir.files[a] # Absent
    /\ dir.files[TrainerState] # Torn

Valid == {s \in Steps : Validates(disk[s])}

\* A later job: every rank starts from checkpoint-<s>.
StartFrom(s) ==
    /\ \A r \in Ranks : pc[r] = "down"
    /\ pc' = [r \in Ranks |-> "train"]
    /\ global_step' = s
    /\ UNCHANGED <<vote, io, attempt, disk, stable, entry, mtime>>

\* Mutant: the candidates are tried oldest first.
ResumeOldest ==
    \E s \in Steps :
        /\ StartFrom(s)
        /\ s \in Valid /\ \A t \in Valid : t >= s
        /\ UNCHANGED reported

\* resume_from = the output directory: the newest valid child, by step.
ResumeRoot ==
    \E s \in Steps :
        /\ StartFrom(s)
        /\ s \in Valid /\ \A t \in Valid : t <= s
        /\ UNCHANGED reported

\* resume_from = one checkpoint; what was reported beyond it is given up.
ResumeExplicit(s) ==
    /\ s \in Valid
    /\ StartFrom(s)
    /\ reported' = IF s <= reported
                   THEN IF disk[s] = stable[s] THEN s ELSE 0
                   ELSE reported

\* A new run into the same directory.
FreshStart == StartFrom(0) /\ reported' = 0

RankStep(r) ==
    \/ EnterBarrier(r)  \/ AwaitBegin(r)
    \/ PrepareSave(r)   \/ \E a \in Owned(r) : WriteArtifact(r, a)
    \/ FinishSave(r)    \/ FailSave(r)
    \/ ShareSchedule(r) \/ RunCallback(r) \/ Preflight(r)
    \/ AwaitCommit(r)   \/ AwaitRotate(r)
    \/ Converge(r)

RankZeroStep ==
    \/ RevokeManifest  \/ FinishBegin \/ FailBegin
    \/ FsyncArtifacts  \/ PublishManifest \/ FinishCommit \/ FailCommit
    \/ Rotate          \/ FailRotate

Restart == ResumeRoot \/ FreshStart \/ \E s \in Steps : ResumeExplicit(s)

CommitNext ==
    \/ TrainToSave
    \/ \E r \in Ranks : RankStep(r) \/ Die(r)
    \/ RankZeroStep
    \/ Teardown \/ PowerLoss \/ Restart

CommitSpec == CommitInit /\ [][CommitNext]_commitVars

\* A rank in a save attempt keeps running; nothing makes it fail, or a job start.
Fairness ==
    /\ \A r \in Ranks : WF_commitVars(RankStep(r))
    /\ WF_commitVars(RankZeroStep)
    /\ WF_commitVars(Teardown)

FairSpec == CommitSpec /\ Fairness

-----------------------------------------------------------------------------
(***************************************************************************)
(* Properties.                                                             *)
(***************************************************************************)
\* The shape of the state.
CommitTypeOK ==
    /\ pc \in [Ranks -> Gathers \cup {"train", "raised", "dead", "down"}]
    /\ vote \in [Gathers -> [Ranks -> {"none", "ok", "error"}]]
    /\ io \in {"idle", "unlinked", "fsynced", "published"}
    /\ global_step \in 0 .. MaxStep
    /\ attempt \in 0 .. MaxAttempt
    /\ disk \in [Steps -> Directory]
    /\ stable \in [Steps -> Directory]
    /\ entry \in [Steps -> Entry]
    /\ mtime \in [Steps -> 0 .. MaxAttempt]
    /\ reported \in 0 .. MaxStep

\* A directory a resume would accept holds the files of one save attempt, and
\* whole ones: never a mixture of two attempts at the same step, which share the
\* directory and are not cleared from it (checkpointing.py: begin only unlinks
\* the manifest).
OneAttempt(files) == \E n \in 1 .. MaxAttempt : \A a \in Artifacts : files[a] = n
ValidIsOneAttempt == \A s \in Steps : Validates(disk[s]) => OneAttempt(disk[s].files)

\* Once commit_training_checkpoint has returned, that checkpoint is there, whole, whatever
\* is killed, fails, is rewritten or rotated, until a later one is committed or the user
\* resumes from an earlier one.  A power loss takes all of it, with its unsynced entry in
\* the output directory (reported is 0 then), or nothing; and nothing of one that has
\* outlived a power loss before.
ReportedSurvives ==
    reported # 0 => Validates(disk[reported]) /\ disk[reported] = stable[reported]

\* No rank trains on after a save that another rank raised out of.
RaiseTogether == \A p, q \in Ranks : ~ (pc[p] = "raised" /\ pc[q] = "train")

\* A manifest appears only when every rank has saved and run every callback
\* without an error (or a power loss undid an unlink that was not synced).
PublishOnlyConverged ==
    [][\A s \in Steps :
          disk[s].manifest = NoManifest /\ disk'[s].manifest # NoManifest =>
              \/ \A r \in Ranks : pc'[r] = "down"
              \/ \A r \in Ranks, p \in {"prepare", "save", "schedule", "callback", "preflight"} :
                    vote[p][r] = "ok"]_commitVars

\* A resume from the output directory starts no earlier than the last commit
\* that returned and whose directory no power loss has taken.
ResumeLosesNothing == [][ResumeRoot => global_step' >= reported]_commitVars

\* Every rank that starts a save leaves it: no rank waits for ever in a
\* collective that a peer has abandoned.
AttemptEnds == \A r \in Ranks : pc[r] \in Gathers ~> pc[r] \notin Gathers
=============================================================================
