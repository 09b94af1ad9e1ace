# Shaft, in TLA+

Shaft is an HF-first training framework for multimodal models: SFT, DPO/PPO/GRPO,
on-policy distillation (OPD) and offline distillation, on top of
`transformers.Trainer`, with its own data planning, checkpoint protocol, resume
contract, evaluation and inference. This directory is a formal model of the parts
of it whose correctness depends on the order of steps: of several ranks or threads, of
several jobs over one directory, of crashes between two file operations. Paths
below are relative to the repository (`src/shaft/...`).

Run a check with `tlc -workers 2 -config X.cfg M.tla`, where PROJECT.json says which module
each run's cfg belongs to, and the proofs with `tlapm XProofs.tla`.

## Inventory

Components, the state each keeps, what makes it hard, what makes it correct.

| Component | State | Operations | What is hard | What makes it correct | Here |
|---|---|---|---|---|---|
| Checkpoint commit, `training/checkpointing.py` (DDP) | files and manifest of `checkpoint-<step>`; each rank's position in the save | begin, prepare, save, callbacks, preflight, commit, rotate, resume | ranks fail alone, jobs are killed, a step is written twice, power loss | a resumable checkpoint is one attempt's; a reported one is not lost, unless as a whole to a power loss; ranks raise together | `CheckpointCommit` |
| Checkpoint commit, backend-native and model-only | three kinds of marker in one directory | prepare marker with a generation id, commit, validate; revoke, reject | a run that changes its mode reuses the directory | no marker of one mode vouches for files of another | `PublicationModes` |
| Resume resolution and guard, `checkpointing.py`, `pipeline/sft.py`, `training/resume_contract.py` | the chosen checkpoint, stat guards, a contract of fingerprints | choose, fingerprint consensus, re-check before load | the directory changes between the check and the load; ranks choose differently | all ranks load the checkpoint that was checked | `ResumeGuard`; the contract, which compares configurations, is not modelled |
| Artifact identity, `model/artifact_identity.py`, `model/builder.py` | digests, stat identity before and after | hash, share over a node's ranks, re-check around the load | the tree changes while it is hashed or loaded; one rank raises among several | the model is built from the bytes the plan identified | `ModelArtifact` |
| Batch planner, `data/dynamic_batching.py`, `data/batching.py` | buffer of cost items, next draw, oldest | plan packs for W ranks out of a window | starvation, incomplete plans, budgets | every draw is planned exactly once, the oldest is mandatory | `BatchPlanner`, `LengthGrouping` |
| Planned sampler and its commit, `training/batch_planning.py`, `train_sampler_mixin.py` | prefetch cursor, snapshots by global microstep, committed snapshot | iterate (prefetch), snapshot, commit on step end, export, restore | the loader runs ahead of the optimizer; restart | after a restart each sample reaches exactly one optimizer step of the surviving history | `PlannedSampler` |
| Samplers of epochs, `data/sampler.py` | the cycle of the sample plan | check the geometry, shard, resume in mid-epoch | tails of samples, batches, ranks and windows | every epoch is whole and no rank waits | `EpochSampler` |
| Mixing and data access, `data/mixing.py`, `sources.py`, `center.py`, `record_store.py` | none (a draw is computed from its number); Arrow caches on disk | schedule, draw; build, open and repair a cache | arithmetic of quotas, blocks and phases; ranks, nodes and edits race | draws are without replacement; all ranks train on the same validated rows | `SampleSchedule`, `RecordCache` |
| Efficiency telemetry, `training/efficiency.py`, `observability/efficiency.py` | per-rank history, a transaction of per-rank snapshots | begin, write, manifest, commit, revoke; restore by consensus | one rank fails among several; torn set of files | ranks restore the same history, or all degrade to partial | `EfficiencyTelemetry` |
| Offline KD producer, `offline_kd/producer.py` | pending rows, shards, `train.jsonl`, `build_state.json`; running generations and reorder buffer | add, flush, finalize, resume; submit, complete, commit | out-of-order completion, crash between four files | nothing passed over or repeated; atomic publication | `OfflineKDWriter`, `OfflineKDPipeline` |
| Offline KD reader and merge, `offline_kd/artifact.py`, `data.py` | verified shards, LRU of indexes | get, merge | a changed shard, a reference that resolves elsewhere | a row read is the row written | `OfflineKDArtifact` (what is read), `DetectionMap` (the merge) |
| OPD trainer, `opd/trainer.py`, `telemetry.py` | numerator and denominator of the accumulation window; per-rank histories | compute_loss, training_step; snapshot, restore, finalize | tokens are uneven over microbatches and ranks; a step raises in mid-window; resumes | the gradient is the mean over the window's tokens; the history is the model's | `LossWindow`, `OPDTelemetry` |
| OPD teacher and rollout, `opd/teacher*.py`, `remote_teacher.py`, `rollout.py` | the version of the weights a vLLM engine holds; else none beyond one request | score, generate | tensors and encodings | the response is of the request | not modelled |
| Inference pipeline, `infer/pipeline.py`, `execution.py`, `engine.py` | stage context, attempts, a deadline, a cancellation event | run a stage with retries, back off, cancel | a late answer against the deadline, cancellation during back-off | a result after the deadline is not used; cancel ends the run | `InferRun` |
| SFT trainer and loss, `training/sft_trainer.py`, `loss.py`, `distribution_loss.py` | cached normalisation of a window; HF's loss window over a resume | normalise, step; save and restore the reporting state | denominators over ranks; HF forgets its window | as OPD; what is reported is that of an uninterrupted run | `LossWindow`, `LossReporting` |
| Progress and reporting, `observability/progress.py`, `training/progress_callback.py` | tasks, pending publications, sinks | start, update, finish, fail, close; deliver | threads publish each other's changes; sinks fail; a close at any moment | every sink gets every change in order; the final state is persisted | `ProgressManager` |
| Hooks and interceptors, `plugins/*.py` | enabled list, disabled observers | emit in order | none: synchronous and sequential | - | not modelled |
| Online evaluation, `training/online_eval.py`, `metrics/*.py` | none beyond one pass | generate, gather, drop repeats, aggregate | what identifies a sample | each sample counted once | not modelled |
| RL runtimes, `rl/`, `algorithms/` | registries; TRL owns the loop | resolve, build | none of its own | - | not modelled |
| Pipelines, `pipeline/` | one run's objects | assemble, train, finalize | the stages in which ranks agree: see `ResumeGuard`, `ModelArtifact`, `RecordCache` | - | not modelled as such |
| Config, CLI, codec, template, model, export, loss_scale | none | pure functions of their inputs | parsing, tensors | - | not modelled |
| Detection distillation scripts, `scripts/tasks/*detection*` (map, filter, package, finalize) | workers and artifacts of hosts; the staging copy of a bundle, linked to the old one | launch, poll, merge; filter, copy, install, drop, publish | kills and relaunches; files shared through hard links | the merged artifact and a published bundle are whole; the old bundle stays as it was | `DetectionMap`, `DetectionBundle` |
| Other data preparation scripts, `scripts/tasks/` | none | one-off transformations of datasets | geometry and formats | - | not modelled |

How they interact: a pipeline opens the records of its sources, builds the dataset and
the planned sampler, resolves `resume_from` to a checkpoint and builds the model on all
ranks, in stages in which the ranks agree, and runs the trainer. The trainer draws
from the sampler (which prefetches), steps the optimizer, tells the sampler the
committed microstep from `on_step_end`, and on a save walks the checkpoint protocol,
whose callbacks export the sampler's committed state into `trainer_state.json` and
write the telemetry snapshots, all before the manifest is published. The distillation
producers and the inference pipeline run on their own; the former meet training only
through a published artifact, which the distillation scripts may merge from several hosts and
put into a bundle with its images and labels.

## Plan

Done:

1. `CheckpointCommit`; `PublicationModes`, the three kinds of marker across jobs that change
   mode, with its abstract `CheckpointSlot`; proofs about both.
2. `OfflineKDWriter`, its abstract `OfflineKDArtifact`, `OfflineKDPipeline`, with their proofs.
3. `BatchPlanner` with both groupings, its abstract `BatchStream`, and `PlannedSampler`
   (prefetch, commit, checkpoint, restart), with their proofs, the latter over an atomic
   checkpoint, which is what the properties proved of `CheckpointCommit` justify.
   `SampleSchedule` under them and `EpochSampler` beside them, with their proofs.
4. `EfficiencyTelemetry`, `OPDTelemetry`: histories over saves and resumes, with their proofs.
5. `ResumeGuard`, `ModelArtifact`, `RecordCache`, with their proofs: what a starting job reads
   while others write.
6. `InferRun`, `LossWindow`, `LossReporting`, `ProgressManager`, with their proofs.
7. `DetectionMap` with its proof, and `DetectionBundle`: what becomes of the artifacts of
   several producers.

Left: proofs about `DetectionBundle`; online evaluation's sharding and its identity of a sample;
the version of the weights in OPD's vLLM rollout; the resume contract.

The theorems are in eight modules: `CheckpointCommitProofs`, `OfflineKDProofs`,
`PublicationProofs` (`PublicationModes`, `DetectionMap`), `StartupProofs` (`ResumeGuard`,
`ModelArtifact`, `RecordCache`, `PlannedSampler`), `PlannerProofs` (`BatchPlanner`,
`LengthGrouping`, `BatchStream`, `SampleSchedule`), `TrainerProofs` (both telemetries, `LossWindow`,
`LossReporting`, `ProgressManager`), `RunProofs` (`InferRun`, `EpochSampler`), and `FoldLemmas`,
which has no theorem about the code: it has the induction that sums, greedy placement and other
folds need, and what quotients and remainders are.

## Runs

A module that shares no state with others is checked in one run with them: a variable `part`
says which one a behaviour is about, the others keep one initial state, and only the part's
own actions change anything. Such a run explores the union of its parts, not their product.
Its MC module EXTENDS its parts, whose constants are in the cfg; a part that shares a name with
another, or that is checked twice with different constants, is instantiated. `Nodes` says which
ranks are on one node, for the modules of a starting job, and `Histories` states the properties
of both telemetries as one.

| Run | Modules | Bounds |
|---|---|---|
| `termination` | `CheckpointCommit`, `InferRun` | three ranks and one attempt; two stages of 32 configurations each, two attempts a stage, seven ticks |
| `publication` | `OfflineKDWriter`, `OfflineKDPipeline`, `PublicationModes`, `DetectionMap`, `DetectionBundle` | four rows, three jobs; two ranks, three saves of one step, five modes; two hosts, three rows, three launches; two old and two new rows, two runs |
| `training` | `CheckpointCommit`, `BatchPlanner`, `LengthGrouping`, `SampleSchedule`, `EpochSampler` | two ranks, three steps, three attempts, one checkpoint kept; windows of five samples, two ranks of two, two microsteps; two sources, six blocks of five tickets; up to six samples on three ranks |
| `startup` | `PlannedSampler`, `ResumeGuard`, `ModelArtifact`, `RecordCache` | two ranks; three steps of two microsteps, a loader that holds two, two jobs; two checkpoints and two writes; two files and two rewrites or errors; three versions, two edits and two jobs |
| `trainer_parts` | `EfficiencyTelemetry`, `OPDTelemetry`, `LossWindow`, `LossReporting`, `ProgressManager` | two ranks or threads; two steps and three jobs; windows of three microbatches; three steps and two resumes; three changes |

Ranks that a module treats alike are symmetric (`SYMMETRY`) where its properties are safety
only. Seven runs show the code at odds with its documents, each with one property: two of
`PublicationModes`, and one each of `EfficiencyTelemetry`, `OPDTelemetry`, `ProgressManager`,
`RecordCache` and `DetectionBundle`; they are described with their modules.

## Modules

### CheckpointCommit

The `committed_manifest` protocol of `ShaftCheckpointCommitMixin._save_checkpoint`.
`pc[r]` is the gather rank r is in: the code's sequence is barrier, begin (rank 0
revokes an old manifest), prepare, HF's save, the callback schedule, the callbacks,
preflight, commit (rank 0 fsyncs, hashes and publishes), rotate. `vote[p][r]` is the
status r contributed; `Converge` is `_raise_synchronized_checkpoint_error`. Rank 0's
file work is in steps (`io`), so that a kill or a power loss finds it half done. `disk`
is what processes see, `stable` what of a directory certainly survives a power loss if its
entry does; contents are the number of the attempt that wrote them, so a mixture of two
attempts is visible. `reported` is a ghost: the step of the last commit that returned and that
no power loss has taken.

A power loss finds the processes dead. It takes back or tears any file and undoes any rename
that was not fsynced, independently. `entry` is the name `checkpoint-<step>` in the output
directory. A commit fsyncs the files, the directories in the checkpoint and the checkpoint's own
(`checkpointing.py:991`, `389`), but not the output directory, as the model-only path does
(`checkpointing.py:1880`). So a power loss can undo a new entry, and the checkpoint is gone as
a whole, reported or not; or undo the removal of one that was rotated away, and the directory that stood
there (`former`) is back. The documents promise the fsync of the files only
(`docs/config_reference.md:791`). What is there after a power loss is there for good. Rotation is HF's: by modification time, keep `Limit`. Two or more
callbacks are one phase each in the code and one in the model; their gathers are alike.

| Property | What it says |
|---|---|
| `ValidIsOneAttempt` | what `validate_training_checkpoint_commit` accepts is whole files of one attempt |
| `ReportedSurvives` | a reported checkpoint is valid until superseded, and all of it below its entry is durable: a power loss takes it whole or not at all |
| `RaiseTogether` | no rank trains on after a save another raised out of |
| `PublishOnlyConverged` | a manifest appears only after every rank's every phase succeeded |
| `ResumeLosesNothing` | resuming the output directory never starts before the last report, unless a power loss took that checkpoint's entry |
| `AttemptEnds` | no rank waits for ever in a collective a peer has left |

Runs: `training` has two ranks, three steps, three attempts and one checkpoint kept, so
that a step is rewritten, a checkpoint is rotated away and a second and third job resume.
`termination` has three ranks and one attempt, with weak fairness of each rank's steps
and of rank 0's (a process that is not killed keeps running, and the collective returns
once all contributed) and of the launcher's teardown; nothing is fair about failures or
restarts.

Proofs (`CheckpointCommitProofs`): every safety property above, for any number of ranks,
steps and attempts. `WholeInv` says what the files hold relative to the current attempt at
each phase (before `save` nothing carries the attempt's number; a rank past `save` voted
`ok` only with its files written; files of other attempts under a manifest are untouched),
which makes `ValidIsOneAttempt` inductive. `DurableInv` adds `stable`: between the fsync and
the publication the two agree on the files, a published manifest names durable files,
and the reported step is neither the one being written nor a rotation victim. That last
part is the delicate one: rotation goes by modification time, so it needs that the
reported checkpoint is the most recently modified, or precedes only the one just
committed. A power loss leaves the reported checkpoint alone unless it takes its entry, since
disk and `stable` agree on it (`PowerLossKeepsReported`). `AgreementInv` is the barrier argument: a rank past a gather implies all voted
in it, and votes do not change, so all leave it alike.

### OfflineKDArtifact, OfflineKDWriter, OfflineKDPipeline

`OfflineKDWriter` is `OfflineKDArtifactWriter` with `resume=True`. `rows`, `pending`,
`table`, `next` and `last` are its attributes `_rows`, `_pending_bytes`, `_shards`,
`resume_source_index` and `_last_source_index`; `carry` is the row whose `add` caused a
flush. `place`, `state`, `manifest`, `shards` and `jsonl` are the directory. One `flush`
is five steps: save the shard, fsync and hash it, append the lines, fsync them, replace the
build state. A digest is the content itself. A row carries the job that scored it, so a
line that points to another job's version of a row is an error the model sees. File
contents are durable once fsynced; names go back to the journal's last commit, which an
fsync forces (an ordered journal, as in ext4 or XFS). A truncation that a power loss undoes
gives a file that an earlier state already allowed, and is not a case of its own.

`OfflineKDPipeline` adds the coroutine of `produce_detection_pseudo_kd_artifact`: `active`,
`order`, `completed` and `cursor` are its locals. `Wait` returns any non-empty subset of the
running generations. `ReorderLimit` is free where the code takes 32 times the width. A
generation may come out differently in each job.

`OfflineKDArtifact` is what a reader may rely on; `ImplementsArtifact` says the writer
implements it under the view `OfflineKDArtifactStore` has of the directory.

| Property | What it says |
|---|---|
| `PublishedIsWhole` | a published artifact's lines are exactly its shards' rows, in source order, once each |
| `StagingResumable` | at any moment a staging directory with a build state can be resumed, and its cursor is just past its last row |
| `CommittedShardsKept` | what a build state vouches for is in every later one and in the manifest |
| `ImplementsArtifact` | a reader sees no artifact or a whole one, never two different ones |
| `PipelineKeepsRows` | every source row is published, denied or logged as a bad case; rows reach the writer in the order it accepts, and the pipeline drains |
| `PipelineJobEnds` | a job of the pipeline that starts ends |

Run: `publication`, with four rows, at most two rows or three bytes to a shard, one row that
fills a shard alone, and three jobs (two interruptions). In the part `caller` any strictly
increasing subset of the rows may be added, which covers the batched producer as well. In the
part `pipeline` one row is denied, two generations run at a time and the reorder buffer takes
three, so that it fills and the oldest row comes last. `PipelineJobEnds` assumes weak fairness
of the coroutine and the writer (generations finish, writes return).

Not covered: `resume=False`; two jobs at once on one staging directory, which the code
does not exclude (the operator must); durability of the bad-case file, which is never fsynced.

Proofs (`OfflineKDProofs`): the safety properties and both refinements, for any dataset, sizes of
rows and shards, denylist, width, reorder limit and number of jobs, kills and power losses. What
is assumed of the constants is what `OfflineKDWriter` and `OfflineKDPipeline` state (limits are
positive, the reorder buffer holds at least what runs at a time, the denied rows are rows).

- `WriterInv` is what makes `ArtifactIsWhole`, `JobsResume` and `ShardsStay` inductive. None of
  them is by itself: whether a resumed job finds what it needs depends on what a power loss may
  have left. `DiskInv` says that a build state on disk, and the older one that a power loss
  brings back, vouch only for fsynced shards and lines that resolve to each other, and that a
  directory under the output's name is whole; `NamesInv` how the names of the journal follow
  those on disk; `WorkInv` how far, at each of the five steps of a flush, the files and the
  writer's memory are ahead of the build state.
- `WriterImplementsArtifact`: every step is one of `OfflineKDArtifact` or none under the
  reader's view; only `Publish` changes the view, and a power loss cannot take it back.
- `PipelineInv` adds to it that the running and the reordered generations are those submitted,
  in source order and below the cursor (`LoopInv`), that what is submitted or still to be
  submitted comes after every row the writer holds, and that all rows below the cursor are
  denied, logged as bad, in the writer or on their way (`HandoverInv`), and that a build state's
  cursor passes no row over (`CoverInv`). Hence `NoRowPassedOver` and `NoRowRefused`, the conjuncts of
  `PipelineKeepsRows` that are not the writer's, and `PipelineImplementsWriter`, which carries
  what is proved of the writer alone over to the producer.

### DetectionMap, DetectionBundle

`DetectionMap` is `run_detection_pseudo_kd_map.py` on several hosts with one output root.
`host` is where `main` is, `children` the processes it started, `worker` each producer, `dir` a
rank's directory and `merging` the merger's temporary one. A worker is the producer of
`OfflineKDPipeline` in brief: one row to a shard, one generation at a time, no power loss, but
each file is replaced in a step of its own and by name, since the directory may have been
published meanwhile. A host is interrupted (`Interrupt`: the workers are terminated) or killed
(`KillMain`: they go on), and launched again with or without `--resume` and with another
`--max-rows`. `Poll`, `MergeRank` and `PublishMerged` are the merge, up to the rename.

With `Overlap` FALSE a host is launched anew only when the workers of its last launch have
ended. The code does not see to that: `development_log.md` (line 5480) leaves it to the
operator, and with TRUE `MergedIsWhole` is violated, by two workers that append to one file.
A host that merges waits for all ranks without a limit, so it waits for ever if one fails or
has no row to publish; no property says it ends.

`DetectionBundle` is the addition of new images to a bundle:
`filter_detection_distillation_candidates.py` up to what it accepts, drops and excludes, then
`finalize_detection_distillation_bundle.py`. `links` says whether `_copy_tree` can make hard
links; `gt` gives a name its inode and `content` an inode the row whose labels it holds, so that
a write through a link is seen in the old bundle. What rules, near duplicates and the teacher's
likelihood say of an image are choices. Threads write the labels in any order.

| Property | What it says |
|---|---|
| `MergedIsWhole` | the merged artifact has every good row of every rank once and in order, and each line leads to the distribution it was written with |
| `BundleWhole` | a published bundle is the old one without the dropped rows and with the accepted ones: references, labels, index and exclusions agree |
| `OldBundleUntouched` | the old bundle stays as it was: violated |

Runs: `publication`, with two hosts of one rank each, three rows of which one may be a bad case
(so that a rank has one row less, or none), two limits and three launches; and with two old and
two new rows, of which a new one may have an old one's name, and two runs of the finalization.
`bundle_read_only` shows the last property violated: the images are distinguished by suffix and
the labels are not, so for a new `a.png` beside an old `a.jpg`, `_write_gt`
(`finalize_detection_distillation_bundle.py:88`) writes through the hard link of `:145`.

Proofs (`PublicationProofs`): `MergedIsWhole`, for any hosts, ranks, rows, bad cases, limits
and launches, kills and interruptions, with `Overlap` FALSE. It says something of the merged
artifact only, whose lines are copied from directories that were written long before by
processes that may have been killed anywhere. `MapInv` has three parts:

- of each rank's directory (`DirInv`): in staging, the build state's table has a shard for
  each good row below its cursor, in order (`Tabled`), with lines and files to match
  (`CanResume`), however many lines or files are there beyond it; under the output's name
  it has exactly that, for all rows up to the limit of its manifest (`IsWhole`);
- of each rank's producer (`ProducerInv`): what it remembers is what its directory has
  (`Holds`), up to the file it has written and not yet vouched for. This is where two
  workers on one directory would break it, so the second slot is `Idle`. `Resumable` only
  compares the build state with shards and lines, so a resumed job needs to know that the
  lines below its cursor are the right ones;
- of the merge (`MergeInv`): it runs only when all ranks are published, which no step takes
  back, and its lines so far are those of the ranks done, one rank after the other
  (`Gathered`).

Not covered: that the index keeps the references of old rows, which name the old artifact
(`BundleWhole` is about the new ones' only); that an old row dropped for a new one of the
same name takes its labels along (`BundleWhole` excepts equal names); the
`.building-` directory that a failure before the `try` leaves; images, prompts and checks of
digests.

### BatchStream, BatchPlanner

`BatchStream` is the promise: each microstep takes at least `Least` and at most `Most` draws
out of the next `Window`, the oldest waiting one among them. What that is worth is
`NoStarvation`: draw n is emitted by microstep n + 1, for every window and size.

`BatchPlanner` is `ShaftBatchPlanner.next_global_microbatch`. Its state is
`ShaftBatchPlanningState` (`microstep`, `next_draw_id`, `buffer`); `emitted` is a ghost for the
code's counter; `window`, `plan`, `search` and `raised` are the last call's locals and result.
A plan gives each rank a set of packs, each a set of samples. `mode` is what the run is
configured with, chosen at the start and kept: grouping `bounded_cost` with cardinality
`fixed` or `token_budget`, and grouping `length` with a sample to a pack or packed. One step is
one call: refill and validate, then plan and advance.

With `bounded_cost` there are the fast path (`Anchors`, then `Place` for the others, the largest
first), the checks before the exact search (`MayFill`), and the search. Greedy placement is
deterministic in the code up to hashes of the seed that break ties; the model takes every
order among equals. The search returns the first partition, the model any. Loads are the
code's fractions scaled to integers, so floating-point rounding is not modelled.

`LengthGrouping` has the choice of the other grouping: `Chunk` takes neighbours in length around
the oldest, `Packed` a seed for every pack and then best fit; `Assignments` deals the packs to
ranks. The code searches for an assignment and takes the first, the model any of them. The
limits on the nodes of either search are choices (`PlanAfterGivingUp`, which falls back on
the fast path's plan, and `PlanLengthGivingUp`, which raises). Which costs the schedule brings
is free.

| Property | What it says |
|---|---|
| `DrawsConserved` | emitted and waiting draws are those below the cursor, once each, in order |
| `WithinBudget` | a rank's packs are never too few, empty nor above a limit; ranks share no sample |
| `FullWhenPossible` | with `bounded_cost`, if the window has a plan that fills every rank, the call finds one and does not raise |
| `ImplementsStream` | the planner keeps the promise of `BatchStream` |

Grouping `length` has no `FullWhenPossible`: it fixes its packs before it knows whether they
can be dealt, and raises although others could.

Run: `training` plans twice out of windows of five, with four costs for `bounded_cost` and two for
`length`, for two ranks of two samples. Greedy placement dead-ends, the search succeeds and
fails, a leftover sample of the first call competes in the second, and a sample of three
tokens fits in no batch with another. With `token_budget` the second call is left out where the
first left one sample only, as after a full plan of fixed cardinality (`Explored`). The `Least`
of `ImplementsStream` is one draw to a rank; that a rank of fixed cardinality is full is part of
`WithinBudget`.

Proofs (`PlannerProofs`): the four properties, for any ranks, budgets, windows, costs and
modes, and with the last one that no draw starves (`NoDrawStarves`). The only assumption on the
buffer is the code's: it holds a sample for every rank, and a full global batch unless
the cardinality is `token_budget`. The inductive invariant
`PlannerInv` adds to them that what waits is in the order of its draws and that each waiting
sample would fit into a batch by itself (`Waiting`), without which the call that must take the
oldest could be stuck. A call then keeps the invariant if it hands out packs within the budget,
of samples in the window, the oldest among them, and to each rank enough (`Handed`), and every
branch of the call does (`CallHandsOut`): the anchors, each `Place`, each chunk and each
best fit is one step of a fold that keeps the ranks' packs apart and within the limits. Python's
sort by tuples is a strict total order where keys differ (`Keyed`, `ByKey`), so that the first
and the last by a key exist. `FullPlansAreFound` is the argument that the checks before the
search (`MayFill`) and its fixed place for the oldest discard no full plan.

Not covered: `_balance_planning_frame`, which permutes batches over the ranks; fingerprints and
statistics of plans.

### SampleSchedule, EpochSampler

`SampleSchedule` is the stream of draws under the planner (`ShaftSampleSchedule`): weighted blocks
of tickets, each rotated from the last, `concat` cycles through an affine map, and the
unshuffled stream. `quota` is by largest remainder (`Hamilton`), `RotationStep` and
`LocalOccurrence` are the code's arithmetic; what the code takes from a hash (the shuffle, the
phase of a group of blocks, the affine map) is a choice. The Feistel network that permutes the
samples within a source, the search for a block size and its limits of relative error are
left out.

`EpochSampler` is training without a planner: `ShaftSampleSampler` and
`ShaftGroupedSampleSampler` under HF's loop, and the checks of the geometry in
`validate_epoch_sharding`. HF's and Accelerate's pieces (`StartJob`'s arithmetic, the sharding
of batches, when a window ends) are modelled from how the code relies on them, and external.
The order of a cycle is its rotation: all that matters is that cycles differ.

| Property | What it says |
|---|---|
| `WithoutReplacement` | a source's draws are its samples in order, over rotations and changes of phase; a `concat` cycle is a permutation |
| `RanksMeetTickets` | every ticket, however rare, meets the ranks about equally often |
| `EpochIsWhole` | when a rank has no batch left every sample has been trained as often as it is to be, over a crash and a resume; groups are not split; batches are equal where they must be |

Run: `training`: two sources with weights up to three, blocks of five tickets, four blocks to a
phase, up to three ranks and six blocks, so that the phase changes and every ticket meets
every rank; all plans of one to six samples in batches of up to three on up to three ranks
with windows of up to two, grouped ones of two to four samples with up to two prompts to a
group, over two epochs and two jobs.

Proofs (`PlannerProofs`): `WithoutReplacement` (`DrawnInOrder`) and `RanksMeetTickets`
(`RanksMeetEvenly`), for any sources, weights, block sizes, phases and ranks. `ScheduleInv` says
what every source was drawn so far: its quota in each whole block, and its tickets from the start
of the rotated block to the draw (`Served`, `InTurn`). It rests on the quotas filling the
block (`HamiltonFills`), on the block having a quota's tickets of each source, shuffled or merged
by midpoints (`MergedFull`), and for `concat` on the affine map being one to one, which is Gauss's
lemma (`CoprimeCancels`, `InCycle`).

`RanksMeetEvenly` is what the comment on the world size calls the rotation proof. Seen from one
ticket, the blocks of a group advance it by `RotationStep` places, and its draws by
`BlockSize + RotationStep`, until it wraps around the block. Between two wraps the draws are
an arithmetic progression whose step has no factor in common with the ranks, so that in each such
run two ranks differ by one at most (`StepsBalanced`, `RunBalanced`); and the wraps of a
group are counted by `Discrepancy`. `MeetInv` adds this up draw by draw: groups behind, wraps
behind, and the run in progress as it is (`Uneven`). The one assumption is
`StepAssumption`: the code looks for the step without a limit, the model among the
first hundred blocks' worth of numbers.

Proof (`RunProofs`): `EpochIsWhole` (`EpochsTrainAll`), for any samplers, geometries,
epochs and jobs (`EpochAssumption`: the numbers are positive, and the samplers refuse others).
`EpochInv` says that the model has seen what the sampler yields in the first microsteps of the
cycle (`Trained`), and ties the global step to the microsteps of its epoch (`StepsAfter`), whose last
window may be short: so the microsteps that a resumed job skips, which HF finds from the step
alone, are those its checkpoint has seen (`SavedIsWhole`, `SkippedIsSeen`). The rest is counting.
The batches of all ranks are the next places of the cycle (`StepIsNext`, a telescoping sum), the
checks of the geometry make the batches as many on every rank and hold all samples
(`WholeSteps`), and so all microsteps train each sample its share (`Covered`): without groups it has
one place, with groups it comes `mini` times in each of the `repeat` microsteps of its group
(`GroupPlace`, `GroupStep`).

### PlannedSampler

`ShaftPlannedBatchSampler` under HF's data loader and `ShaftBatchPlanningCallback` under
HF's loop. `planner`, `frame`, `snapshots` and `committed` are the sampler's; `queue` is what
the loader has fetched and the model not yet seen; `weights` is a ghost, the microbatches the
model has seen. A plan is its microstep number and the view it was planned from: ranks plan
independently and alike (`Shared`) until a rank's sources change (`Drift`). `PlanFrame` is the
part of `__iter__` up to the first `yield` of a frame, `Yield` each resumption. `StepEndAlone`
and `Gather`/`StepEndTogether` are the two branches of `on_step_end`. A job starts from the
last checkpoint (`saved`) and plans its first microstep before the sampler exists
(`preflight`), which the first frame must contain exactly once. A checkpoint is atomic here:
`CheckpointCommit` is about how.

Not covered: the balancing of a frame, which permutes the batches of a microstep over the
ranks; a view that changes and changes back; `Drift` of a ddp rank, whose planning state
the code does not compare (a hazard without a property).

| Property | What it says |
|---|---|
| `TrainedInOrder` | the surviving model has seen every microstep once and in order |
| `SavedIsExecuted` | a checkpoint's cursor is what its model has seen, all from one view |
| `CommitsAppliedOnly` | a step is committed only if its update was applied on every rank (proved only) |
| `SnapshotReady` | `on_step_end` finds the snapshot of the finished step (proved only) |
| `PlannedTrainingEnds` | training ends, or jobs fail as often as they may |

Run: `startup`, in its parts `sharded` and `ddp`, has two ranks, three steps of two microsteps, a loader that
holds two, and two jobs: a frame ends in the loader while the model is one step behind. The jobs of a behaviour
are all sharded or all ddp, which is chosen at the start. The loader's threads and the
training loops keep running and the launcher starts the next job, which is the fairness
(weak, of `StartJob`, `OptimizerStep`, `Finish` and each rank's `Produce` and `Train` together:
as long as one of them can go on, one does); crashes, drifts and checkpoints are not fair.

Proofs (`StartupProofs`): the first four properties and the type invariant, for any
number of ranks, steps, microsteps and any depth of the loader. The invariant `SamplerInv`
joins three sequences: what the model has seen, the loader's queue and the frame are one
stream without gap (`StreamInOrder`) that ends at a multiple of `GA`; there is a snapshot at
every frame's end from the committed one on (`SnapshotsCover`); and a snapshot with the shared
view has only shared plans before it (`ViewsKept`), so that snapshots that agree between two
ranks are shared, since a rank's own view is nobody else's.

### CheckpointSlot, PublicationModes

One directory `checkpoint-<step>` and the jobs that write it one after the other, each in a
mode: a backend, with or without planned batches, the whole state or only the model.
`contents[a]` is the attempt that wrote file `a`, negated while it is torn; `commit`, `backend`
and `modelOnly` are the three markers; `modes[n]` is the mode of attempt n, which is what the
file `trainerState` (`trainer_state.json`) tells a reader about it. `written` and `open` are each
rank's progress through its files (`Duty`), and `reported` is a ghost: the attempt whose commit
returned.

`Begin` and `Prepare` are `begin_*` of the three protocols up to HF's save; `ClearFile`,
`ClearMarker` and `Cleared` are the `rmtree` of a model-only save, which a kill may leave
anywhere; `OpenFile` and `CloseFile` are HF and the backend, which write in place. The four
commits are the ends of a save, one for each way of publishing (`SavedUnpublished` for a
sharded job that does not plan). `Stop` is a kill, or an error that all ranks share. Whole
files of two attempts have equal sizes, as shards of one configuration do. The validators
(`ManifestValid`, `BackendValid`, `ModelOnlyValid`) and the readers (`Resolves`,
`LoadsPlanning`) say what a later job accepts.

`CheckpointSlot` is the promise made to a reader: one generation at a time, shown by the save
that is under way and by no other, and never again once hidden.

| Property | What it says |
|---|---|
| `VouchedIsOneAttempt` | whichever marker validates, its files are of one attempt |
| `ReportedUsableWithoutLeftover` | a save that returned can be used by its own mode until the next begins |
| `ImplementsSlot` | the markers, over any sequence of modes, keep the promise of `CheckpointSlot` |

Run: the part `modes` of `publication` has two ranks, three saves and five modes: one save
leaves a marker, another changes files under it, a third publishes. Two properties carry a condition
(`AllPublish` for the backend's marker, no backend marker in a ddp job's directory), and two
runs show that the code breaks them without it:

- `modes_leftover_marker`: a planned ddp save does not remove the marker of a sharded one, and
  the reader of the planning state takes the backend's marker wherever the file exists
  (`batch_planning.py:1433`). The committed checkpoint passes the resolver and cannot be loaded.
- `modes_shards_rewritten`: a sharded save that does not plan leaves a committed marker in
  place (`checkpointing.py:1575`) and rewrites the shards, which the marker binds by name and
  size only. Killed before it reaches the hashed files, it leaves a marker that validates for
  shards of two attempts.

Both need a job that changes its mode and saves the same step into the same directory.

Not covered: power loss (the shards are the backend's to fsync), rotation and pruning (see
`CheckpointCommit` for the former), a different number of ranks from one job to the next, the
files of an adapter, which are in no backend marker, and a model-only directory whose save was
killed, which looks like an unpublished sharded one (the last three are hazards without a
property).

Proofs (`PublicationProofs`): the three properties, for any number of ranks and saves and
any set of modes (`Modes \subseteq AllModes`). `PublicationInv` says of each marker what the
directory holds while it stands (`ManifestInv`, `BackendInv`, `ModelOnlyInv`), relative to the
attempt under way and to how much of it each rank has written (`WrittenInv`). A validator only
compares a marker with files, so the property needs to know which files an attempt of *another*
mode can have changed under it: none that the marker binds by digest without breaking it, and of
the shards, which are bound by name and size, none if every save publishes (`AllPublish`).
`MarkersImplementSlot` then follows step by step: at most one marker validates (`OneIsShown`);
only a commit makes one valid, at a moment when none is, and shows the attempt under way; and a
marker that a rewritten file has broken stays broken, since every attempt writes contents of
its own, and what a marker names is of attempts that have begun.

### EfficiencyTelemetry

The history that `ShaftTrainingEfficiencyMonitor` keeps of every optimizer step, through
saves and resumes. `history[r]` is a rank's monitor: the generation's name, the step it began
after, and for each frame the job that measured it. `txn`, `set` and `snaps` are the files
beside the model (`model`): the transaction, the manifest of the set, the snapshots. `pc[r]` is
the phase a rank is in and `vote[r]` what it contributed to the collective that ends it:
begin, reporting, prepare (rank 0 makes the generation pending), the save of the model, then
`validate`, `revoke`, `write`, `manifest`, `recheck`, `commit`, and `undo` after a failure.
`Converge` is the gather in which all ranks learn of a failure. `Restore` takes up the history
of all ranks or of none. `lineage` is a ghost: for each step its model has taken, the job that
took it.

| Property | What it says |
|---|---|
| `HistoryIsTrained` | the frames a monitor holds are those of the steps its model took, once each, since a step that is the same on all ranks (a conjunct of `HistoriesAreTrained`) |
| `CollectivesMatch` | no two ranks are in two different collectives |

Run: `trainer_parts`, two ranks, runs of two steps and three jobs with the telemetry persisted,
not persisted or off. Two jobs resume the same checkpoint, write histories under one generation
into one directory and are killed in mid-save.

`telemetry_begin_unshared` is the same save where no marker publishes it (`WithMarker` false):
rank 0 revokes the model-only marker before a phase whose body has collectives of its own
(`checkpointing.py:1583`), and if the revoke raises it meets its peers in the wrong one.

Not covered: sums, percentiles and device events; a power loss, since a torn file is not JSON,
which restoring treats as a missing one; the save of the model in that phase is HF's or the
backend's; the rank's own work between the collectives of `validate` and `revoke` (resolving device
events, `efficiency.py:472`), where an exception on one rank would leave the peers in the
next one. The model lets a job resume a telemetry checkpoint without a marker as well, which
is more than the resolver does.

Proofs (`TrainerProofs`): `HistoryIsTrained` for any ranks, steps, jobs, failures
and kills, with a marker or without, and `CollectivesMatch` with one. The invariant
`TelemetryInv` is needed because neither is inductive: `CommittedIsTrained` says that the
snapshots of a committed transaction are the histories of the model beside them, which is what
`Restore` relies on; `SaveInOrder` that from `prepare` to `commit` the transaction is not
committed, so that a kill in between leaves nothing to restore, and what each rank has written by
then; `Aligned` that the ranks are in one phase under a marker, and without one differ at
most before the collective after `begin`.

### OPDTelemetry

`OPDTelemetryMonitor` under ddp jobs: no transaction, one file a rank (`opdSnaps`) that is
replaced in the callbacks of a save, before the manifest. `frames` are the ranks' histories and
the ghost `taken` the model's. `StartOpd` restores strictly: a rank without a whole history
makes the job raise. `Finalize` gathers the histories for the run's report
(`summary`). Each job is set anew (`settings`) to measure and persist (`"on"`), only to measure
(`"unsaved"`, `persist=false`), or neither (`"off"`). A job that does not persist writes no snapshots,
and what an earlier save of the step left stays there.

| Property | What it says |
|---|---|
| `MeasuredIsTrained` | each rank's frames are those of the very steps its model took, while the earlier jobs of its lineage persisted theirs; so is the report of a lineage that was persisted throughout |
| `RefusedUnpersisted` | only a checkpoint with a job in its lineage that did not persist is turned away because of its telemetry |
| `ResumeNotRefused` | no checkpoint that the resolver accepts is turned away because of its telemetry: violated |

The first two are conjuncts of `HistoriesAreTrained`, in a part of `trainer_parts` in which three
jobs of two steps have any settings: jobs beside the lineage that is looked at write the same directories
and leave theirs in it. They say nothing of a lineage in which a job did not persist,
since there the code is wrong: `opd_unsaved_resume` shows the last property violated by jobs with
`persist=false`, whose checkpoints no job that measures can resume (`opd/telemetry.py:213`), and a
snapshot of another lineage may stand in for the one that was not written. What is
measured and the metrics are left out.

Proofs (`TrainerProofs`): both conjuncts, and with `HistoryIsTrained` all of
`HistoriesAreTrained` (`BothHistoriesAreTrained`), for any ranks, steps, jobs and settings.
`PersistInv` adds that the snapshots under a manifest are those of the model it names, if that
model's jobs persisted (`PublishedIsTrained`), and that a save hides the checkpoint until every
rank has written (`SaveHides`). What a job was set to never changes and a job's number is
never given to another (`SettingsGrow`), so a lineage that was persisted stays so
(`PersistedStays`).

### LossWindow, LossReporting

`LossWindow` is an accumulation window of an OPD step: `denominator` is
`_opd_window_denominator`, and `Microbatch` rescales what is accumulated as
`opd/trainer.py` does before the next backward pass. A gradient is, for each microbatch, the
weight of its token losses as an exact fraction; HF's division by the window's size and DDP's
average are in `Backward`. `GlobalToken` is the weight in an SFT step with
`loss_normalization=global_token`, which counts the window's tokens first.

`LossReporting` is what an SFT job reports: HF's window `tr`, `total` and `last` as
`_maybe_log_save_evaluate` and the checkpoint's reporting state treat them, with a loss that is
handed over by the first `training_step` of a resumed job (`pending`) and counted
provisionally (`provisional`). The ghost `ref` is HF's state in a run that nothing interrupted.

| Property | What it says |
|---|---|
| `GradientIsTokenMean` | an OPD gradient is the mean over the window's tokens, as an SFT one, for uneven and empty microbatches, short windows and after a window that raised |
| `ReportedAsUninterrupted` | a resumed job logs what an uninterrupted one would, NaN losses included, and its final loss is that of its own steps |

Run: `trainer_parts`: two ranks with up to two tokens a microbatch, windows of up to three, two
windows; two microbatches a step, three steps, two resumes. Rounding is not modelled; losses
and HF's quotients of them are integers.

Proofs (`TrainerProofs`): both properties, for any finite set of ranks, any losses or token
counts, windows, steps and resumes. For the first, `WindowInv` says that in mid-window every
microbatch of every rank that is done has the weight that makes it count for the tokens so far
(`WeightedSoFar`), where a denominator of zero means that nothing has been accumulated: the
rescaling of `Microbatch` keeps it, whichever of the old and the new denominator is zero. The
sums over ranks and microbatches are taken apart by `FoldLemmas`. For the second, `ReportInv`
says that a checkpoint has what the uninterrupted run has at its step (`StoredAsRef`), and that a
job's window and total are that run's, or its window is pending and already counted in the total
(`RunsAsRef`). The latter is the state that a save, a log and the end of the training must
each treat as the code does.

### ProgressManager

`ShaftProgressManager` used by several threads, with a terminal and a JSON sink that may fail.
A section under a lock is one step; `publications` are the revisions that are committed and not
delivered; `holder` has the publish lock and delivers all that are due. `todo` and `after` are
the loops of `record_failure` and `close` over handles that may be stale by then. The throttles
of the sinks are choices. `ticker` is the thread that animates a task without a total: it has
released the sink's lock when it leaves its loop (`exiting`), and is alive until it ends.

| Property | What it says |
|---|---|
| `SinksFollow` | every sink gets every revision once and in order, whoever delivers; after close no task runs and the progress file holds the final state |
| `Animated` | a displayed task without a total has a ticker: violated |

`progress_ticker` shows the last: `_set_display_task` (`progress.py:1426`) starts no ticker
while the leaving one is alive. Not covered: the plain sink, formatting, rates, messages and
parent tasks.

Proofs (`TrainerProofs`): `SinksFollow`, for any threads, any finite set of tasks with
`run.failure` in it and any number of changes, whichever sinks fail (`ProgressConstants`). None
of its parts is inductive: that the file holds the final state after `close` depends on every
change since the start having been delivered by some thread. `ProgressInv` says that what is due
are the last revisions, without a gap, that the last of them shows the tasks as they are, and
that whoever made it still waits for its delivery (`Due`); that only the holder of the lock
delivers, and how far it is (`OneDelivers`, `Followed`); what the JSON sink has written and
what its throttle has held back (`FileFollows`, which needs that a publication that ends the
last task is never held back); and that who closes has a handle of every running task, since
nothing starts any more (`Closes`, `StartOrder`).

### ResumeGuard

The resume of a job while another one saves in the directory (`BeginSave`, `WriteFile`,
`PublishMarker`, or `KillSave`), or something replaces a file. Each rank looks for the newest valid checkpoint
(`ReadMarker`, `Hash`), takes the marker's identity and the files' stat tokens (`Stat`), and
compares them again in two guards (`GuardMarker`, `round`), with the startup stages in which
ranks agree in between (`Converge`). A content is the number of the write it comes from.

| Property | What it says |
|---|---|
| `LoadedIsVerified` | what the ranks loaded is one generation of one checkpoint, the one verified |
| `UntouchedResolvesNewest` | if nothing is written, every rank resolves the newest valid checkpoint |

Run: `startup`, two checkpoints that are whole or not, three files of which one is the marker, and
two writes. A file replaced between its hash and its first stat, or anything after the last
guard, is beyond what the code detects, and `late` takes it out of the property. A checkpoint
that an unplanned backend saved has no marker, and is not in the model: its guard is the
identity of `trainer_state.json` alone.

Proofs (`StartupProofs`): both properties (`ResumedIsVerified`, `ResumesFromNewest`), for any
ranks, files, checkpoints and writes, under either protocol, assuming of the constants that the names are distinct, that
the marker is none of the files it speaks of, and that of any of the checkpoints one is the
newest (`GuardConstants`, which finitely many checkpoints give). Neither property is inductive.
The heart of `GuardInv` is that a marker that changed never comes back (`Numbered` and
`MarkIsSound`: a save writes a number above every marker that was read), so that a rank that
finds its marker again knows that no save of that checkpoint began since it read it
(`Held`). While it is held, what was hashed, what the tokens are of and what the last guard has
compared is all of the marker's generation (`HeldIsWhole`), unless a file was replaced where the
guard does not look (`late`). `RankUntouched` does the same for a job that nothing disturbs: it
has passed over no valid checkpoint. TLC checked `GuardInv` on the bounds of the run and on one
write more.

### ModelArtifact

`_distributed_complete_local_identity` before and after the load of the base model, and the
guard around it. `leader` and `mount` say which rank hashes for a node and which copy of the
files a rank sees. A pass over the files is a value of `at` with a position `k`; the gathers
are the other values, which all ranks enter and leave together with a status (`ok`). A rewrite
gives a file a new version, or keeps the old one (same size and times).

| Property | What it says |
|---|---|
| `BuiltFromIdentified` | a build that succeeds read on every rank the bytes its plan identified |
| `NoneStranded` | no rank waits in a gather that another has left: what raises on one rank alone, all raise |

Run: `startup`, any assignment of two ranks to nodes and copies, two files, two rewrites or
errors. A silent rewrite that is silently undone leaves no trace, and is excluded. Not covered:
errors of the loader (its docstring leaves them to the launcher), incomplete identities, hub
revisions, the check of remote code; reading one file is one instant.

Proofs (`StartupProofs`): both properties, for any number of ranks, nodes, copies, files,
rewrites and errors, assuming a rank and a file (`Workers # {}`, `NumFiles` positive).
`ArtifactInv` has three parts. `Shape` is the type. `Past` says that a stat entry that was taken
is never newer than the file, so that an entry that is equal now was equal all the time.
`Together` says that all ranks are between the same two gathers, and for each such segment what
is known of the files: a content that was read is still there unless the version changed or the
one silent rewrite happened since (`Seen`), so of the plan's digest, the load and the closure's
digest two neighbours may differ but not all (`Loaded`, `Tells`), and a leader's digest serves a
rank whose entries and copy are the leader's (`Serves`). That makes the guard after the closure
the last word: an entry that is still the plan's means that the bytes loaded were the plan's
(`Verifying`).

### RecordCache

`ShaftArrowRecordStore.from_jsonl` on every rank: stat, peek, lock, re-check, build, publish by
rename, open; a node's first rank warms the cache before it loads. `cache[d][v]` is what the
file of directory d and fingerprint v holds. Jobs are killed, machines lose unsynced files
(`Restart`), and the source is edited.

| Property | What it says |
|---|---|
| `OpensOrRejects` | a rank raises only if the source was malformed, and what it opens was validated |
| `SameSnapshotSameRows` | ranks that train under one fingerprint train on the same rows: violated |

`records_snapshot` shows the last: the fingerprint is taken before the lock and the file is read
after it (`record_store.py:97`). Versions have equally many rows, since the ranks notice others
by their schedules. An edit replaces the file as a whole: `record_store.py:260` reads it
line by line, so one that rewrites it in place can show a build rows of two versions,
which is not covered.

Proofs (`StartupProofs`): `OpensOrRejects` (`RecordsOpenOrReject`), for any ranks, nodes,
directories, edits and jobs, with versions that are positive numbers. `RecordInv` says that a file that opens, and a temporary
file that is about to be published, holds rows that were validated (`RowsAreGood`), and that a
file whose rank is about to open it opens. It needs nothing of the locks: they save work, and a
rank that builds without one would publish good rows as well.

### InferRun

`ShaftInferPipeline.run`: the stages of a run, each with attempts and back-offs
within one deadline, and the caller's event. `Checkpoint` is
`ShaftInferExecutionControl.checkpoint`; `Attempt` is the adapter's validation and the call;
`Decode` and `Finish` the codec between two checkpoints; `Retry` and `Wake` the back-off, cut to
what remains of the budget. Time passes in the engine, the codec and the back-off. An engine that
supports deadlines can be at work beyond its own: the adapter bounds each operation of
its socket by what remains (`engine.py:411`, `478`), not the request as a whole.

| Property | What it says |
|---|---|
| `BudgetKept` | once a stage's timeout is over, no engine is called for it, it waits in no back-off, and no result of it is used, whatever its engine or codec was doing by then |
| `NothingAfterCancel` | after a cancellation no engine is called and no result used |
| `RunEnds` | every run returns or raises |

Run: `termination`, two stages with or without a timeout of three and a back-off of two, one
retry, engines that do and do not support deadlines and cancellation, and a clock that goes
on to seven, where the second stage expires if the first used its budget up. `RunEnds` assumes
weak fairness of the pipeline's thread, the engine, which comes back some time, and the clock; nobody has to cancel. An
engine that does not support a control in force is not called at all; no adapter in the
repository declares support for cancellation, so with an event a stage ends that way. Prompts, codecs and the byte reads
of the HTTP client are not modelled.

Proofs (`RunProofs`): `BudgetKept` and `NothingAfterCancel`, for any stages and any
configurations of them (`Configs \subseteq Config`, `Stages` positive). `InferInv` adds that the
deadline is that of the stage at work, and that a back-off ends by the deadline, or at once if an
engine came back after it. The checkpoints before an attempt, after the answer and after the
codec do the rest.

## Mutants

A definition marked "Mutant" is a faulty variant of the definition after it: a dropped
guard, a missing reset, an fsync left out, an order swapped. No specification uses it.
PROJECT.json pairs each with a property that TLC finds violated when the variant takes the
definition's place, which shows that the property depends on the code it is about.

## Assumptions

The ranks' collectives return the same statuses to all ranks or none. A rename within a
directory is atomic. A digest identifies its content. HF's `Trainer`, Accelerate and the launcher
(`torchrun`) are modelled from how the code uses them and marked external.

The theorems take nothing else for granted than the assumptions on constants named in the
modules (`ASSUME`) or in the theorems themselves: that numbers are numbers and limits positive,
that ranks, tasks and hosts are finitely many where they are counted, that there is a step
for the rotation of blocks, and that one producer at a
time works on a directory (`Overlap`), which the code leaves to the operator.

The library's induction theorems take a predicate, which the provers cannot instantiate. Where a
proof needs induction over data, `FoldLemmas` takes a set of numbers instead (`LeastNat`: a set
of naturals has a least one, from the library's theorem that strict subset is well-founded on
finite sets), and derives what sums and folds over sets and sequences are.

Fairness is stated where a run has a liveness property (`termination`, `publication`,
`startup`), and is weak everywhere: a process, thread or coroutine that can go on does, a
collective in which all ranks are returns, and time passes. No failure, kill, cancellation,
checkpoint or restart is fair, but for the launcher's restart in `startup`.

## Only model-checked

- Liveness (`AttemptEnds`, `RunEnds`, `PipelineJobEnds`, `PlannedTrainingEnds`): fairness and
  `ENABLED` are beyond the provers.
- `BundleWhole` (`DetectionBundle`): not proved so far.
- `PipelineKeepsRows` as the run states it, of its part `pipeline`; its two conjuncts are
  proved of the pipeline's specification.
- The properties that the code breaks: a counterexample is their result.
