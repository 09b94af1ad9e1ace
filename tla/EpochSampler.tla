----------------------------- MODULE EpochSampler ------------------------------
(***************************************************************************)
(* Training by epochs without a planner: ShaftSampleSampler and            *)
(* ShaftGroupedSampleSampler (data/sampler.py) under HF's loop, which      *)
(* shards the loader's batches over the ranks, and                         *)
(* ShaftTrainSamplerMixin, which checks the geometry and sets the cycle of *)
(* the sample plan.  A job that resumes in mid-epoch skips the batches that *)
(* its checkpoint has trained.                                             *)
(*                                                                         *)
(* The order of a cycle is its rotation: all that matters is that cycles   *)
(* differ.  Microsteps are synchronized by the ranks' gradients.           *)
(***************************************************************************)
EXTENDS Naturals, FiniteSets, Functions

CONSTANTS Setups,       \* samplers and geometries of a run, see Setup
          Epochs,       \* num_train_epochs
          MaxJobs       \* bound: jobs, the first and the resumed ones

VARIABLES setup,    \* the sampler and the geometry of the run
          epoch,    \* the epoch HF is in
          cycle,    \* sampler.plan_cycle
          done,     \* microsteps of the epoch, on every rank, the skipped ones included
          step,     \* state.global_step
          seen,     \* sample -> times the model has trained it in this epoch
          saved,    \* the last checkpoint: its global step and what its model has seen
          loop,     \* "start", "epoch", "between", "refused" or "ended"
          jobs      \* jobs begun

epochVars == <<setup, epoch, cycle, done, step, seen, saved, loop, jobs>>

Chunks(a, b) == (a + b - 1) \div b

-----------------------------------------------------------------------------
(* The sampler and the loader *)

\* Samples of the plan, batch size of the loader, ranks; whether it drops the last batch
\* or needs equal batches on all ranks; accumulation; and of a grouped sampler the prompts
\* of a group, how often each comes in a row and how often the group is repeated.
Setup == [grouped : BOOLEAN, samples : Nat, batch : Nat, world : Nat, drop : BOOLEAN,
          equal : BOOLEAN, ga : Nat, unique : Nat, mini : Nat, repeat : Nat]

ASSUME EpochAssumption ==
    /\ Setups \subseteq Setup
    /\ \A g \in Setups :
           /\ g.samples > 0 /\ g.batch > 0 /\ g.world > 0 /\ g.ga > 0
           /\ g.unique > 0 /\ g.mini > 0 /\ g.repeat > 0

Samples == 0 .. setup.samples - 1
DataRank   == 0 .. setup.world - 1

\* How often an epoch is to train a sample.
Share == IF setup.grouped THEN setup.mini * setup.repeat ELSE 1

RefAt(position) == (position + cycle) % setup.samples

Length == setup.samples * Share

\* The n-th sample that the sampler yields.
Yielded(n) ==
    LET group  == setup.unique * setup.mini
        offset == (n % group) \div setup.mini
    IN  RefAt(IF setup.grouped THEN (n \div (group * setup.repeat)) * setup.unique + offset ELSE n)

\* Batches of the whole loader, and of one rank, which takes every world-th.
Batches == IF setup.drop THEN Length \div setup.batch ELSE Chunks(Length, setup.batch)

HasBatch(r) == done * setup.world + r < Batches

\* The places of the next batch of rank r.
BatchAt(r) ==
    LET first == (done * setup.world + r) * setup.batch
    IN  {n \in first .. first + setup.batch - 1 : n < Length}

\* How often s is in it.
InBatch(r, s) == Cardinality({n \in BatchAt(r) : Yielded(n) = s})

\* How often s is in the next microstep.
InStep(s) == FoldFunction(+, 0, [r \in DataRank |-> InBatch(r, s)])

\* HF's optimizer steps of an epoch, one at least: the last window may be short.
LocalBatches  == Batches \div setup.world
StepsPerEpoch == IF LocalBatches = 0 THEN 1 ELSE Chunks(LocalBatches, setup.ga)

-----------------------------------------------------------------------------
(* The checks *)

\* Mutant: the last batches are left to the loader.
WholeEpochsAnyTail(p) ==
    /\ p.drop => p.samples % p.batch = 0
    /\ p.equal /\ p.world > 1 => p.samples % (p.batch * p.world) = 0

\* ShaftSampleSampler.validate_epoch_sharding
WholeEpochs(p) ==
    /\ p.drop => p.samples % p.batch = 0
    /\ Chunks(p.samples, p.batch) % p.world = 0
    /\ p.equal /\ p.world > 1 => p.samples % (p.batch * p.world) = 0

\* ShaftGroupedSampleContract.validate_epoch_sharding; the products that follow are divisible.
WholeGroups(p) ==
    /\ p.samples % p.unique = 0
    /\ p.batch * p.world = p.unique * p.mini
    /\ ~p.drop

Accepted == IF setup.grouped THEN WholeGroups(setup) ELSE WholeEpochs(setup)

-----------------------------------------------------------------------------
(* The job *)

Unseen == [s \in Samples |-> 0]

EpochInit ==
    /\ setup \in Setups
    /\ epoch = 0 /\ cycle = 0 /\ done = 0 /\ step = 0
    /\ seen = Unseen /\ saved = [step |-> 0, seen |-> Unseen]
    /\ loop = "start" /\ jobs = 0

\* get_train_dataloader
Refuse ==
    /\ loop = "start" /\ ~Accepted
    /\ loop' = "refused"
    /\ UNCHANGED <<setup, epoch, cycle, done, step, seen, saved, jobs>>

\* HF finds the epoch and the batches to skip from the step alone.
StartJob ==
    /\ loop = "start" /\ Accepted /\ jobs < MaxJobs
    /\ step' = saved.step /\ seen' = saved.seen
    /\ epoch' = saved.step \div StepsPerEpoch
    /\ done' = (saved.step % StepsPerEpoch) * setup.ga
    /\ cycle' = 0
    /\ loop' = "between" /\ jobs' = jobs + 1
    /\ UNCHANGED <<setup, saved>>

\* _run_epoch
RunEpoch ==
    /\ loop = "between" /\ epoch < Epochs
    /\ cycle' = epoch
    /\ seen' = IF done > 0 THEN seen ELSE Unseen
    /\ loop' = "epoch"
    /\ UNCHANGED <<setup, epoch, done, step, saved, jobs>>

\* A microstep of all ranks; it ends an optimizer step if its window is full or the last.
Microstep ==
    /\ loop = "epoch" /\ \A r \in DataRank : HasBatch(r)
    /\ seen' = [s \in Samples |-> seen[s] + InStep(s)]
    /\ done' = done + 1
    /\ step' = IF done' % setup.ga = 0 \/ done' = LocalBatches THEN step + 1 ELSE step
    /\ UNCHANGED <<setup, epoch, cycle, saved, loop, jobs>>

\* A checkpoint between two optimizer steps.
Save ==
    /\ loop = "epoch" /\ step > saved.step
    /\ done % setup.ga = 0 \/ done = LocalBatches
    /\ saved' = [step |-> step, seen |-> seen]
    /\ UNCHANGED <<setup, epoch, cycle, done, step, seen, loop, jobs>>

Exhausted == \E r \in DataRank : ~HasBatch(r)

EndEpoch ==
    /\ loop = "epoch" /\ Exhausted
    /\ epoch' = epoch + 1 /\ done' = 0
    /\ loop' = IF epoch' = Epochs THEN "ended" ELSE "between"
    /\ UNCHANGED <<setup, cycle, step, seen, saved, jobs>>

Crash ==
    /\ loop \in {"epoch", "between"} /\ jobs < MaxJobs
    /\ loop' = "start"
    /\ UNCHANGED <<setup, epoch, cycle, done, step, seen, saved, jobs>>

EpochNext == Refuse \/ StartJob \/ RunEpoch \/ Microstep \/ Save \/ EndEpoch \/ Crash

EpochSpec == EpochInit /\ [][EpochNext]_epochVars

-----------------------------------------------------------------------------
(* Properties *)

\* When a rank has no batch left the model has trained every sample of the epoch as often as
\* it is to be, wherever jobs crashed and resumed: so no other rank has a batch left, on
\* which it would wait for ever.  And a microstep has whole groups of a prompt's repeats, and
\* where the algorithm needs it as many samples on every rank.
EpochIsWhole ==
    loop = "epoch" =>
        /\ Exhausted => seen = [s \in Samples |-> Share]
        /\ setup.grouped /\ ~Exhausted => \A s \in Samples : InStep(s) \in {0, setup.mini}
        /\ setup.equal /\ ~Exhausted =>
               \A q, r \in DataRank : Cardinality(BatchAt(q)) = Cardinality(BatchAt(r))
=============================================================================
