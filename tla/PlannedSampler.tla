---------------------------- MODULE PlannedSampler -----------------------------
(***************************************************************************)
(* The stream of planned batches as the ranks of a training job consume it: *)
(* ShaftPlannedBatchSampler of data/sampler.py, which the data loader runs *)
(* ahead of the model, and ShaftBatchPlanningCallback of                   *)
(* training/batch_planning.py, which moves the committed cursor after an   *)
(* optimizer step and puts it into the checkpoint.                         *)
(*                                                                         *)
(* A planning state is the microstep it stands at and the view it was      *)
(* planned from: every rank plans the same stream by itself (Shared), but  *)
(* a rank whose sources change under it plans a stream of its own.  The    *)
(* plan of a microstep is the planner's business (BatchPlanner): here it is *)
(* the microstep's number and the view.                                    *)
(*                                                                         *)
(* Operators marked Mutant are faulty variants of the next one (README).   *)
(***************************************************************************)
EXTENDS Integers, Sequences, FiniteSets

CONSTANTS
    World,     \* data_world_size
    GA,        \* gradient_accumulation_steps, which is planning_frame_size
    MaxSteps,  \* max_steps, optimizer steps of the training
    Ahead,     \* microbatches the data loader may hold
    Sharded,   \* the backend is fsdp or deepspeed, else ddp
    MaxRun     \* bound: jobs that run the training

ASSUME GeometryAssumption ==
    /\ World \in Nat \ {0} /\ GA \in Nat \ {0} /\ MaxSteps \in Nat \ {0}
    /\ Ahead \in Nat \ {0} /\ Sharded \in BOOLEAN
    /\ Sharded => World > 1
ASSUME RunAssumption == MaxRun \in Nat

Ranks == 0 .. World - 1
Total == MaxSteps * GA    \* global_microstep_count
Shared == -1
Views  == {Shared} \cup Ranks
State == [microstep : 0 .. Total + 1, view : Views]
Start == [microstep |-> 0, view |-> Shared]

VARIABLES
    run,        \* number of the current (or last) job
    mode,       \* the job: "up", "down" or, once trained to the end, "done"
    initial,    \* the sampler's initial_state
    planner,    \* per rank: state of the sampler's planner
    preflight,  \* per rank: the preflight plan was not yet put into a frame
    frame,      \* per rank: planned microsteps that were not yielded yet
    queue,      \* per rank: microbatches the loader holds
    snapshots,  \* per rank: _snapshots
    committed,  \* per rank: _committed_state
    phase,      \* per rank: training, or what on_step_end has done
    applied,    \* per rank: the optimizer update was applied
    step,       \* global_step
    weights,    \* per rank: the microbatches the model has seen
    saved       \* the last checkpoint

sampler == <<initial, planner, preflight, frame, queue, snapshots, committed>>
vars    == <<run, mode, sampler, phase, applied, step, weights, saved>>

All(v) == [r \in Ranks |-> v]

Fresh == [step |-> 0, state |-> Start, weights |-> All(<<>>)]

-----------------------------------------------------------------------------
(***************************************************************************)
(* A job starts: from the checkpoint, if there is one.                     *)
(***************************************************************************)
\* With several ranks the first microstep is planned before the sampler exists.
Preflight == World > 1

\* _build_planned_sampler, and __init__ of the sampler, from the given state.
Opened(state) ==
    /\ initial' = state
    /\ planner' = All([state EXCEPT !.microstep = @ + IF Preflight THEN 1 ELSE 0])
    /\ preflight' = All(Preflight)
    /\ frame' = All(<<>>) /\ queue' = All(<<>>)
    /\ snapshots' = All({state}) /\ committed' = All(state)

Loaded ==
    /\ step' = saved.step /\ weights' = saved.weights
    /\ phase' = All("training") /\ applied' = All(TRUE)

\* What the sampler and the loading of its state require.
Resumable(checkpoint) ==
    /\ checkpoint.state.microstep = checkpoint.step * GA
    /\ checkpoint.state.microstep % GA = 0
    /\ checkpoint.state.microstep <= Total

Init ==
    /\ run = 0 /\ mode = "down"
    /\ initial = Start /\ planner = All(Start) /\ preflight = All(FALSE)
    /\ frame = All(<<>>) /\ queue = All(<<>>)
    /\ snapshots = All({Start}) /\ committed = All(Start)
    /\ phase = All("training") /\ applied = All(TRUE)
    /\ step = 0 /\ weights = All(<<>>)
    /\ saved = Fresh

StartJob ==
    /\ mode = "down" /\ run < MaxRun /\ Resumable(saved)
    /\ run' = run + 1 /\ mode' = "up"
    /\ Opened(saved.state) /\ Loaded
    /\ UNCHANGED saved

-----------------------------------------------------------------------------
(***************************************************************************)
(* The producer: the sampler's __iter__, run by the data loader.           *)
(***************************************************************************)
\* The sources of rank r change: it plans a stream of its own from now on.
Drift(r) ==
    /\ Sharded /\ mode = "up"
    /\ planner[r].view = Shared
    /\ planner' = [planner EXCEPT ![r].view = r]
    /\ UNCHANGED <<run, mode, initial, preflight, frame, queue, snapshots, committed,
                   phase, applied, step, weights, saved>>

\* Mutant: the planner starts at the initial state although one plan exists.
FrameFromInitial(r) ==
    LET first == IF preflight[r] THEN <<initial>> ELSE <<>>
        start == IF preflight[r] THEN initial.microstep ELSE planner[r].microstep
    IN  first \o [n \in 1 .. GA - Len(first) |->
                     [microstep |-> start + n - 1, view |-> planner[r].view]]

\* The plans of the next frame, the preflight plan first.
FrameOf(r) ==
    LET first == IF preflight[r] THEN <<initial>> ELSE <<>>
    IN  first \o [n \in 1 .. GA - Len(first) |->
                     [microstep |-> planner[r].microstep + n - 1, view |-> planner[r].view]]

\* Microsteps that were put into frames, the initial ones included.
Framed(r) == planner[r].microstep - IF preflight[r] THEN 1 ELSE 0

\* A whole frame is planned before any of it is yielded, and its end is remembered.
PlanFrame(r) ==
    /\ mode = "up" /\ frame[r] = <<>> /\ Framed(r) < Total
    /\ Len(queue[r]) < Ahead
    /\ frame' = [frame EXCEPT ![r] = FrameOf(r)]
    /\ preflight' = [preflight EXCEPT ![r] = FALSE]
    /\ LET end == [planner[r] EXCEPT !.microstep = Framed(r) + GA]
       IN  /\ planner' = [planner EXCEPT ![r] = end]
           /\ snapshots' = [snapshots EXCEPT ![r] = {s \in @ : s.microstep # end.microstep} \cup {end}]
    /\ UNCHANGED <<run, mode, initial, queue, committed, phase, applied, step, weights, saved>>

Yield(r) ==
    /\ mode = "up" /\ frame[r] # <<>>
    /\ Len(queue[r]) < Ahead
    /\ queue' = [queue EXCEPT ![r] = Append(@, Head(frame[r]))]
    /\ frame' = [frame EXCEPT ![r] = Tail(@)]
    /\ UNCHANGED <<run, mode, initial, planner, preflight, snapshots, committed,
                   phase, applied, step, weights, saved>>

-----------------------------------------------------------------------------
(***************************************************************************)
(* The consumer: the Trainer's loop and the callback's on_step_end.        *)
(***************************************************************************)
Done(r) == Len(weights[r]) - step * GA    \* microsteps of the current frame

\* Mutant: the loader hands a microbatch out only once it has the next one.
BackwardLookingAhead(r) ==
    /\ mode = "up" /\ phase[r] = "training" /\ Done(r) < GA
    /\ Len(queue[r]) > 1
    /\ weights' = [weights EXCEPT ![r] = Append(@, Head(queue[r]))]
    /\ queue' = [queue EXCEPT ![r] = Tail(@)]
    /\ UNCHANGED <<run, mode, initial, planner, preflight, frame, snapshots, committed,
                   phase, applied, step, saved>>

Backward(r) ==
    /\ mode = "up" /\ phase[r] = "training" /\ Done(r) < GA
    /\ queue[r] # <<>>
    /\ weights' = [weights EXCEPT ![r] = Append(@, Head(queue[r]))]
    /\ queue' = [queue EXCEPT ![r] = Tail(@)]
    /\ UNCHANGED <<run, mode, initial, planner, preflight, frame, snapshots, committed,
                   phase, applied, step, saved>>

\* The gradients of all ranks meet.  A ddp rank skips its update when all do.
OptimizerStep ==
    /\ mode = "up" /\ step < MaxSteps
    /\ \A r \in Ranks : phase[r] = "training" /\ Done(r) = GA
    /\ \E skipping \in IF Sharded THEN SUBSET Ranks ELSE {{}, Ranks} :
          applied' = [r \in Ranks |-> r \notin skipping]
    /\ step' = step + 1
    /\ phase' = All("stepped")
    /\ UNCHANGED <<run, mode, sampler, weights, saved>>

\* planning_state_at_global_microstep finds one.
AtStep(r) == {s \in snapshots[r] : s.microstep = step * GA /\ s.microstep >= committed[r].microstep}

Fail == mode' = "down" /\ UNCHANGED <<run, sampler, phase, applied, step, weights, saved>>

\* commit_global_microstep
Commit(r) ==
    /\ \E s \in AtStep(r) : committed' = [committed EXCEPT ![r] = s]
    /\ snapshots' = [snapshots EXCEPT ![r] = {s \in @ : s.microstep >= step * GA}]
    /\ phase' = [phase EXCEPT ![r] = "committed"]
    /\ UNCHANGED <<run, mode, initial, planner, preflight, frame, queue,
                   applied, step, weights, saved>>

\* on_step_end of a ddp job, and of a job of one rank
StepEndAlone(r) ==
    /\ ~ Sharded /\ mode = "up" /\ phase[r] = "stepped"
    /\ IF applied[r] /\ AtStep(r) # {} THEN Commit(r) ELSE Fail

\* ... of a sharded one: the rank looks at the state it would commit, ...
Gather(r) ==
    /\ Sharded /\ mode = "up" /\ phase[r] = "stepped"
    /\ phase' = [phase EXCEPT ![r] = "gathered"]
    /\ UNCHANGED <<run, mode, sampler, applied, step, weights, saved>>

\* ... and the statuses of all ranks decide.
Converged(r) ==
    /\ \A o \in Ranks : applied[o] /\ AtStep(o) # {}
    /\ Cardinality(UNION {AtStep(o) : o \in Ranks}) = 1

StepEndTogether(r) ==
    /\ Sharded /\ mode = "up" /\ phase[r] = "gathered"
    /\ \A o \in Ranks : phase[o] # "stepped"
    /\ IF Converged(r) THEN Commit(r) ELSE Fail

NextStep(r) ==
    /\ mode = "up" /\ phase[r] = "committed" /\ step < MaxSteps
    /\ phase' = [phase EXCEPT ![r] = "training"]
    /\ UNCHANGED <<run, mode, sampler, applied, step, weights, saved>>

\* Mutant: the checkpoint holds latest_planned_state.
SaveLatest ==
    /\ mode = "up" /\ saved.step # step
    /\ \A r \in Ranks : phase[r] = "committed"
    /\ \E s \in snapshots[0] :
          /\ \A other \in snapshots[0] : other.microstep <= s.microstep
          /\ saved' = [step |-> step, state |-> s, weights |-> weights]
    /\ UNCHANGED <<run, mode, sampler, phase, applied, step, weights>>

\* A checkpoint: rank 0 writes the callback's state.
Save ==
    /\ mode = "up" /\ saved.step # step
    /\ \A r \in Ranks : phase[r] = "committed"
    /\ saved' = [step |-> step, state |-> committed[0], weights |-> weights]
    /\ UNCHANGED <<run, mode, sampler, phase, applied, step, weights>>

\* A job that resumes at the last step has nothing to train.
Finish ==
    /\ mode = "up" /\ step = MaxSteps
    /\ \A r \in Ranks : phase[r] \in {"committed", "training"}
    /\ mode' = "done"
    /\ UNCHANGED <<run, sampler, phase, applied, step, weights, saved>>

Crash ==
    /\ mode = "up" /\ run < MaxRun
    /\ mode' = "down"
    /\ UNCHANGED <<run, sampler, phase, applied, step, weights, saved>>

Produce(r) == PlanFrame(r) \/ Yield(r)
Train(r)   == Backward(r) \/ StepEndAlone(r) \/ Gather(r) \/ StepEndTogether(r) \/ NextStep(r)

Next ==
    \/ StartJob \/ OptimizerStep \/ Save \/ Finish \/ Crash
    \/ \E r \in Ranks : Produce(r) \/ Train(r) \/ Drift(r)

Spec == Init /\ [][Next]_vars

\* As long as a loader's thread or a training loop can go on, one of them does; jobs are
\* restarted.
FairSpec ==
    Spec /\ WF_vars(\/ StartJob \/ OptimizerStep \/ Finish
                    \/ \E r \in Ranks : Produce(r) \/ Train(r))

-----------------------------------------------------------------------------
(***************************************************************************)
(* Properties.                                                             *)
(***************************************************************************)
\* The shape of the state.
TypeOK ==
    /\ run \in 0 .. MaxRun /\ mode \in {"up", "down", "done"}
    /\ initial \in State /\ planner \in [Ranks -> State] /\ preflight \in [Ranks -> BOOLEAN]
    /\ frame \in [Ranks -> Seq(State)] /\ queue \in [Ranks -> Seq(State)]
    /\ snapshots \in [Ranks -> SUBSET State] /\ committed \in [Ranks -> State]
    /\ phase \in [Ranks -> {"training", "stepped", "gathered", "committed"}]
    /\ applied \in [Ranks -> BOOLEAN]
    /\ step \in 0 .. MaxSteps /\ weights \in [Ranks -> Seq(State)]
    /\ saved \in [step : 0 .. MaxSteps, state : State, weights : [Ranks -> Seq(State)]]

\* The model sees every microstep of the stream once and in order, however far the
\* loader is ahead, and whatever crashes and resumes happen.
TrainedInOrder ==
    \A r \in Ranks : \A n \in 1 .. Len(weights[r]) : weights[r][n].microstep = n - 1

\* A checkpoint's cursor is what its model has seen, not what was planned, and all
\* of it was planned from the same view.
SavedIsExecuted ==
    \A r \in Ranks :
        /\ Len(saved.weights[r]) = saved.state.microstep
        /\ saved.state.microstep = saved.step * GA
        /\ \A n \in 1 .. Len(saved.weights[r]) : saved.weights[r][n].view = Shared

\* Nothing of a skipped update is ever committed: the cursor is past a step only if
\* the update of the step was applied on every rank.
CommitsAppliedOnly ==
    \A r \in Ranks : phase[r] = "committed" /\ mode # "down" =>
        /\ \A o \in Ranks : applied[o]
        /\ committed[r].microstep = step * GA

\* The state of the finished step is always there when on_step_end asks for it: the
\* producer may be ahead of the model but never behind.
SnapshotReady ==
    \A r \in Ranks : mode = "up" /\ phase[r] \in {"stepped", "gathered"} => AtStep(r) # {}

\* The training ends, or the jobs fail as often as they may.
TrainingEnds == <>[](mode = "done" \/ (mode = "down" /\ run = MaxRun))
=============================================================================
