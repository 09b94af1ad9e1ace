---------------------------- MODULE LossReporting ----------------------------
(***************************************************************************)
(* What an SFT job reports of its losses, over checkpoints and resumes     *)
(* (shaft/training/sft_trainer.py).  HF adds every loss to a window that   *)
(* each log empties, and forgets the window when it resumes; Shaft stores  *)
(* it in the checkpoint, counts it provisionally in the total, and hands   *)
(* it back through the result of the first training_step.                  *)
(*                                                                         *)
(* Losses are integers, and so are the quotients of them that HF forms.    *)
(* The ghost `ref' is HF's state in a run that was never interrupted.      *)
(***************************************************************************)
EXTENDS Integers, FiniteSets, Functions

CONSTANTS Reporters,
          Losses,         \* of a microbatch
          GA,             \* microbatches of a step
          MaxReportStep,  \* of the training
          MaxReportJobs   \* bound: the job is started that often

ASSUME LossAssumption == Losses \subseteq Nat /\ IsFiniteSet(Reporters) /\ Reporters # {}

NonePending == -1      \* no pending loss
NaN == -2       \* a loss that is not finite

VARIABLES jobs,         \* jobs begun
          reporting,    \* "off", "run" or "done"
          global,       \* state.global_step
          micro,        \* microbatches of the step so far
          tr,           \* rank -> HF's loss window
          total,        \* rank -> _total_loss_scalar
          last,         \* _globalstep_last_logged
          aux,          \* rank -> the sum of its auxiliary losses since the last log
          pending,      \* rank -> _shaft_pending_reporting_loss
          provisional,  \* rank -> _shaft_pending_total_provisional
          start,        \* _shaft_initial_global_step
          baseline,     \* _shaft_resume_loss_baseline, of all ranks
          saved,        \* the newest checkpoint
          ref,          \* ghost
          began,        \* ghost: ref's losses when the job started
          reported      \* the final train_loss: numerator of all ranks, or 0

reportingVars == <<jobs, reporting, global, micro, tr, total, last, aux, pending, provisional, start,
          baseline, saved, ref, began, reported>>

Zero == [r \in Reporters |-> 0]
Nobody == [r \in Reporters |-> NonePending]
World == Cardinality(Reporters)
Across(f) == FoldFunction(+, 0, f)
Plus(f, g) == [r \in Reporters |-> f[r] + g[r]]

FreshLosses == [tr |-> Zero, total |-> Zero, last |-> 0, aux |-> Zero]

-----------------------------------------------------------------------------
ReportingInit ==
    /\ jobs = 0 /\ reporting = "off" /\ global = 0 /\ micro = 0
    /\ tr = Zero /\ total = Zero /\ last = 0 /\ aux = Zero
    /\ pending = Nobody /\ provisional = Nobody
    /\ start = 0 /\ baseline = 0
    /\ saved = [step |-> 0, tr |-> Zero, total |-> Zero, last |-> 0, aux |-> Zero, ref |-> FreshLosses]
    /\ ref = FreshLosses /\ began = 0 /\ reported = 0

\* HF clears its state, then on_train_begin restores what the checkpoint stored.
StartReporting ==
    /\ reporting = "off" /\ jobs < MaxReportJobs
    /\ jobs' = jobs + 1 /\ reporting' = "run"
    /\ global' = saved.step /\ micro' = 0 /\ start' = saved.step
    /\ tr' = Zero /\ reported' = 0
    /\ total' = Plus(saved.total, saved.tr)
    /\ last' = saved.last /\ aux' = saved.aux
    /\ pending' = IF saved.step = 0 THEN Nobody ELSE saved.tr
    /\ provisional' = pending'
    /\ baseline' = Across(total')
    /\ ref' = saved.ref /\ began' = Across(Plus(saved.ref.total, saved.ref.tr))
    /\ UNCHANGED saved

\* The total without what was added to it for a step that did not run yet.
Settled == [r \in Reporters |-> IF provisional[r] = NonePending THEN total[r] ELSE total[r] - provisional[r]]

\* HF adds a loss to a window, or if it is not finite the window's mean.
Add(window, loss, since) ==
    window + (IF loss = NaN THEN window \div (1 + global - since) ELSE loss)

\* Mutant: the pending loss takes no part in the mean that stands for a NaN.
ResultUnfiltered(r, loss) ==
    IF pending[r] = NonePending THEN loss
    ELSE IF loss = NaN THEN pending[r]
    ELSE pending[r] + loss

\* The result of training_step: the loss, with the pending one before it.
Result(r, loss) ==
    IF pending[r] = NonePending THEN loss
    ELSE IF loss = NaN THEN pending[r] + pending[r] \div (1 + global - last)
    ELSE pending[r] + loss

Microstep(losses) ==
    /\ reporting = "run" /\ global < MaxReportStep /\ micro < GA
    /\ micro' = micro + 1
    /\ tr' = [r \in Reporters |-> Add(tr[r], Result(r, losses[r]), last)]
    /\ total' = Settled
    /\ pending' = Nobody /\ provisional' = Nobody
    /\ aux' = [r \in Reporters |-> aux[r] + 1]
    /\ ref' = [ref EXCEPT !.tr = [r \in Reporters |-> Add(@[r], losses[r], ref.last)],
                          !.aux = [r \in Reporters |-> @[r] + 1]]
    /\ UNCHANGED <<jobs, reporting, global, last, start, baseline, saved, began, reported>>

\* HF's logging of a state at step s: the mean over the ranks goes from window to total.
Logged(state, s) ==
    [state EXCEPT !.total = [r \in Reporters |-> @[r] + Across(state.tr) \div World],
                  !.tr = Zero, !.last = s, !.aux = Zero]

\* The window _maybe_log_save_evaluate hands to HF.
Window == [r \in Reporters |-> IF pending[r] = NonePending THEN tr[r] ELSE tr[r] + pending[r]]

\* _maybe_log_save_evaluate after an optimizer step, or after an epoch's last one; the
\* callbacks decide whether it logs and saves.
Boundary(log, save) ==
    /\ reporting = "run" /\ micro \in {0, GA}
    /\ LET s == IF micro = GA THEN global + 1 ELSE global
           mine == [tr |-> Window, total |-> Settled, last |-> last, aux |-> aux]
           after == IF log /\ s > last THEN Logged(mine, s) ELSE mine
       IN  /\ global' = s
           /\ ref' = IF log /\ s > ref.last THEN Logged(ref, s) ELSE ref
           /\ tr' = after.tr /\ total' = after.total /\ last' = after.last /\ aux' = after.aux
           /\ saved' = IF save /\ s > 0
                       THEN [step |-> s, tr |-> after.tr, total |-> after.total,
                             last |-> after.last, aux |-> after.aux, ref |-> ref']
                       ELSE saved
    /\ micro' = 0
    /\ pending' = Nobody /\ provisional' = Nobody
    /\ UNCHANGED <<jobs, reporting, start, baseline, began, reported>>

\* The end of the training: HF adds the window to the total, which is its train_loss; a
\* resumed job that ran a step reports what it ran.
FinishTraining ==
    /\ reporting = "run" /\ micro = 0
    /\ reporting' = "done"
    /\ total' = Plus(total, tr)
    /\ reported' = IF start > 0 /\ global > start THEN Across(total') - baseline ELSE Across(total')
    /\ UNCHANGED <<jobs, global, micro, tr, last, aux, pending, provisional, start, baseline, saved,
                   ref, began>>

Kill ==
    /\ reporting = "run"
    /\ reporting' = "off"
    /\ UNCHANGED <<jobs, global, micro, tr, total, last, aux, pending, provisional, start, baseline,
                   saved, ref, began, reported>>

\* After its end a job can be started again with the newest checkpoint.
Leave ==
    /\ reporting = "done"
    /\ reporting' = "off"
    /\ UNCHANGED <<jobs, global, micro, tr, total, last, aux, pending, provisional, start, baseline,
                   saved, ref, began, reported>>

ReportingNext ==
    \/ StartReporting \/ FinishTraining \/ Kill \/ Leave
    \/ \E losses \in [Reporters -> Losses \cup {NaN}] : Microstep(losses)
    \/ \E log, save \in BOOLEAN : Boundary(log, save)

ReportingSpec == ReportingInit /\ [][ReportingNext]_reportingVars

-----------------------------------------------------------------------------
(* Properties *)

\* However often the training was killed and resumed, what is logged next is what an
\* uninterrupted run would log, and the final train_loss is that of the steps the job has
\* run itself; a job that ran none reports the whole training.
ReportedAsUninterrupted ==
    /\ reporting = "run" /\ pending = Nobody =>
           [tr |-> tr, total |-> total, last |-> last, aux |-> aux] = ref
    /\ reporting = "done" =>
           reported = Across(Plus(ref.total, ref.tr))
                      - (IF global > start THEN began ELSE 0)
=============================================================================
