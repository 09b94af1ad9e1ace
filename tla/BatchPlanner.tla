----------------------------- MODULE BatchPlanner ------------------------------
(***************************************************************************)
(* ShaftBatchPlanner of data/dynamic_batching.py: one call plans the       *)
(* batches of every data rank for one microstep, out of a window of the    *)
(* next samples of the schedule.  Grouping "length" is in LengthGrouping;  *)
(* grouping "bounded_cost" is here, with its greedy placement and its      *)
(* search.  Loads and distances are the code's fractions times             *)
(* MaxTokens * MaxPatches, so that they are integers.  Where the code      *)
(* breaks ties by a hash of the seed, the model allows every order.        *)
(*                                                                         *)
(* Operators marked Mutant are faulty variants of the next one (README).   *)
(***************************************************************************)
EXTENDS LengthGrouping

CONSTANTS
    BufferSize,   \* buffer_size
    MaxTokens,    \* max_tokens_per_microbatch, of bounded_cost only
    Modes,        \* what a run may be configured with, see below
    Costs,        \* costs a sample may have
    MaxMicrostep  \* bound: microsteps planned

\* The buffer holds one complete minimum global microbatch (ShaftBatchPlannerSpec).
ASSUME SpecAssumption ==
    /\ BufferSize \in Nat /\ MaxTokens \in Nat \ {0}
    /\ Modes \subseteq {"fixed", "token_budget", "length", "packed"}
    /\ BufferSize >= World /\ (Modes \subseteq {"token_budget"} \/ BufferSize >= Global)
ASSUME CostAssumption == Costs \subseteq [tokens : Nat, patches : Nat]
ASSUME BoundAssumption == MaxMicrostep \in Nat

Sample == [id : Nat, tokens : Nat, patches : Nat]

VARIABLES
    mode,          \* spec.cardinality of bounded_cost; "length", or "packed" if it packs
    microstep,     \* state.global_microstep
    next_draw_id,  \* state.next_draw_id
    buffer,        \* state.buffer
    emitted,       \* draws of all plans (the code keeps their number, emitted_samples)
    window,        \* what the last call chose from: its buffer once filled
    plan,          \* rank_microbatches of the last plan, the packs of each rank
    search,        \* how the last call's search for a full plan ended
    raised         \* the last call raised

vars == <<mode, microstep, next_draw_id, buffer, emitted, window, plan, search, raised>>

\* local_pack_count_bounds
LocalMin == IF mode = "token_budget" THEN 1 ELSE Local

Bounded == mode \in {"fixed", "token_budget"}

Init ==
    /\ mode \in Modes
    /\ microstep = 0 /\ next_draw_id = 0 /\ buffer = <<>>
    /\ emitted = {} /\ window = <<>> /\ plan = <<>> /\ search = "none" /\ raised = FALSE

-----------------------------------------------------------------------------
(***************************************************************************)
(* Costs.                                                                  *)
(***************************************************************************)
Padded(B) == IF B = {} THEN 0 ELSE Cardinality(B) * Max({s.tokens : s \in B})

\* _validate_sample_cost
Oversize(c) ==
    \/ Bounded /\ c.tokens * LocalMin > MaxTokens
    \/ ~Bounded /\ c.tokens > MaxSequence
    \/ c.patches > MaxPatches

\* Mutant: the patches of the batch are not added up.
FitsTokens(B) ==
    /\ Cardinality(B) <= Local
    /\ Padded(B) <= MaxTokens
    /\ \A s \in B : s.patches <= MaxPatches

\* _fits, and _batch_fits of a batch of Local samples
Fits(B) ==
    /\ Cardinality(B) <= Local
    /\ Padded(B) <= MaxTokens
    /\ PatchSum(B) <= MaxPatches

\* _sample_load, _sample_distance
Load(s)        == s.tokens * MaxPatches + s.patches * MaxTokens
Gap(m, n)      == IF m < n THEN n - m ELSE m - n
Distance(s, t) == Gap(s.tokens, t.tokens) * MaxPatches + Gap(s.patches, t.patches) * MaxTokens

\* _placement_score of the batch of rank r
Score(B, r) ==
    <<Padded(B) * MaxPatches + PatchSum(B) * MaxTokens, Padded(B) - Useful(B), Cardinality(B), r>>
-----------------------------------------------------------------------------
(***************************************************************************)
(* The fast path: every rank starts with an anchor, and the other samples, *)
(* the largest first, go where the load stays smallest.                    *)
(***************************************************************************)
\* Mutant: the anchors are the largest samples of the window.
AnchorsByLoad(w) ==
    LET heavier(s, t) == Before(<<-Load(s), s.id>>, <<-Load(t), t.id>>)
    IN  SubSeq(Sorted(ToSet(w), heavier), 1, World)

\* The oldest sample and the World - 1 closest to it.
Anchors(w) ==
    LET closer(s, t) == Before(<<Distance(w[1], s), s.id>>, <<Distance(w[1], t), t.id>>)
    IN  <<w[1]>> \o SubSeq(Sorted(ToSet(Tail(w)), closer), 1, World - 1)

FallingLoad(S) ==
    {order \in SetToSeqs(S) :
        \A m, n \in 1 .. Len(order) : m < n => Load(order[m]) >= Load(order[n])}

Selected(bins) == UNION {bins[r] : r \in DataRanks}

Place(bins, s) ==
    LET open == {r \in DataRanks : Fits(bins[r] \cup {s})}
        best == CHOOSE r \in open : \A o \in open \ {r} :
                    Before(Score(bins[r] \cup {s}, r), Score(bins[o] \cup {s}, o))
    IN  IF open = {} \/ Cardinality(Selected(bins)) = Global THEN bins
        ELSE [bins EXCEPT ![best] = @ \cup {s}]

\* The plans of the fast path.
Greedy(w) ==
    LET anchors == Anchors(w)
        seeds   == [r \in DataRanks |-> {anchors[r]}]
    IN  {FoldLeft(Place, seeds, order) : order \in FallingLoad(ToSet(w) \ Selected(seeds))}

Complete(bins) == \A r \in DataRanks : Cardinality(bins[r]) = Local

-----------------------------------------------------------------------------
(***************************************************************************)
(* The slow path: _find_full_partition looks for a plan that fills every   *)
(* rank.  It can give up after a number of nodes.                          *)
(***************************************************************************)
SmallestSum(S, n) == Min({PatchSum(T) : T \in kSubset(n, S)})

\* Mutant: one companion too many is counted.
MayFillOver(w) ==
    /\ Len(w) >= Global
    /\ w[1].tokens * Local <= MaxTokens
    /\ w[1].patches + SmallestSum(ToSet(Tail(w)), Local) <= MaxPatches

\* What is checked before the search.
MayFill(w) ==
    /\ Len(w) >= Global
    /\ w[1].tokens * Local <= MaxTokens
    /\ w[1].patches + SmallestSum(ToSet(Tail(w)), Local - 1) <= MaxPatches

First(B) == Min({s.id : s \in B})

\* The plans the search goes through; the model takes any of them, the code the first.
Partitions(w) ==
    {bins \in [DataRanks -> {B \in kSubset(Local, ToSet(w)) : Fits(B)}] :
        /\ w[1] \in bins[1]
        /\ \A r, o \in DataRanks : r < o => /\ bins[r] \cap bins[o] = {}
                                            /\ First(bins[r]) < First(bins[o])}

-----------------------------------------------------------------------------
(***************************************************************************)
(* next_global_microbatch                                                  *)
(***************************************************************************)
Missing == BufferSize - Len(buffer)

Refilled(costs) ==
    buffer \o [n \in 1 .. Missing |-> [id      |-> next_draw_id + n - 1,
                                       tokens  |-> costs[n].tokens,
                                       patches |-> costs[n].patches]]

\* Mutant: as many samples as were taken are dropped from the front.
RemainingTail(w, taken) == SubSeq(w, Cardinality(taken) + 1, Len(w))

Remaining(w, taken) ==
    FoldLeft(LAMBDA kept, s : IF s \in taken THEN kept ELSE Append(kept, s), <<>>, w)

Emit(w, packs, taken) ==
    /\ plan' = packs
    /\ microstep' = microstep + 1
    /\ next_draw_id' = next_draw_id + Missing
    /\ buffer' = Remaining(w, taken)
    /\ emitted' = emitted \cup {s.id : s \in taken}
    /\ raised' = FALSE

\* A sample to a pack (ShaftLocalMicroBatchPlan.from_segments).
Advance(w, bins) == Emit(w, [r \in DataRanks |-> {{s} : s \in bins[r]}], Selected(bins))

\* An exception leaves the planner's state as it was; the run ends.
Raise ==
    /\ raised' = TRUE
    /\ UNCHANGED <<microstep, next_draw_id, buffer, emitted, plan>>

Searching(w, bins) == ~ Complete(bins) /\ MayFill(w)

\* bins is the fast path's plan; with fixed cardinality only a complete one will do.
Settle(w, bins) ==
    IF mode = "fixed" /\ ~ Complete(bins) THEN Raise ELSE Advance(w, bins)

PlanFast(w, bins) ==
    /\ ~ Searching(w, bins) /\ Settle(w, bins)
    /\ search' = "none"

PlanPartition(w, bins) ==
    /\ Searching(w, bins)
    /\ \E full \in Partitions(w) : Advance(w, full)
    /\ search' = "found"

PlanWithoutPartition(w, bins) ==
    /\ Searching(w, bins) /\ Partitions(w) = {}
    /\ Settle(w, bins)
    /\ search' = "failed"

PlanAfterGivingUp(w, bins) ==
    /\ Searching(w, bins) /\ Settle(w, bins)
    /\ search' = "gave_up"

\* _next_length_microbatch: packs that fit no assignment raise, and so do too few of them.
PlanLength(w) ==
    /\ IF LengthPlans(w, mode = "packed") = {} THEN Raise
       ELSE \E dealt \in LengthPlans(w, mode = "packed") :
                Emit(w, dealt, UNION UNION {dealt[r] : r \in DataRanks})
    /\ search' = "none"

\* The search for an assignment has a limit of nodes as well, and none to fall back on.
PlanLengthGivingUp ==
    /\ Raise
    /\ search' = "gave_up"

\* A new sample alone is above a limit.
RefuseSample(costs) ==
    /\ \E n \in 1 .. Missing : Oversize(costs[n])
    /\ Raise /\ window' = <<>> /\ search' = "none"

PlanWindow(costs) ==
    /\ \A n \in 1 .. Missing : ~ Oversize(costs[n])
    /\ window' = Refilled(costs)
    /\ \/ /\ Bounded
          /\ \E bins \in Greedy(window') :
                \/ PlanFast(window', bins)
                \/ PlanPartition(window', bins)
                \/ PlanWithoutPartition(window', bins)
                \/ PlanAfterGivingUp(window', bins)
       \/ ~Bounded /\ (PlanLength(window') \/ PlanLengthGivingUp)

Next ==
    /\ ~ raised /\ microstep < MaxMicrostep /\ UNCHANGED mode
    /\ \E costs \in [1 .. Missing -> Costs] : RefuseSample(costs) \/ PlanWindow(costs)

Spec == Init /\ [][Next]_vars

-----------------------------------------------------------------------------
(***************************************************************************)
(* Properties.                                                             *)
(***************************************************************************)
\* The shape of the state; between two calls the buffer has room for the samples of one.
TypeOK ==
    /\ mode \in Modes
    /\ microstep \in 0 .. MaxMicrostep /\ next_draw_id \in Nat
    /\ buffer \in Seq(Sample) /\ Len(buffer) <= BufferSize - World * LocalMin
    /\ emitted \subseteq Nat
    /\ window \in Seq(Sample)
    /\ plan = <<>> \/ plan \in [DataRanks -> SUBSET SUBSET Sample]
    /\ search \in {"none", "found", "failed", "gave_up"} /\ raised \in BOOLEAN

\* No draw is lost or repeated, and the waiting ones stay in their order: the draws
\* of the plans and of the buffer are those below the cursor, each one once.  These
\* are the conditions a resumed ShaftBatchPlanningState must meet.
DrawsConserved ==
    LET waiting == {buffer[n].id : n \in 1 .. Len(buffer)}
    IN  /\ emitted \cup waiting = 0 .. next_draw_id - 1
        /\ emitted \cap waiting = {}
        /\ \A m, n \in 1 .. Len(buffer) : m < n => buffer[m].id < buffer[n].id

\* Budgets are hard limits: a local batch is never empty nor above a limit, padded or
\* packed, ranks share no sample, and unless the cardinality is a budget every rank has
\* all its packs.
WithinBudget ==
    plan # <<>> => \A r \in DataRanks :
        LET batch == UNION plan[r]
        IN  /\ Cardinality(plan[r]) \in LocalMin .. Local
            /\ {} \notin plan[r]
            /\ IF Bounded THEN Padded(batch) <= MaxTokens
               ELSE \A pack \in plan[r] : Useful(pack) <= MaxSequence
            /\ PatchSum(batch) <= MaxPatches
            /\ \A o \in DataRanks : \A p \in plan[o], q \in plan[r] :
                   p # q \/ o # r => p \cap q = {}

\* Full batches for every rank, one of them with the oldest sample.
FullPlanExists(w) ==
    \E bins \in [DataRanks -> kSubset(Local, ToSet(w))] :
        /\ \E r \in DataRanks : w[1] \in bins[r]
        /\ \A r, o \in DataRanks : r # o => bins[r] \cap bins[o] = {}
        /\ \A r \in DataRanks : Padded(bins[r]) <= MaxTokens /\ PatchSum(bins[r]) <= MaxPatches

\* The shortcuts cost nothing: whenever the window has a full plan a call with grouping
\* bounded_cost returns a full plan, and does not raise, unless the search gave up.
FullWhenPossible ==
    Bounded /\ window # <<>> /\ search # "gave_up" /\ FullPlanExists(window) =>
        ~ raised /\ Complete(plan)

Stream == INSTANCE BatchStream
            WITH Window <- BufferSize, Least <- World, Most <- BufferSize, step <- microstep

\* The plans reorder the schedule within the window only and always take its oldest
\* sample.
ImplementsStream == Stream!Spec
=============================================================================
