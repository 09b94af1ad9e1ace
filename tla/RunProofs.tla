------------------------------- MODULE RunProofs -------------------------------
(***************************************************************************)
(* Two loops that run to an end.  A stage of the inference pipeline        *)
(* (InferRun): what it still does once its budget is used up, and after a  *)
(* cancellation, for any budgets, retries and back-offs.  And training by  *)
(* epochs (EpochSampler): every sample has its share of each epoch, for    *)
(* any setup that the samplers accept.                                     *)
(***************************************************************************)
EXTENDS InferRun, EpochSampler, FoldLemmas

-----------------------------------------------------------------------------
(* The inference pipeline *)

\* Where a stage is at work, but for the codec, which nothing interrupts.
Working == {"attempt", "engine", "answered", "backoff"}

Shape ==
    /\ config \in [Stage -> Config] /\ stage \in Stage
    /\ event \in {"none", "clear", "set"}
    /\ doing \in Working \cup {"start", "decoded", "returned", "raised", "cancelled"}
    /\ now \in Nat /\ deadline \in Nat /\ wake \in Nat
    /\ outcome \in [Stage -> {"none", "ok", "error"}]
    /\ began \in [Stage -> Nat]

Budget(s) == began[s] + config[s].timeout

\* The stage at work has the deadline of its budget, and a back-off ends by it, or at once.
OnTime ==
    /\ doing \in Working \cup {"decoded"} =>
           deadline = IF config[stage].timeout = 0 THEN 0 ELSE Budget(stage)
    /\ doing = "backoff" /\ deadline > 0 => wake <= deadline \/ wake <= now

InferInv == Shape /\ OnTime

\* There is a stage.
Staged == Configs \subseteq Config /\ Stages \in Nat \ {0}

LEMMA Fields ==
    ASSUME Shape, NEW s \in Stage
    PROVE  config[s].timeout \in Nat /\ config[s].backoff \in Nat /\ began[s] \in Nat
  <1>1. config[s] \in Config
    BY DEF Shape
  <1> QED
    BY <1>1 DEF Shape, Config

\* A stage that ends leaves the deadline to the next one.
LEMMA EndStageKeeps ==
    ASSUME Staged, InferInv, NEW result \in {"ok", "error"}, EndStage(result)
    PROVE  InferInv'
  <1> USE DEF Working
  <1>0. /\ UNCHANGED <<config, event, now, deadline, wake, began>>
        /\ outcome' = [outcome EXCEPT ![stage] = result]
        /\ doing' \in {"raised", "returned", "start"}
        /\ \/ doing' \in {"raised", "returned"} /\ stage' = stage
           \/ doing' = "start" /\ stage # Stages /\ stage' = stage + 1
    BY DEF EndStage
  <1>1. Shape /\ stage \in Stage /\ Stages \in Nat
    BY DEF InferInv, Shape, Staged
  <1>2. stage' \in Stage
    BY <1>0, <1>1 DEF Stage
  <1>3. Shape'
    BY <1>0, <1>1, <1>2 DEF Shape
  <1>4. OnTime'
    BY <1>0 DEF OnTime
  <1> QED
    BY <1>3, <1>4 DEF InferInv

\* The pipeline goes on within a stage.
Within ==
    /\ doing \in Working \cup {"decoded"}
    /\ UNCHANGED <<config, now, stage, deadline, outcome, began>>
    /\ event' \in {"none", "clear", "set"} /\ wake' \in Nat

LEMMA WithinKeeps ==
    ASSUME InferInv, Within, doing' \in Working \cup {"decoded", "cancelled"},
           doing' = "backoff" /\ deadline > 0 => wake' <= deadline \/ wake' <= now
    PROVE  InferInv'
  <1> USE DEF Working
  <1>1. Shape'
    BY DEF Within, InferInv, Shape
  <1>2. OnTime'
    BY DEF Within, InferInv, OnTime, Budget
  <1> QED
    BY <1>1, <1>2 DEF InferInv

\* The back-off of a retry ends by the deadline; one that begins after it, at once.
LEMMA RetryKeeps ==
    ASSUME Staged, InferInv, Retry, doing \in {"engine", "decoded"}
    PROVE  InferInv'
  <1> USE DEF Working
  <1>1. CASE EndStage("error")
    BY <1>1, EndStageKeeps
  <1>2. CASE ~EndStage("error")
    <2>1. now \in Nat /\ deadline \in Nat /\ config[stage].backoff \in Nat /\ wake \in Nat
      BY Fields DEF InferInv, Shape
    <2>2. /\ UNCHANGED <<config, event, now, stage, deadline, outcome, began>>
          /\ \/ doing' = "attempt" /\ wake' = wake
             \/ /\ doing' = "backoff"
                /\ wake' = now + Smaller(config[stage].backoff,
                                         IF deadline = 0 THEN config[stage].backoff
                                         ELSE IF now < deadline THEN deadline - now ELSE 0)
      BY <1>2 DEF Retry, This
    <2>3. doing' = "backoff" =>
             wake' \in Nat /\ (deadline > 0 => wake' <= deadline \/ wake' <= now)
      BY <2>1, <2>2 DEF Smaller
    <2>4. Within
      BY <2>1, <2>2, <2>3 DEF Within, InferInv, Shape
    <2> QED
      BY <2>2, <2>3, <2>4, WithinKeeps
  <1> QED
    BY <1>1, <1>2

\* Going on, or to the end, without anything else.
LEMMA GotoKeeps ==
    ASSUME InferInv, NEW p \in Working \cup {"decoded", "cancelled"}, Goto(p),
           doing \in Working \cup {"decoded"}, p # "backoff"
    PROVE  InferInv'
  <1>1. Within /\ doing' = p
    BY DEF Goto, Within, InferInv, Shape
  <1> QED
    BY <1>1, WithinKeeps

LEMMA StartStageKeeps ==
    ASSUME Staged, InferInv, StartStage
    PROVE  InferInv'
  <1> USE DEF Working
  <1>0. /\ doing = "start" /\ doing' = "attempt"
        /\ deadline' = IF config[stage].timeout = 0 THEN 0 ELSE now + config[stage].timeout
        /\ began' = [began EXCEPT ![stage] = now]
        /\ UNCHANGED <<config, event, now, stage, wake, outcome>>
    BY DEF StartStage, This
  <1>1. stage \in Stage /\ now \in Nat /\ config[stage].timeout \in Nat /\ began \in [Stage -> Nat]
    BY Fields DEF InferInv, Shape
  <1>2. began' \in [Stage -> Nat] /\ began'[stage] = now
    BY <1>0, <1>1
  <1>3. Shape'
    BY <1>0, <1>1, <1>2 DEF InferInv, Shape
  <1>4. OnTime'
    BY <1>0, <1>1, <1>2 DEF OnTime, Budget
  <1> QED
    BY <1>3, <1>4 DEF InferInv

LEMMA PipelineKeeps ==
    ASSUME Staged, InferInv, Pipeline
    PROVE  InferInv'
  <1> USE DEF Working
  <1>1. CASE StartStage
    BY <1>1, StartStageKeeps
  <1>2. CASE Attempt
    BY <1>2, GotoKeeps, EndStageKeeps DEF Attempt, Checkpoint
  <1>3. ASSUME NEW good \in BOOLEAN, Decode(good)
        PROVE  InferInv'
    <2>1. CASE Goto("cancelled")
      BY <1>3, <2>1, GotoKeeps DEF Decode
    <2>2. CASE EndStage("error")
      BY <2>2, EndStageKeeps
    <2>3. CASE doing' = "decoded" /\ UNCHANGED <<config, event, now, stage, deadline, wake, outcome, began>>
      <3>1. Within
        BY <1>3, <2>3 DEF Decode, Within, InferInv, Shape
      <3> QED
        BY <2>3, <3>1, WithinKeeps
    <2> QED
      BY <1>3, <2>1, <2>2, <2>3 DEF Decode, Checkpoint
  <1>4. CASE Finish
    BY <1>4, GotoKeeps, EndStageKeeps, RetryKeeps DEF Finish, Checkpoint
  <1>5. CASE Wake
    <2>1. CASE Goto("cancelled")
      BY <1>5, <2>1, GotoKeeps DEF Wake
    <2>2. CASE EndStage("error")
      BY <2>2, EndStageKeeps
    <2>3. CASE doing' = "attempt" /\ UNCHANGED <<config, event, now, stage, deadline, wake, outcome, began>>
      <3>1. Within
        BY <1>5, <2>3 DEF Wake, Within, InferInv, Shape
      <3> QED
        BY <2>3, <3>1, WithinKeeps
    <2> QED
      BY <1>5, <2>1, <2>2, <2>3 DEF Wake, Checkpoint
  <1> QED
    BY <1>1, <1>2, <1>3, <1>4, <1>5 DEF Pipeline

LEMMA EngineKeeps ==
    ASSUME Staged, InferInv, Engine
    PROVE  InferInv'
  <1> USE DEF Working
  <1>1. CASE Answer
    BY <1>1, GotoKeeps DEF Answer
  <1>2. CASE EngineTimesOut
    BY <1>2, EndStageKeeps DEF EngineTimesOut
  <1>3. CASE EngineCancelled
    BY <1>3, GotoKeeps DEF EngineCancelled
  <1>4. CASE EngineRaises
    BY <1>4, RetryKeeps DEF EngineRaises
  <1> QED
    BY <1>1, <1>2, <1>3, <1>4 DEF Engine

LEMMA TickKeeps ==
    ASSUME InferInv, Tick
    PROVE  InferInv'
  <1>0. /\ UNCHANGED <<config, event, stage, doing, deadline, wake, outcome, began>>
        /\ now' = now + 1 /\ (doing = "backoff" => now < wake)
        /\ now \in Nat /\ deadline \in Nat /\ wake \in Nat
    BY DEF Tick, InferInv, Shape
  <1>1. Shape'
    BY <1>0 DEF InferInv, Shape
  <1>2. OnTime'
    BY <1>0 DEF InferInv, OnTime, Budget
  <1> QED
    BY <1>1, <1>2 DEF InferInv

LEMMA InferKept ==
    ASSUME Staged, InferInv, [InferNext]_inferVars
    PROVE  InferInv'
  <1>1. CASE Pipeline \/ Engine \/ Tick
    BY <1>1, PipelineKeeps, EngineKeeps, TickKeeps
  <1>2. CASE Cancel
    <2>0. /\ event' = "set"
          /\ UNCHANGED <<config, now, stage, doing, deadline, wake, outcome, began>>
      BY <1>2 DEF Cancel
    <2>1. Shape'
      BY <2>0 DEF InferInv, Shape
    <2>2. OnTime'
      BY <2>0 DEF InferInv, OnTime, Budget
    <2> QED
      BY <2>1, <2>2 DEF InferInv
  <1>3. CASE UNCHANGED inferVars
    BY <1>3 DEF inferVars, InferInv, Shape, OnTime, Budget
  <1> QED
    BY <1>1, <1>2, <1>3 DEF InferNext

LEMMA InferStart ==
    ASSUME Staged, InferInit
    PROVE  InferInv
  <1>1. stage \in Stage /\ config \in [Stage -> Config]
    BY DEF Staged, InferInit, Stage
  <1>2. Shape
    BY <1>1 DEF InferInit, Shape
  <1>3. OnTime
    BY DEF InferInit, OnTime, Working
  <1> QED
    BY <1>2, <1>3 DEF InferInv

\* What BudgetKept says of a step.
LateStep ==
    config[stage].timeout > 0 /\ now >= began[stage] + config[stage].timeout =>
        /\ doing # "engine" => doing' # "engine"
        /\ doing = "backoff" => now' = now
        /\ outcome'[stage] = "ok" => outcome[stage] = "ok"

LEMMA ExpiredStep == ASSUME InferInv, InferNext PROVE LateStep
  <1> SUFFICES ASSUME config[stage].timeout > 0, now >= began[stage] + config[stage].timeout
               PROVE  /\ doing # "engine" => doing' # "engine"
                      /\ doing = "backoff" => now' = now
                      /\ outcome'[stage] = "ok" => outcome[stage] = "ok"
    BY DEF LateStep
  <1> USE DEF Working
  <1>0. /\ stage \in Stage /\ now \in Nat /\ deadline \in Nat /\ wake \in Nat
        /\ config[stage].timeout \in Nat /\ began[stage] \in Nat /\ outcome \in [Stage -> {"none", "ok", "error"}]
    BY Fields DEF InferInv, Shape
  <1>1. doing \in Working \cup {"decoded"} => Expired /\ deadline = began[stage] + config[stage].timeout
    BY <1>0 DEF InferInv, OnTime, Budget, Expired
  <1>2. ASSUME EndStage("error")
        PROVE  doing' # "engine" /\ now' = now /\ (outcome'[stage] = "ok" => outcome[stage] = "ok")
    BY <1>0, <1>2 DEF EndStage
  <1>3. ASSUME Retry
        PROVE  doing' # "engine" /\ now' = now /\ (outcome'[stage] = "ok" => outcome[stage] = "ok")
    BY <1>2, <1>3 DEF Retry
  <1>4. ASSUME Goto("cancelled") \/ Goto("answered")
        PROVE  doing' # "engine" /\ now' = now /\ outcome' = outcome
    BY <1>4 DEF Goto
  <1>5. CASE Attempt \/ (\E good \in BOOLEAN : Decode(good)) \/ Finish \/ Wake
    BY <1>1, <1>2, <1>4, <1>5 DEF Attempt, Decode, Finish, Wake, Checkpoint
  <1>6. CASE StartStage
    BY <1>6 DEF StartStage
  <1>7. CASE Engine
    BY <1>2, <1>3, <1>4, <1>7 DEF Engine, Answer, EngineTimesOut, EngineCancelled, EngineRaises
  <1>8. CASE Cancel
    BY <1>8 DEF Cancel
  <1>9. CASE Tick
    <2>1. doing' = doing /\ outcome' = outcome
      BY <1>9 DEF Tick
    <2>2. doing # "backoff"
      BY <1>0, <1>1, <1>9 DEF Tick, InferInv, OnTime
    <2> QED
      BY <2>1, <2>2
  <1> QED
    BY <1>5, <1>6, <1>7, <1>8, <1>9 DEF InferNext, Pipeline

\* From timeout_seconds after its start a stage calls no engine, waits in no back-off, and
\* takes no result, of whatever its engine or codec was still doing then
\* (ShaftInferExecutionControl and the retry loop of ShaftInferPipeline).
THEOREM StagesKeepTheirBudget ==
    ASSUME Configs \subseteq Config, Stages \in Nat \ {0}
    PROVE  InferSpec => BudgetKept
  <1>0. Staged
    BY DEF Staged
  <1>1. InferInit => InferInv
    BY <1>0, InferStart
  <1>2. InferInv /\ [InferNext]_inferVars => InferInv'
    BY <1>0, InferKept
  <1>3. InferInv /\ [InferNext]_inferVars => [LateStep]_inferVars
    BY ExpiredStep
  <1> QED
    BY <1>1, <1>2, <1>3, PTL DEF InferSpec, BudgetKept, LateStep

LEMMA CancelledStep ==
    ASSUME Shape, InferNext, event = "set"
    PROVE  /\ doing # "engine" => doing' # "engine"
           /\ \A s \in Stage : outcome'[s] = "ok" => outcome[s] = "ok"
  <1>1. ASSUME EndStage("error")
        PROVE  doing' # "engine" /\ \A s \in Stage : outcome'[s] = "ok" => outcome[s] = "ok"
    BY <1>1 DEF EndStage, Shape
  <1>2. ASSUME Retry
        PROVE  doing' # "engine" /\ \A s \in Stage : outcome'[s] = "ok" => outcome[s] = "ok"
    BY <1>1, <1>2 DEF Retry
  <1>3. ASSUME Goto("cancelled") \/ Goto("answered")
        PROVE  doing' # "engine" /\ outcome' = outcome
    BY <1>3 DEF Goto
  <1>4. CASE Attempt \/ (\E good \in BOOLEAN : Decode(good)) \/ Finish \/ Wake
    BY <1>3, <1>4 DEF Attempt, Decode, Finish, Wake, Checkpoint
  <1>5. CASE StartStage
    BY <1>5 DEF StartStage
  <1>6. CASE Engine
    BY <1>1, <1>2, <1>3, <1>6 DEF Engine, Answer, EngineTimesOut, EngineCancelled, EngineRaises
  <1>7. CASE Cancel \/ Tick
    BY <1>7 DEF Cancel, Tick
  <1> QED
    BY <1>4, <1>5, <1>6, <1>7 DEF InferNext, Pipeline

\* Once the caller's event is set no engine is called and no stage succeeds any more: every
\* call and every result comes after a checkpoint of ShaftInferExecutionControl.
THEOREM NothingStartsAfterCancel ==
    ASSUME Configs \subseteq Config, Stages \in Nat \ {0}
    PROVE  InferSpec => NothingAfterCancel
  <1>0. Staged
    BY DEF Staged
  <1>1. InferInit => InferInv
    BY <1>0, InferStart
  <1>2. InferInv /\ [InferNext]_inferVars => InferInv'
    BY <1>0, InferKept
  <1>3. InferInv /\ [InferNext]_inferVars =>
           [event = "set" => /\ doing # "engine" => doing' # "engine"
                             /\ \A s \in Stage : outcome'[s] = "ok" => outcome[s] = "ok"]_inferVars
    BY CancelledStep DEF InferInv
  <1> QED
    BY <1>1, <1>2, <1>3, PTL DEF InferSpec, NothingAfterCancel

-----------------------------------------------------------------------------
(* Training by epochs *)

\* Samples in a microstep of all ranks.
PerStep == setup.world * setup.batch

RefIn(c, position) == (position + c) % setup.samples

\* The n-th sample of a cycle.
YieldIn(c, n) ==
    RefIn(c, IF setup.grouped
             THEN (n \div ((setup.unique * setup.mini) * setup.repeat)) * setup.unique
                      + ((n % (setup.unique * setup.mini)) \div setup.mini)
             ELSE n)

\* How often s is among the first m places of a cycle.
Below(c, m, s) == Cardinality({n \in 0 .. m - 1 : n < Length /\ YieldIn(c, n) = s})

\* Those of the next k places that are a sample's.
PlacesOf(c, m, k, s) == {n \in m .. m + k - 1 : n < Length /\ YieldIn(c, n) = s}

\* What so many microsteps of a cycle have trained.
Trained(c, d) == [s \in Samples |-> Below(c, d * PerStep, s)]

-----------------------------------------------------------------------------
\* A sum of differences is the difference of the ends.
LEMMA Telescope ==
    ASSUME NEW N \in Nat, NEW g \in [0 .. N -> Nat], NEW f \in [0 .. N - 1 -> Nat],
           \A r \in 0 .. N - 1 : g[r + 1] = g[r] + f[r]
    PROVE  SumUp(f) + g[0] = g[N]
<1> DEFINE D == 0 .. N - 1
<1>1. IsFiniteSet(D)
  <2>1. 0 \in Int /\ N - 1 \in Int OBVIOUS
  <2> QED BY <2>1, FS_Interval
<1>2. PICK h : Sums(h, f, D) /\ SumUp(f) = h[D] BY <1>1, SumGrows
<1> DEFINE T == {k \in 0 .. N : h[0 .. k - 1] + g[0] = g[k]}
<1>3. 0 \in T
  <2>1. 0 .. 0 - 1 = {} /\ g[0] \in Nat /\ 0 \in 0 .. N OBVIOUS
  <2>2. h[{}] = 0 BY <1>2 DEF Sums
  <2>3. h[0 .. 0 - 1] + g[0] = g[0] BY <2>1, <2>2
  <2> QED BY <2>1, <2>3
<1>4. ASSUME NEW k \in 0 .. N - 1, k \in T PROVE k + 1 \in T
  <2> DEFINE s == 0 .. k - 1
  <2>1. s \in SUBSET D /\ k \in D \ s /\ 0 .. (k + 1) - 1 = s \cup {k} OBVIOUS
  <2>2. h[s \cup {k}] = f[k] + h[s] /\ h[s] \in Nat BY <1>2, <2>1 DEF Sums
  <2>3. h[s] + g[0] = g[k] /\ g[k + 1] = g[k] + f[k] BY <1>4
  <2>4. g[0] \in Nat /\ g[k] \in Nat /\ f[k] \in Nat /\ k + 1 \in 0 .. N OBVIOUS
  <2>5. h[0 .. (k + 1) - 1] = f[k] + h[s] BY <2>1, <2>2
  <2> HIDE DEF s
  <2>6. h[0 .. (k + 1) - 1] + g[0] = g[k + 1] BY <2>2, <2>3, <2>4, <2>5
  <2> QED BY <2>4, <2>6
<1>5. N \in T
  <2>1. 0 .. N \subseteq T
    <3> HIDE DEF T
    <3> QED BY <1>3, <1>4, UpTo
  <2> HIDE DEF T
  <2> QED BY <2>1
<1> QED BY <1>2, <1>5

LEMMA SetupTyped ==
    ASSUME setup \in Setups
    PROVE  /\ setup.grouped \in BOOLEAN /\ setup.drop \in BOOLEAN /\ setup.equal \in BOOLEAN
           /\ setup.samples \in Nat \ {0} /\ setup.batch \in Nat \ {0} /\ setup.world \in Nat \ {0}
           /\ setup.ga \in Nat \ {0} /\ setup.unique \in Nat \ {0} /\ setup.mini \in Nat \ {0}
           /\ setup.repeat \in Nat \ {0}
BY EpochAssumption DEF Setup

LEMMA Products ==
    ASSUME NEW m \in Nat \ {0}, NEW n \in Nat \ {0}
    PROVE  m * n \in Nat \ {0}
<1>1. m * n = n + (m - 1) * n BY Distribute
<1>2. (m - 1) * n \in Nat
  <2> DEFINE l == m - 1
  <2>1. l \in Nat OBVIOUS
  <2> HIDE DEF l
  <2> QED BY <2>1 DEF l
<1> QED BY <1>1, <1>2

\* The least number of boxes.
LEMMA Ceiling ==
    ASSUME NEW n \in Nat \ {0}, NEW b \in Nat \ {0}
    PROVE  /\ Chunks(n, b) \in Nat \ {0} /\ n <= b * Chunks(n, b) /\ b * (Chunks(n, b) - 1) < n
           /\ \A k \in Int : n = b * k => Chunks(n, b) = k /\ n \div b = k
           /\ n % b = 0 => Chunks(n, b) = n \div b /\ n = b * (n \div b)
<1> DEFINE m == n + b - 1
           c == m \div b
           r == m % b
<1>1. m \in Int /\ m = (n + b) - 1 /\ Chunks(n, b) = c BY DEF Chunks
<1> HIDE DEF m
<1>2. c \in Int /\ r \in 0 .. b - 1 /\ m = b * c + r BY <1>1, Division
<1> HIDE DEF c, r
<1>3. b * (c - 1) = b * c - b /\ b * c \in Int BY <1>2, Distribute
<1>4. n <= b * c /\ b * (c - 1) < n BY <1>1, <1>2, <1>3
<1>5. c \in Nat \ {0}
  <2> SUFFICES ASSUME c <= 0 PROVE FALSE BY <1>2
  <2> DEFINE d == -c
  <2>1. d \in Nat /\ c = -d BY <1>2
  <2> HIDE DEF d
  <2>2. b * d \in Nat /\ b * c = -(b * d) BY <2>1
  <2> QED BY <1>4, <2>2
<1>6. ASSUME NEW k \in Int, n = b * k PROVE c = k /\ n \div b = k
  <2>1. m = b * k + (b - 1) /\ b - 1 \in 0 .. b - 1 BY <1>1, <1>6
  <2>2. c = k BY <2>1, DivisionUnique DEF c
  <2>3. (b * k + 0) \div b = k BY DivisionUnique
  <2>4. b * k + 0 = n BY <1>6
  <2> QED BY <2>2, <2>3, <2>4
<1>7. ASSUME n % b = 0 PROVE c = n \div b /\ n = b * (n \div b)
  <2> DEFINE k == n \div b
  <2>1. k \in Int /\ n = b * k + (n % b) BY Division
  <2> HIDE DEF k
  <2>2. b * k \in Int BY <2>1
  <2>3. n = b * k BY <1>7, <2>1, <2>2
  <2> QED BY <1>6, <2>1, <2>3 DEF k
<1> QED BY <1>1, <1>4, <1>5, <1>6, <1>7

\* With an accepted geometry the batches are as many on every rank, and hold all samples.
LEMMA WholeSteps ==
    ASSUME setup \in Setups, Accepted
    PROVE  /\ Length \in Nat \ {0} /\ PerStep \in Nat \ {0} /\ LocalBatches \in Nat \ {0}
           /\ Batches = setup.world * LocalBatches /\ Length <= LocalBatches * PerStep
           /\ setup.grouped \/ (setup.equal /\ setup.world > 1) => Length = LocalBatches * PerStep
           /\ setup.grouped => /\ PerStep = setup.unique * setup.mini
                              /\ setup.samples % setup.unique = 0
                              /\ LocalBatches = (setup.samples \div setup.unique) * setup.repeat
<1> DEFINE n == setup.samples  b == setup.batch  w == setup.world
           u == setup.unique  m == setup.mini  e == setup.repeat
<1>1. /\ n \in Nat \ {0} /\ b \in Nat \ {0} /\ w \in Nat \ {0} /\ u \in Nat \ {0} /\ m \in Nat \ {0}
      /\ e \in Nat \ {0} /\ setup.grouped \in BOOLEAN
  BY SetupTyped
<1>2. w * b \in Nat \ {0} /\ PerStep = w * b
  <2> HIDE DEF w, b
  <2> QED BY <1>1, Products DEF PerStep, w, b
\* So many batches of so many samples on so many ranks.
<1>3. ASSUME NEW l \in Nat \ {0}, NEW k \in Nat \ {0}, k <= l * (w * b),
             Length = k, Batches = w * l
      PROVE  /\ Length \in Nat \ {0} /\ LocalBatches = l /\ LocalBatches \in Nat \ {0}
             /\ Batches = w * LocalBatches /\ Length <= LocalBatches * PerStep
  <2>1. LocalBatches = l
    <3>1. (w * l + 0) \div w = l
      <4>1. w \in Nat \ {0} /\ 0 \in 0 .. w - 1 BY <1>1
      <4> HIDE DEF w
      <4> QED BY <4>1, DivisionUnique
    <3>2. w * l + 0 = w * l
      <4> HIDE DEF w
      <4> QED BY <1>1
    <3> QED BY <1>3, <3>1, <3>2 DEF LocalBatches
  <2> QED BY <1>2, <1>3, <2>1
<1>4. CASE ~setup.grouped
  <2> DEFINE c == Chunks(n, b)
  <2>1. WholeEpochs(setup) /\ Share = 1 BY <1>4 DEF Accepted, Share
  <2>2. Length = n
    <3>1. Length = n * 1 BY <2>1 DEF Length
    <3> HIDE DEF n
    <3> QED BY <1>1, <3>1
  <2>3. /\ c \in Nat \ {0} /\ n <= b * c
        /\ \A k \in Int : n = b * k => c = k
        /\ n % b = 0 => c = n \div b
    <3> HIDE DEF n, b
    <3> QED BY <1>1, Ceiling
  <2>4. Batches = c
    <3>1. setup.drop => n % b = 0 BY <2>1 DEF WholeEpochs
    <3> QED BY <2>2, <2>3, <3>1 DEF Batches
  <2>5. c % w = 0 BY <2>1 DEF WholeEpochs
  <2> DEFINE l == c \div w
  <2>6. c = w * l /\ l \in Nat \ {0}
    <3> HIDE DEF c, w
    <3>1. c \in Nat \ {0} /\ c \in Nat /\ c \in Int BY <2>3
    <3>2. l \in Nat BY <1>1, <3>1, NextRemainder
    <3>3. c = w * l + (c % w) BY <1>1, <3>1, Division
    <3> HIDE DEF l
    <3>4. w * l \in Int BY <1>1, <3>2
    <3>5. c = w * l BY <2>5, <3>3, <3>4
    <3>6. l # 0
      <4> SUFFICES ASSUME l = 0 PROVE FALSE OBVIOUS
      <4>1. w * 0 = 0 BY <1>1
      <4> QED BY <3>1, <3>5, <4>1
    <3> QED BY <3>2, <3>5, <3>6
  <2>7. b * (w * l) = l * (w * b)
    <3> HIDE DEF b, w, l
    <3>1. b \in Int /\ w \in Int /\ l \in Int BY <1>1, <2>6
    <3>2. (b * w) * l = b * (w * l) /\ b * w = w * b /\ (w * b) * l = l * (w * b)
      <4>1. w * b \in Int BY <3>1
      <4> QED BY <3>1, <4>1, Regroup
    <3> QED BY <3>2
  <2>8. n <= l * (w * b) BY <2>3, <2>6, <2>7
  <2>9. /\ Length \in Nat \ {0} /\ LocalBatches = l /\ LocalBatches \in Nat \ {0}
        /\ Batches = w * LocalBatches /\ Length <= LocalBatches * PerStep
    <3> HIDE DEF n, b, w, l, c
    <3> QED BY <1>1, <1>3, <2>2, <2>4, <2>6, <2>8
  <2>10. ASSUME setup.equal, w > 1 PROVE Length = LocalBatches * PerStep
    <3>1. n % (b * w) = 0 BY <2>1, <2>10 DEF WholeEpochs
    <3> DEFINE k == n \div (b * w)
    <3>2. n = (b * w) * k /\ k \in Int
      <4> DEFINE v == b * w
      <4>1. v \in Nat \ {0}
        <5> HIDE DEF b, w
        <5> QED BY <1>1, Products
      <4>2. n % v = 0 BY <3>1
      <4>3. k \in Int /\ n = v * k + (n % v)
        <5>1. n \in Int BY <1>1
        <5> HIDE DEF n, v
        <5> QED BY <4>1, <5>1, Division DEF v
      <4> HIDE DEF n, v, k
      <4>4. v * k \in Int BY <4>1, <4>3
      <4>5. n = v * k BY <4>2, <4>3, <4>4
      <4> QED BY <4>3, <4>5 DEF v
    <3> HIDE DEF k
    <3>3. n = b * (w * k) /\ w * k \in Int
      <4> HIDE DEF n, b, w
      <4> QED BY <1>1, <3>2, Regroup
    <3>4. c = w * k BY <2>3, <3>3
    <3>5. b * c = n BY <3>3, <3>4
    <3> QED BY <1>2, <2>2, <2>6, <2>7, <2>9, <3>5
  <2> HIDE DEF l, c
  <2> QED BY <1>2, <1>4, <2>9, <2>10
<1>5. CASE setup.grouped
  <2>1. n % u = 0 /\ b * w = u * m /\ ~setup.drop BY <1>5 DEF Accepted, WholeGroups
  <2> DEFINE g == n \div u
             l == g * e
  <2>2. n = u * g /\ g \in Nat \ {0}
    <3> HIDE DEF n, u
    <3>1. n = u * g /\ Chunks(n, u) = g BY <1>1, <2>1, Ceiling
    <3>2. Chunks(n, u) \in Nat \ {0} BY <1>1, Ceiling
    <3> QED BY <3>1, <3>2
  <2> HIDE DEF g
  <2>3. l \in Nat \ {0} BY <1>1, <2>2, Products
  <2>4. w * b = u * m
    <3> HIDE DEF w, b
    <3>1. w * b = b * w BY <1>1
    <3> QED BY <2>1, <3>1
  <2>5. Length = n * (m * e) BY <1>5 DEF Length, Share
  <2>6. Length = l * (w * b)
    <3> HIDE DEF n, u, m, e, w, b
    <3>1. (u * g) * (m * e) = (g * e) * (u * m)
      <4>1. u \in Int /\ g \in Int /\ m \in Int /\ e \in Int BY <1>1, <2>2
      <4>2. m * e \in Int /\ g * e \in Int /\ u * m \in Int BY <4>1
      <4>3. (u * g) * (m * e) = u * (g * (m * e)) BY <4>1, <4>2, Regroup
      <4>4. g * (m * e) = (g * m) * e /\ (g * m) * e = (g * e) * m BY <4>1, Regroup
      <4>5. u * ((g * e) * m) = (u * (g * e)) * m /\ (u * (g * e)) * m = (u * m) * (g * e)
        BY <4>1, <4>2, Regroup
      <4>6. (u * m) * (g * e) = (g * e) * (u * m) BY <4>2, Regroup
      <4> QED BY <4>3, <4>4, <4>5, <4>6
    <3> QED BY <2>2, <2>4, <2>5, <3>1
  <2>7. Length = b * (w * l)
    <3> HIDE DEF b, w, l
    <3>1. b \in Int /\ w \in Int /\ l \in Int BY <1>1, <2>3
    <3>2. (b * w) * l = b * (w * l) /\ b * w = w * b /\ (w * b) * l = l * (w * b)
      <4>1. w * b \in Int BY <3>1
      <4> QED BY <3>1, <4>1, Regroup
    <3> QED BY <2>6, <3>2
  <2>8. Batches = w * l /\ l * (w * b) \in Nat \ {0}
    <3>1. Batches = Chunks(Length, b) BY <2>1 DEF Batches
    <3> HIDE DEF b, w, l
    <3>2. l * (w * b) \in Nat \ {0} BY <1>2, <2>3, Products
    <3>3. w * l \in Int BY <1>1, <2>3
    <3>4. Chunks(Length, b) = w * l
      <4> DEFINE k == w * l
      <4>1. Length \in Nat \ {0} /\ k \in Int /\ Length = b * k BY <2>6, <2>7, <3>2, <3>3
      <4> HIDE DEF k
      <4> QED BY <1>1, <4>1, Ceiling DEF k
    <3> QED BY <3>1, <3>2, <3>4
  <2>9. /\ Length \in Nat \ {0} /\ LocalBatches = l /\ LocalBatches \in Nat \ {0}
        /\ Batches = w * LocalBatches /\ Length <= LocalBatches * PerStep
    <3> DEFINE k == l * (w * b)
    <3>1. k \in Nat \ {0} /\ k <= l * (w * b) /\ Length = k BY <2>6, <2>8
    <3> HIDE DEF k, l, w, b
    <3> QED BY <1>3, <2>3, <2>8, <3>1
  <2> HIDE DEF l
  <2> QED BY <1>2, <1>5, <2>1, <2>4, <2>6, <2>9 DEF l, g
<1> QED BY <1>1, <1>4, <1>5

\* A rank has no batch left when all the microsteps have been.
LEMMA Exhaustion ==
    ASSUME setup \in Setups, Accepted, done \in Nat
    PROVE  Exhausted <=> done >= LocalBatches
<1> DEFINE w == setup.world  l == LocalBatches
<1>1. w \in Nat \ {0} /\ l \in Nat \ {0} /\ Batches = w * l BY SetupTyped, WholeSteps
<1>2. Exhausted <=> \E r \in 0 .. w - 1 : ~(done * w + r < w * l)
  BY <1>1 DEF Exhausted, HasBatch, DataRank
<1> HIDE DEF w, l
<1>3. ASSUME done >= l PROVE Exhausted
  <2> DEFINE k == done - l
  <2>1. k \in Nat /\ done = l + k BY <1>1, <1>3
  <2> HIDE DEF k
  <2>2. done * w = w * l + w * k /\ w * k \in Nat /\ w * l \in Nat BY <1>1, <2>1
  <2>3. 0 \in 0 .. w - 1 /\ ~(done * w + 0 < w * l) BY <1>1, <2>2
  <2> QED BY <1>2, <2>3
<1>4. ASSUME done < l PROVE ~Exhausted
  <2> SUFFICES ASSUME NEW r \in 0 .. w - 1 PROVE done * w + r < w * l BY <1>2
  <2> DEFINE k == l - (done + 1)
  <2>1. k \in Nat /\ l = (done + 1) + k BY <1>1, <1>4
  <2> HIDE DEF k
  <2>2. w * l = w * (done + 1) + w * k /\ w * (done + 1) = done * w + w /\ w * k \in Nat
    BY <1>1, <2>1, Distribute
  <2>3. done * w \in Nat BY <1>1
  <2> QED BY <1>1, <2>2, <2>3
<1> QED BY <1>1, <1>3, <1>4 DEF l

\* A sample's places among the next ones.
LEMMA BelowNext ==
    ASSUME NEW c, NEW m \in Nat, NEW k \in Nat, NEW s
    PROVE  /\ Below(c, m, s) \in Nat /\ Cardinality(PlacesOf(c, m, k, s)) \in Nat
           /\ Below(c, m + k, s) = Below(c, m, s) + Cardinality(PlacesOf(c, m, k, s))
<1> DEFINE N == {n \in m .. m + k - 1 : n < Length /\ YieldIn(c, n) = s}
           B == {n \in 0 .. m - 1 : n < Length /\ YieldIn(c, n) = s}
<1>1. IsFiniteSet(B) /\ IsFiniteSet(N)
  <2>1. 0 \in Int /\ m - 1 \in Int /\ m \in Int /\ m + k - 1 \in Int OBVIOUS
  <2>2. IsFiniteSet(0 .. m - 1) /\ IsFiniteSet(m .. m + k - 1) BY <2>1, FS_Interval
  <2>3. B \subseteq 0 .. m - 1 /\ N \subseteq m .. m + k - 1 OBVIOUS
  <2> HIDE DEF B, N
  <2> QED BY <2>2, <2>3, FS_Subset
<1>2. B \cap N = {} OBVIOUS
<1>3. {n \in 0 .. m + k - 1 : n < Length /\ YieldIn(c, n) = s} = B \cup N
  <2>1. \A n : n \in 0 .. m + k - 1 <=> n \in 0 .. m - 1 \/ n \in m .. m + k - 1 OBVIOUS
  <2> QED BY <2>1
<1>4. Below(c, m, s) = Cardinality(B) /\ Below(c, m + k, s) = Cardinality(B \cup N)
  BY <1>3 DEF Below
<1> HIDE DEF B, N
<1>5. Cardinality(B) \in Nat /\ Cardinality(N) \in Nat BY <1>1, FS_CardinalityType
<1>6. Cardinality(B \cup N) = Cardinality(B) + Cardinality(N)
  <2>1. Cardinality(B \cup N) = Cardinality(B) + Cardinality(N) - Cardinality(B \cap N)
    BY <1>1, FS_Union
  <2>2. Cardinality(B \cap N) = 0 BY <1>2, FS_EmptySet
  <2> QED BY <1>5, <2>1, <2>2
<1> QED BY <1>4, <1>5, <1>6 DEF N, PlacesOf

\* The batches of all ranks are the next places.
LEMMA StepIsNext ==
    ASSUME setup \in Setups, done \in Nat, NEW s
    PROVE  /\ InStep(s) \in Nat
           /\ InStep(s) = Cardinality(PlacesOf(cycle, done * PerStep, PerStep, s))
           /\ Below(cycle, (done + 1) * PerStep, s) = Below(cycle, done * PerStep, s) + InStep(s)
<1> DEFINE w == setup.world  b == setup.batch
           start == [r \in 0 .. w |-> (done * w + r) * b]
           g == [r \in 0 .. w |-> Below(cycle, start[r], s)]
           f == [r \in 0 .. w - 1 |-> InBatch(r, s)]
<1>1. w \in Nat \ {0} /\ b \in Nat \ {0} /\ PerStep = w * b BY SetupTyped DEF PerStep
<1>2. \A n : Yielded(n) = YieldIn(cycle, n) BY DEF Yielded, YieldIn, RefAt, RefIn
<1>3. ASSUME NEW r \in 0 .. w
      PROVE  start[r] \in Nat /\ start[r] = done * (w * b) + r * b
             /\ (r + 1 \in 0 .. w => start[r + 1] = start[r] + b)
  <2> HIDE DEF w, b
  <2>1. start[r] = (done * w + r) * b OBVIOUS
  <2>2. done * w \in Nat /\ r \in Nat BY <1>1
  <2>3. (done * w + r) * b = (done * w) * b + r * b
    <3> DEFINE x == done * w
    <3>1. x \in Int /\ r \in Int /\ b \in Int BY <1>1, <2>2
    <3> HIDE DEF x
    <3>2. b * (x + r) = b * x + b * r BY <3>1, Distribute
    <3>3. b * (x + r) = (x + r) * b /\ b * x = x * b /\ b * r = r * b BY <3>1
    <3>4. (x + r) * b = x * b + r * b BY <3>2, <3>3
    <3> QED BY <3>4 DEF x
  <2>4. (done * w) * b = done * (w * b) BY <1>1, Regroup
  <2>5. r * b \in Nat /\ done * (w * b) \in Nat /\ (r + 1) * b = r * b + b
    <3>1. w * b \in Nat BY <1>1
    <3> DEFINE x == w * b
    <3> HIDE DEF x
    <3>2. done * x \in Nat BY <3>1 DEF x
    <3> QED BY <1>1, <2>2, <3>2 DEF x
  <2>6. ASSUME r + 1 \in 0 .. w PROVE start[r + 1] = start[r] + b
    <3>1. start[r + 1] = (done * w + (r + 1)) * b BY <2>6
    <3>2. (done * w + (r + 1)) * b = (done * w + r) * b + b
      <4> DEFINE x == done * w
      <4> HIDE DEF x
      <4> QED BY <1>1, <2>2 DEF x
    <3> QED BY <2>1, <3>1, <3>2
  <2> QED BY <2>1, <2>3, <2>4, <2>5, <2>6
<1>4. ASSUME NEW r \in 0 .. w - 1
      PROVE  g[r] \in Nat /\ f[r] \in Nat /\ g[r + 1] = g[r] + f[r]
  <2>1. r \in 0 .. w /\ r + 1 \in 0 .. w BY <1>1
  <2>2. start[r] \in Nat /\ start[r + 1] = start[r] + b BY <1>3, <2>1
  <2> DEFINE N == PlacesOf(cycle, start[r], b, s)
  <2>3. InBatch(r, s) = Cardinality(N)
    <3>1. start[r] = (done * setup.world + r) * setup.batch BY <2>1
    <3> HIDE DEF start
    <3>2. {n \in BatchAt(r) : Yielded(n) = s} = N BY <1>2, <3>1 DEF BatchAt, PlacesOf
    <3> QED BY <3>2 DEF InBatch
  <2>4. Below(cycle, start[r] + b, s) = Below(cycle, start[r], s) + Cardinality(N)
        /\ Below(cycle, start[r], s) \in Nat /\ Cardinality(N) \in Nat
    <3> DEFINE x == start[r]
    <3>1. x \in Nat /\ b \in Nat BY <1>1, <2>2
    <3> HIDE DEF start, x, b
    <3> QED BY <3>1, BelowNext DEF x
  <2>5. g[r] = Below(cycle, start[r], s) /\ g[r + 1] = Below(cycle, start[r] + b, s)
    <3> HIDE DEF start
    <3> QED BY <2>1, <2>2
  <2> QED BY <2>3, <2>4, <2>5
<1>5. g \in [0 .. w -> Nat] /\ f \in [0 .. w - 1 -> Nat]
  <2>1. ASSUME NEW r \in 0 .. w PROVE Below(cycle, start[r], s) \in Nat
    <3> DEFINE x == start[r]
    <3>1. x \in Nat /\ 0 \in Nat BY <1>3
    <3> HIDE DEF start, x
    <3> QED BY <3>1, BelowNext DEF x
  <2>2. \A r \in 0 .. w - 1 : f[r] \in Nat BY <1>4
  <2> HIDE DEF start
  <2> QED BY <2>1, <2>2
<1>6. SumUp(f) + g[0] = g[w]
  <2>1. w \in Nat BY <1>1
  <2> HIDE DEF f, g, w
  <2> QED BY <1>4, <1>5, <2>1, Telescope
<1>7. InStep(s) = SumUp(f) BY DEF InStep, SumUp, DataRank
<1>8. SumUp(f) \in Nat
  <2>1. IsFiniteSet(0 .. w - 1)
    <3>1. 0 \in Int /\ w - 1 \in Int BY <1>1
    <3> QED BY <3>1, FS_Interval
  <2> HIDE DEF f, w
  <2> QED BY <1>5, <2>1, SumUpNat
<1>9. start[0] = done * PerStep /\ start[w] = (done + 1) * PerStep
      /\ (done + 1) * PerStep = done * PerStep + PerStep /\ done * PerStep \in Nat
      /\ PerStep \in Nat
  <2>1. 0 \in 0 .. w /\ w \in 0 .. w BY <1>1
  <2>2. start[0] = done * (w * b) + 0 * b /\ start[w] = done * (w * b) + w * b BY <1>3, <2>1
  <2>3. w * b \in Nat
    <3> HIDE DEF w, b
    <3> QED BY <1>1
  <2> DEFINE x == w * b
  <2> HIDE DEF x, start
  <2>4. done * x \in Nat /\ (done + 1) * x = done * x + x /\ 0 * b = 0 BY <1>1, <2>3 DEF x
  <2> QED BY <1>1, <2>2, <2>3, <2>4 DEF x
<1>10. g[0] = Below(cycle, done * PerStep, s) /\ g[w] = Below(cycle, (done + 1) * PerStep, s)
  <2>1. 0 \in 0 .. w /\ w \in 0 .. w BY <1>1
  <2> HIDE DEF start
  <2> QED BY <1>9, <2>1
<1> DEFINE N == PlacesOf(cycle, done * PerStep, PerStep, s)
<1>11. /\ Below(cycle, done * PerStep + PerStep, s) = Below(cycle, done * PerStep, s) + Cardinality(N)
       /\ Below(cycle, done * PerStep, s) \in Nat /\ Cardinality(N) \in Nat
  <2> DEFINE x == done * PerStep  y == PerStep
  <2>1. x \in Nat /\ y \in Nat BY <1>9
  <2> HIDE DEF x, y
  <2> QED BY <2>1, BelowNext DEF x, y
<1>12. SumUp(f) = Cardinality(N)
  <2> HIDE DEF f, g, N, w
  <2> QED BY <1>6, <1>8, <1>9, <1>10, <1>11
<1>13. g[w] = g[0] + InStep(s)
  <2> HIDE DEF f, g, w
  <2> QED BY <1>6, <1>7, <1>8, <1>10, <1>11
<1> QED BY <1>7, <1>8, <1>10, <1>12, <1>13

\* A sample has one place in a cycle.
LEMMA RefPlace ==
    ASSUME setup \in Setups, NEW c \in Nat, NEW s \in Samples
    PROVE  /\ (s - c) % setup.samples \in Samples
           /\ \A y \in Samples : RefIn(c, y) = s <=> y = (s - c) % setup.samples
<1> DEFINE n == setup.samples
<1>1. n \in Nat \ {0} BY SetupTyped
<1>2. Samples = 0 .. n - 1 BY DEF Samples
<1> HIDE DEF n
<1>3. (s - c) % n \in 0 .. n - 1
  <2>1. s - c \in Int BY <1>2
  <2> QED BY <1>1, <2>1, Division
<1>4. ASSUME NEW y \in 0 .. n - 1 PROVE (y + c) % n = s <=> y = (s - c) % n
  <2>1. ASSUME (y + c) % n = s PROVE y = (s - c) % n
    <3>1. c \in Int OBVIOUS
    <3>2. (((y + c) % n) - c) % n = y BY <1>1, <1>4, <3>1, ThereAndBack
    <3> QED BY <2>1, <3>2
  <2>2. ASSUME y = (s - c) % n PROVE (y + c) % n = s
    <3>1. -c \in Int /\ s \in 0 .. n - 1 /\ s + (-c) = s - c /\ y - (-c) = y + c BY <1>2
    <3>2. (((s + (-c)) % n) - (-c)) % n = s BY <1>1, <3>1, ThereAndBack
    <3> QED BY <2>2, <3>1, <3>2
  <2> QED BY <2>1, <2>2
<1> QED BY <1>2, <1>3, <1>4 DEF n, RefIn

\* The place of a sample's group, and its place in it.
GroupOf(c, s) == ((s - c) % setup.samples) \div setup.unique
SpotOf(c, s)  == ((s - c) % setup.samples) % setup.unique

LEMMA GroupPlace ==
    ASSUME setup \in Setups, Accepted, setup.grouped, NEW c \in Nat, NEW s \in Samples,
           NEW d \in Nat, d < LocalBatches, NEW o \in 0 .. PerStep - 1
    PROVE  /\ PerStep * d + o \in Nat /\ PerStep * d + o < Length
           /\ YieldIn(c, PerStep * d + o) = s
                  <=> d \div setup.repeat = GroupOf(c, s) /\ o \div setup.mini = SpotOf(c, s)
<1> DEFINE g == PerStep  e == setup.repeat  u == setup.unique  m == setup.mini
           k == setup.samples \div u  n == g * d + o  l == LocalBatches
<1>1. /\ g \in Nat \ {0} /\ e \in Nat \ {0} /\ u \in Nat \ {0} /\ m \in Nat \ {0} /\ g = u * m
      /\ l = k * e /\ Length = l * g /\ setup.samples % u = 0 /\ setup.samples \in Nat \ {0}
  BY SetupTyped, WholeSteps
<1>2. setup.samples = u * k /\ k \in Int
  <2>1. setup.samples = u * k + (setup.samples % u) /\ k \in Int
    <3> DEFINE p == setup.samples
    <3>1. p \in Int BY <1>1
    <3> HIDE DEF p, u
    <3> QED BY <1>1, <3>1, Division DEF p
  <2> HIDE DEF k, u
  <2>2. u * k \in Int BY <1>1, <2>1
  <2> QED BY <1>1, <2>1, <2>2
<1>3. YieldIn(c, n) = RefIn(c, (n \div (g * e)) * u + ((n % g) \div m)) BY <1>1 DEF YieldIn
<1>4. n \in Nat /\ g * d \in Nat /\ n \div g = d /\ n % g = o
  <2> HIDE DEF g
  <2>1. o \in 0 .. g - 1 BY DEF g
  <2>2. g * d \in Nat BY <1>1
  <2>3. d \in Int /\ g \in Nat \ {0} BY <1>1
  <2>4. (g * d + o) \div g = d /\ (g * d + o) % g = o BY <2>1, <2>3, DivisionUnique
  <2>5. g * d + o \in Nat BY <1>1, <2>1, <2>2
  <2> QED BY <2>2, <2>4, <2>5
<1>5. n < Length
  <2> HIDE DEF g, l
  <2>1. l \in Nat /\ d < l BY WholeSteps DEF l
  <2>2. l - (d + 1) \in Nat BY <2>1
  <2> DEFINE z == l - (d + 1)
  <2>3. z \in Nat /\ l = (d + 1) + z BY <2>1, <2>2
  <2> HIDE DEF z
  <2>4. l * g = g * (d + 1) + g * z /\ g * (d + 1) = g * d + g /\ g * z \in Nat
    <3>1. g \in Nat /\ z \in Nat /\ d \in Nat BY <1>1, <2>3
    <3>2. d + 1 \in Int /\ z \in Int /\ g \in Int /\ d \in Int /\ 1 \in Int BY <3>1
    <3>3. l * g = g * l BY <3>1, <2>1
    <3>4. g * ((d + 1) + z) = g * (d + 1) + g * z BY <3>2, Distribute
    <3>5. g * (d + 1) = g * d + g * 1 BY <3>2, Distribute
    <3>6. g * z \in Nat /\ g * 1 = g BY <3>1
    <3> QED BY <2>3, <3>3, <3>4, <3>5, <3>6
  <2>5. o \in 0 .. g - 1 BY DEF g
  <2> QED BY <1>1, <1>4, <2>4, <2>5
<1> DEFINE q == d \div e  v == o \div m  y == u * q + v
<1>6. q \in Nat /\ q < k
  <2> HIDE DEF k, l, e
  <2>1. q \in Nat /\ d = e * q + (d % e) /\ d % e \in 0 .. e - 1
    <3>1. d \in Int OBVIOUS
    <3> QED BY <1>1, <3>1, NextRemainder, Division
  <2> HIDE DEF q
  <2> SUFFICES ASSUME q >= k PROVE FALSE BY <1>2, <2>1
  <2>2. d < k * e BY <1>1 DEF l
  <2> DEFINE z == q - k
  <2>3. z \in Nat /\ q = k + z BY <1>2, <2>1
  <2> HIDE DEF z
  <2>4. e * q = e * k + e * z /\ e * z \in Nat /\ e * k = k * e /\ e * k \in Int
    BY <1>1, <1>2, <2>3, Distribute
  <2> QED BY <2>1, <2>2, <2>4
<1>7. v \in 0 .. u - 1
  <2> HIDE DEF g, u, m
  <2>1. o \in Nat /\ o < m * u
    <3>1. o \in 0 .. g - 1 BY DEF g
    <3>2. u * m = m * u BY <1>1
    <3> QED BY <1>1, <3>1, <3>2
  <2>2. v \in Nat /\ o = m * v + (o % m) /\ o % m \in 0 .. m - 1
    <3>1. o \in Int BY <2>1
    <3> QED BY <1>1, <2>1, <3>1, NextRemainder, Division
  <2> HIDE DEF v
  <2> SUFFICES ASSUME v >= u PROVE FALSE BY <1>1, <2>2
  <2> DEFINE z == v - u
  <2>3. z \in Nat /\ v = u + z BY <1>1, <2>2
  <2> HIDE DEF z
  <2>4. m * v = m * u + m * z /\ m * z \in Nat /\ m * u \in Nat BY <1>1, <2>3, Distribute
  <2> QED BY <2>1, <2>2, <2>4
<1>8. n \div (g * e) = q
  <2> HIDE DEF g, e
  <2>1. d = e * q + (d % e) /\ d % e \in 0 .. e - 1 /\ d \in Int /\ q \in Int
    <3>1. d \in Int OBVIOUS
    <3> QED BY <1>1, <3>1, Division
  <2> DEFINE i == d % e
  <2> HIDE DEF q, i
  <2>2. g * d = (g * e) * q + g * i
    <3>1. g \in Int /\ e \in Int /\ i \in Int /\ e * q \in Int BY <1>1, <2>1 DEF i
    <3>2. g * (e * q + i) = g * (e * q) + g * i BY <3>1, Distribute
    <3>3. g * (e * q) = (g * e) * q BY <2>1, <3>1, Regroup
    <3>4. d = e * q + i BY <2>1 DEF i
    <3> QED BY <3>2, <3>3, <3>4
  <2>3. g * i + o \in 0 .. (g * e) - 1
    <3>1. i \in Nat /\ i < e BY <1>1, <2>1 DEF i
    <3> DEFINE z == e - (i + 1)
    <3>2. z \in Nat /\ e = (i + 1) + z BY <1>1, <3>1
    <3> HIDE DEF z
    <3>3. g * e = g * (i + 1) + g * z /\ g * (i + 1) = g * i + g /\ g * z \in Nat /\ g * i \in Nat
      BY <1>1, <3>1, <3>2, Distribute
    <3>4. o \in 0 .. g - 1 BY DEF g
    <3> QED BY <1>1, <3>3, <3>4
  <2>4. n = (g * e) * q + (g * i + o)
    <3>1. (g * e) * q \in Int /\ g * i \in Int /\ o \in Int
      <4>1. g * e \in Int /\ i \in Int BY <1>1, <2>1 DEF i
      <4>2. o \in Int BY <1>1 DEF g
      <4> QED BY <1>1, <2>1, <4>1, <4>2
    <3> QED BY <2>2, <3>1
  <2>5. g * e \in Nat \ {0} BY <1>1, Products
  <2> DEFINE x == g * e  r == g * i + o
  <2>6. x \in Nat \ {0} /\ r \in 0 .. x - 1 /\ n = x * q + r BY <2>3, <2>4, <2>5
  <2> HIDE DEF x, r, n
  <2> QED BY <2>1, <2>6, DivisionUnique DEF x
<1>9. y \in Samples /\ y \div u = q /\ y % u = v
  <2> HIDE DEF q, v, u, k
  <2>1. y \div u = q /\ y % u = v
    <3>1. u \in Nat \ {0} BY <1>1
    <3>2. q \in Int BY <1>6
    <3> QED BY <1>7, <3>1, <3>2, DivisionUnique
  <2> DEFINE z == k - (q + 1)
  <2>2. z \in Nat /\ k = (q + 1) + z BY <1>2, <1>6
  <2> HIDE DEF z
  <2>3. u * k = u * (q + 1) + u * z /\ u * (q + 1) = u * q + u /\ u * z \in Nat /\ u * q \in Nat
    BY <1>1, <1>6, <2>2, Distribute
  <2>4. y \in Nat /\ y < u * k BY <1>1, <1>7, <2>3
  <2>5. y \in 0 .. setup.samples - 1 BY <1>1, <1>2, <2>4
  <2> QED BY <2>1, <2>5 DEF Samples
<1>10. YieldIn(c, n) = RefIn(c, y)
  <2>1. q * u = u * q
    <3> HIDE DEF q, u
    <3> QED BY <1>1, <1>6
  <2> QED BY <1>3, <1>4, <1>8, <2>1
<1> DEFINE x == (s - c) % setup.samples
<1>11. RefIn(c, y) = s <=> y = x
  <2> HIDE DEF y
  <2> QED BY <1>9, RefPlace
<1>12. y = x <=> q = x \div u /\ v = x % u
  <2>1. x \in Int
    <3>1. x \in Samples BY RefPlace
    <3> HIDE DEF x
    <3> QED BY <1>1, <3>1 DEF Samples
  <2> HIDE DEF x, q, v, u
  <2>2. x = u * (x \div u) + (x % u) BY <1>1, <2>1, Division
  <2>3. ASSUME y = x PROVE q = x \div u /\ v = x % u
    <3> HIDE DEF y
    <3> QED BY <1>9, <2>3
  <2>4. ASSUME q = x \div u, v = x % u PROVE y = x BY <2>2, <2>4
  <2> QED BY <2>3, <2>4
<1>13. YieldIn(c, n) = s <=> q = GroupOf(c, s) /\ v = SpotOf(c, s)
  BY <1>10, <1>11, <1>12 DEF GroupOf, SpotOf
<1> HIDE DEF q, v, y, x, k, l
<1> QED BY <1>4, <1>5, <1>13 DEF q, v

\* A microstep of its group takes a sample as often as it comes in a row; another, never.
LEMMA GroupStep ==
    ASSUME setup \in Setups, Accepted, setup.grouped, NEW c \in Nat, NEW s \in Samples,
           NEW d \in Nat, d < LocalBatches
    PROVE  Cardinality(PlacesOf(c, d * PerStep, PerStep, s))
               = IF d \div setup.repeat = GroupOf(c, s) THEN setup.mini ELSE 0
<1> DEFINE g == PerStep  m == setup.mini  u == setup.unique  i == SpotOf(c, s)  b == g * d
           P == PlacesOf(c, d * PerStep, PerStep, s)
           Own == d \div setup.repeat = GroupOf(c, s)
<1>1. g \in Nat \ {0} /\ m \in Nat \ {0} /\ u \in Nat \ {0} /\ g = u * m BY SetupTyped, WholeSteps
<1>2. i \in 0 .. u - 1
  <2> DEFINE x == (s - c) % setup.samples
  <2>1. x \in Samples /\ setup.samples \in Nat \ {0} BY RefPlace, SetupTyped
  <2> HIDE DEF x
  <2>2. x \in Int BY <2>1 DEF Samples
  <2> QED BY <1>1, <2>2, Division DEF SpotOf, x
<1>3. b \in Nat /\ b = d * PerStep
  <2> HIDE DEF g
  <2>1. b = d * g /\ b \in Nat BY <1>1
  <2> QED BY <2>1 DEF g
<1>4. ASSUME NEW o \in 0 .. g - 1
      PROVE  b + o < Length /\ (YieldIn(c, b + o) = s <=> Own /\ o \div m = i)
  BY GroupPlace
<1>5. P = {n \in b .. b + g - 1 : n < Length /\ YieldIn(c, n) = s} BY <1>3 DEF PlacesOf
<1> HIDE DEF b, g, i, Own, P
<1>6. CASE ~Own
  <2>1. P = {}
    <3> SUFFICES ASSUME NEW n \in b .. b + g - 1, YieldIn(c, n) = s PROVE FALSE BY <1>5
    <3> DEFINE o == n - b
    <3>1. o \in 0 .. g - 1 /\ n = b + o BY <1>1, <1>3
    <3> HIDE DEF o
    <3> QED BY <1>4, <1>6, <3>1
  <2> QED BY <1>6, <2>1, FS_EmptySet DEF P, Own
<1>7. CASE Own
  <2> DEFINE J == 0 .. m - 1  f == [j \in J |-> b + (m * i + j)]
  <2>1. m * i \in Nat /\ m * i + m <= g
    <3> DEFINE z == u - (i + 1)
    <3>1. z \in Nat /\ i \in Nat /\ u = (i + 1) + z BY <1>1, <1>2
    <3> HIDE DEF z, u
    <3>2. m * ((i + 1) + z) = m * (i + 1) + m * z /\ m * (i + 1) = m * i + m * 1
      <4>1. m \in Int /\ i \in Int /\ z \in Int /\ i + 1 \in Int /\ 1 \in Int BY <1>1, <3>1
      <4> HIDE DEF m
      <4> QED BY <4>1, Distribute
    <3>3. m * z \in Nat /\ m * i \in Nat /\ m * 1 = m
      <4> HIDE DEF m
      <4> QED BY <1>1, <3>1
    <3>4. g = m * ((i + 1) + z)
      <4> HIDE DEF m
      <4> QED BY <1>1, <3>1
    <3> QED BY <1>1, <3>2, <3>3, <3>4
  <2>2. ASSUME NEW j \in J
        PROVE  m * i + j \in 0 .. g - 1 /\ (m * i + j) \div m = i /\ (m * i + j) % m = j
    <3>1. i \in Int /\ m \in Nat \ {0} /\ j \in 0 .. m - 1 BY <1>1, <1>2
    <3> HIDE DEF m
    <3>2. (m * i + j) \div m = i /\ (m * i + j) % m = j BY <3>1, DivisionUnique
    <3> QED BY <1>1, <2>1, <3>1, <3>2
  <2>3. P = {f[j] : j \in J}
    <3>1. ASSUME NEW j \in J PROVE f[j] \in P
      <4> DEFINE o == m * i + j
      <4>1. o \in 0 .. g - 1 /\ o \div m = i /\ f[j] = b + o BY <2>2
      <4> HIDE DEF o, f
      <4>2. f[j] < Length /\ YieldIn(c, f[j]) = s BY <1>4, <1>7, <4>1
      <4>3. f[j] \in b .. b + g - 1 BY <1>1, <1>3, <4>1
      <4> QED BY <1>5, <4>2, <4>3
    <3>2. ASSUME NEW n \in P PROVE n \in {f[j] : j \in J}
      <4> DEFINE o == n - b
      <4>1. n \in b .. b + g - 1 /\ YieldIn(c, n) = s BY <1>5
      <4>2. o \in 0 .. g - 1 /\ n = b + o BY <1>1, <1>3, <4>1
      <4> HIDE DEF o
      <4>3. o \div m = i BY <1>4, <4>1, <4>2
      <4>4. o = m * i + (o % m) /\ o % m \in J
        <5>1. o \in Int /\ m \in Nat \ {0} BY <1>1, <4>2
        <5> HIDE DEF m
        <5>2. o % m \in 0 .. m - 1 /\ o = m * (o \div m) + (o % m) BY <5>1, Division
        <5> QED BY <4>3, <5>2
      <4>5. n = f[o % m] BY <4>2, <4>4
      <4> QED BY <4>4, <4>5
    <3> HIDE DEF f
    <3> QED BY <3>1, <3>2
  <2>4. IsFiniteSet(J) /\ Cardinality(J) = m
    <3>1. 0 \in Int /\ m - 1 \in Int /\ m \in Nat \ {0} BY <1>1
    <3> HIDE DEF m
    <3>2. IsFiniteSet(0 .. m - 1)
          /\ Cardinality(0 .. m - 1) = IF 0 > m - 1 THEN 0 ELSE (m - 1) - 0 + 1
      BY <3>1, FS_Interval
    <3> QED BY <3>1, <3>2
  <2>5. ASSUME NEW j \in J, NEW l \in J, f[j] = f[l] PROVE j = l
    <3>1. j \in Nat /\ l \in Nat BY <1>1
    <3> HIDE DEF m
    <3>2. f[j] = b + (m * i + j) /\ f[l] = b + (m * i + l) OBVIOUS
    <3>3. m * i \in Nat /\ b \in Nat BY <1>3, <2>1
    <3> DEFINE x == m * i
    <3> HIDE DEF f, x
    <3>4. b + (x + j) = b + (x + l) BY <2>5, <3>2 DEF x
    <3>5. x \in Nat BY <3>3 DEF x
    <3> QED BY <3>1, <3>3, <3>4, <3>5
  <2>6. Cardinality(P) = m
    <3> HIDE DEF f, J, m
    <3> QED BY <2>3, <2>4, <2>5, Image
  <2> QED BY <1>7, <2>6 DEF P, Own
<1> QED BY <1>6, <1>7

-----------------------------------------------------------------------------
\* All microsteps of a cycle train each sample as often as it is to be.
LEMMA Covered ==
    ASSUME setup \in Setups, Accepted, NEW c \in Nat, NEW s \in Samples
    PROVE  Below(c, LocalBatches * PerStep, s) = Share
<1> DEFINE g == PerStep  l == LocalBatches
<1>1. /\ Length \in Nat \ {0} /\ g \in Nat \ {0} /\ l \in Nat \ {0} /\ Length <= l * g
      /\ setup.grouped \in BOOLEAN
  BY WholeSteps, SetupTyped
<1>2. CASE ~setup.grouped
  <2> DEFINE x == (s - c) % setup.samples  n == setup.samples
  <2>1. Length = n /\ Share = 1
    <3>1. n \in Nat \ {0} BY SetupTyped
    <3>2. Share = 1 /\ Length = n * Share BY <1>2 DEF Share, Length
    <3> HIDE DEF n
    <3> QED BY <3>1, <3>2
  <2>2. x \in Samples /\ \A y \in Samples : RefIn(c, y) = s <=> y = x BY RefPlace
  <2>3. \A y : YieldIn(c, y) = RefIn(c, y) BY <1>2 DEF YieldIn
  <2> HIDE DEF x
  <2>4. {y \in 0 .. l * g - 1 : y < Length /\ YieldIn(c, y) = s} = {x}
    <3>1. l * g \in Nat
      <4> HIDE DEF l, g
      <4> QED BY <1>1
    <3>2. Samples = 0 .. Length - 1 BY <2>1 DEF Samples
    <3> DEFINE z == l * g
    <3> HIDE DEF z, n
    <3>3. z \in Nat /\ Length <= z BY <1>1, <3>1 DEF z
    <3>4. \A y : y \in 0 .. z - 1 /\ y < Length <=> y \in Samples BY <1>1, <3>2, <3>3
    <3>5. {y \in 0 .. z - 1 : y < Length /\ YieldIn(c, y) = s} = {x} BY <2>2, <2>3, <3>4
    <3> QED BY <3>5 DEF z
  <2>5. Cardinality({x}) = 1 BY FS_Singleton
  <2> QED BY <2>1, <2>4, <2>5 DEF Below
<1>3. CASE setup.grouped
  <2> DEFINE e == setup.repeat  m == setup.mini  k == setup.samples \div setup.unique
             G == GroupOf(c, s)  first == e * G
             Had(d) == IF d <= first THEN 0 ELSE IF d >= first + e THEN e ELSE d - first
  <2>1. /\ e \in Nat \ {0} /\ m \in Nat \ {0} /\ setup.unique \in Nat \ {0} /\ l = k * e
        /\ setup.samples \in Nat \ {0} /\ setup.samples % setup.unique = 0
    BY <1>3, SetupTyped, WholeSteps
  <2>2. Share = m * e BY <1>3 DEF Share
  <2>3. G \in Nat /\ G < k
    <3> DEFINE x == (s - c) % setup.samples  u == setup.unique  n == setup.samples
    <3>1. x \in 0 .. n - 1
      <4>1. x \in Samples BY RefPlace
      <4> HIDE DEF x
      <4> QED BY <4>1 DEF Samples
    <3>2. G = x \div u BY DEF GroupOf
    <3> HIDE DEF x, u, n, G, k
    <3>3. u \in Nat \ {0} /\ n \in Nat \ {0} /\ k = n \div u /\ n % u = 0 BY <2>1 DEF u, n, k
    <3>4. x \in Nat /\ x < n BY <3>1, <3>3
    <3>5. G \in Nat /\ x = u * G + (x % u) /\ x % u \in 0 .. u - 1
      <4>1. x \in Int BY <3>4
      <4> QED BY <3>2, <3>3, <3>4, <4>1, Division, NextRemainder
    <3>6. k \in Nat /\ n = u * k
      <4>1. n \in Int BY <3>3
      <4>2. k \in Nat /\ k \in Int /\ n = u * k + (n % u) BY <3>3, <4>1, Division, NextRemainder
      <4>3. u * k \in Int BY <3>3, <4>2
      <4> QED BY <3>3, <4>2, <4>3
    <3> SUFFICES ASSUME G >= k PROVE FALSE BY <3>5, <3>6
    <3> DEFINE z == G - k
    <3>7. z \in Nat /\ G = k + z BY <3>5, <3>6
    <3> HIDE DEF z
    <3>8. u * G = u * k + u * z /\ u * z \in Nat
      <4>1. u \in Int /\ k \in Int /\ z \in Int BY <3>3, <3>6, <3>7
      <4>2. u * (k + z) = u * k + u * z BY <4>1, Distribute
      <4> QED BY <3>3, <3>7, <4>2
    <3> QED BY <3>4, <3>5, <3>6, <3>8
  <2>4. first \in Nat /\ first + e <= l
    <3> DEFINE z == k - (G + 1)
    <3> HIDE DEF k, G, e, l
    <3>1. z \in Nat /\ k = (G + 1) + z
      <4>1. setup.samples \in Int /\ setup.unique \in Nat \ {0} BY <2>1
      <4>2. k \in Int BY <4>1, Division DEF k
      <4> QED BY <2>3, <4>2
    <3> HIDE DEF z
    <3>2. e * ((G + 1) + z) = e * (G + 1) + e * z /\ e * (G + 1) = e * G + e * 1
      <4>1. e \in Int /\ G \in Int /\ z \in Int /\ G + 1 \in Int /\ 1 \in Int BY <2>1, <2>3, <3>1
      <4> QED BY <4>1, Distribute
    <3>3. e * z \in Nat /\ e * G \in Nat /\ e * 1 = e BY <2>1, <2>3, <3>1
    <3>4. l = e * ((G + 1) + z) BY <2>1, <2>3, <3>1
    <3> QED BY <2>1, <3>2, <3>3, <3>4
  \* One more repeat with every step of the sample's group.
  <2>5. ASSUME NEW d \in 0 .. l - 1
        PROVE  Below(c, (d + 1) * g, s) = Below(c, d * g, s) + IF d \div e = G THEN m ELSE 0
    <3>1. d \in Nat /\ d < l BY <1>1
    <3>2. Cardinality(PlacesOf(c, d * g, g, s)) = IF d \div e = G THEN m ELSE 0
      BY <1>3, <3>1, GroupStep
    <3> DEFINE x == d * g
    <3>3. x \in Nat /\ (d + 1) * g = x + g
      <4> HIDE DEF g
      <4> QED BY <1>1, <3>1
    <3>4. g \in Nat BY <1>1
    <3> HIDE DEF x, g, m, e, G
    <3>5. Below(c, x + g, s) = Below(c, x, s) + Cardinality(PlacesOf(c, x, g, s))
      BY <3>3, <3>4, BelowNext
    <3> QED BY <3>2, <3>3, <3>5 DEF x
  <2>6. ASSUME NEW d \in 0 .. l - 1
        PROVE  Had(d) \in Nat /\ Had(d + 1) = IF d \div e = G THEN Had(d) + 1 ELSE Had(d)
    <3> DEFINE q == d \div e  r == d % e
    <3>1. d \in Nat /\ e \in Nat \ {0} BY <1>1, <2>1
    <3>2. q \in Nat /\ d = e * q + r /\ r \in 0 .. e - 1
      <4>1. d \in Int BY <3>1
      <4> HIDE DEF e
      <4> QED BY <3>1, <4>1, Division, NextRemainder
    <3> HIDE DEF q, r
    <3>3. ASSUME q < G PROVE d < first
      <4> DEFINE z == G - (q + 1)
      <4> HIDE DEF G, e
      <4>1. z \in Nat /\ G = (q + 1) + z BY <2>3, <3>2, <3>3
      <4> HIDE DEF z
      <4>2. e * ((q + 1) + z) = e * (q + 1) + e * z /\ e * (q + 1) = e * q + e * 1
        <5>1. e \in Int /\ q \in Int /\ z \in Int /\ q + 1 \in Int /\ 1 \in Int BY <3>1, <3>2, <4>1
        <5> QED BY <5>1, Distribute
      <4>3. e * z \in Nat /\ e * q \in Nat /\ e * 1 = e BY <3>1, <3>2, <4>1
      <4>4. first = e * ((q + 1) + z) BY <4>1
      <4> QED BY <3>1, <3>2, <4>2, <4>3, <4>4
    <3>4. ASSUME q > G PROVE d >= first + e
      <4> DEFINE z == q - (G + 1)
      <4> HIDE DEF G, e
      <4>1. z \in Nat /\ q = (G + 1) + z BY <2>3, <3>2, <3>4
      <4> HIDE DEF z
      <4>2. e * ((G + 1) + z) = e * (G + 1) + e * z /\ e * (G + 1) = e * G + e * 1
        <5>1. e \in Int /\ G \in Int /\ z \in Int /\ G + 1 \in Int /\ 1 \in Int BY <2>3, <3>1, <4>1
        <5> QED BY <5>1, Distribute
      <4>3. e * z \in Nat /\ e * G \in Nat /\ e * 1 = e BY <2>3, <3>1, <4>1
      <4>4. e * q = e * ((G + 1) + z) BY <4>1
      <4> QED BY <3>1, <3>2, <4>2, <4>3, <4>4
    <3>5. ASSUME q = G PROVE d = first + r BY <3>2, <3>5
    <3> HIDE DEF first, e, G
    <3> QED BY <2>3, <2>4, <3>1, <3>2, <3>3, <3>4, <3>5 DEF q
  <2>7. Had(0) = 0 /\ Had(l) = e
    <3> HIDE DEF first, e, l
    <3> QED BY <1>1, <2>1, <2>4
  <2>8. Below(c, 0 * g, s) = 0
    <3>1. 0 * g = 0 /\ 0 .. 0 - 1 = {} BY <1>1
    <3>2. {n \in 0 .. 0 - 1 : n < Length /\ YieldIn(c, n) = s} = {} BY <3>1
    <3> HIDE DEF g
    <3> QED BY <3>1, <3>2, FS_EmptySet DEF Below
  <2> DEFINE T == {d \in 0 .. l : Below(c, d * g, s) = m * Had(d)}
  <2>9. 0 \in T
    <3>1. 0 \in 0 .. l /\ m * 0 = 0 BY <1>1, <2>1
    <3> HIDE DEF Had, g, m
    <3> QED BY <2>7, <2>8, <3>1
  <2>10. ASSUME NEW d \in 0 .. l - 1, d \in T PROVE d + 1 \in T
    <3>1. d + 1 \in 0 .. l BY <1>1
    <3>2. Below(c, d * g, s) = m * Had(d) BY <2>10
    <3> DEFINE h == Had(d)
    <3>3. h \in Nat /\ Had(d + 1) = IF d \div e = G THEN h + 1 ELSE h BY <2>6
    <3> HIDE DEF Had, h, g, m, e, G
    <3>4. m * (h + 1) = m * h + m /\ m * h \in Nat
      <4>1. m \in Nat BY <2>1
      <4> QED BY <3>3, <4>1
    <3>5. Below(c, (d + 1) * g, s) = m * Had(d + 1)
      <4>1. CASE d \div e = G BY <2>1, <2>5, <3>2, <3>3, <3>4, <4>1 DEF h
      <4>2. CASE ~(d \div e = G)
        <5>1. Below(c, (d + 1) * g, s) = m * h + 0 BY <2>5, <3>2, <4>2 DEF h
        <5> QED BY <3>3, <3>4, <4>2, <5>1
      <4> QED BY <4>1, <4>2
    <3> QED BY <3>1, <3>5
  <2>11. l \in T
    <3>1. l \in Nat /\ l \in 0 .. l BY <1>1
    <3> HIDE DEF T, l
    <3>2. 0 .. l \subseteq T BY <2>9, <2>10, <3>1, UpTo
    <3> QED BY <3>1, <3>2
  <2> HIDE DEF Had, e, m
  <2> QED BY <2>2, <2>7, <2>11
<1> QED BY <1>1, <1>2, <1>3

-----------------------------------------------------------------------------
(* The invariant. *)

\* Optimizer steps that so many microsteps of an epoch make.
StepsAfter(d) ==
    (d \div setup.ga) + (IF d = LocalBatches /\ d % setup.ga # 0 THEN 1 ELSE 0)

Numbers == /\ setup \in Setups /\ epoch \in Nat /\ cycle \in Nat /\ done \in Nat /\ step \in Nat
           /\ saved.step \in Nat

\* A checkpoint of mid-epoch has seen what its step stands for.
SavedIsWhole ==
    LET steps == saved.step % StepsPerEpoch
    IN  Accepted /\ steps > 0 =>
            /\ steps * setup.ga < LocalBatches
            /\ saved.seen = Trained(saved.step \div StepsPerEpoch, steps * setup.ga)

\* The step that HF counts is where the loader is.
StepIsPlace ==
    loop \in {"between", "epoch"} =>
        /\ Accepted /\ done <= LocalBatches
        /\ step = epoch * StepsPerEpoch + StepsAfter(done)

\* A job that resumes in mid-epoch has seen what it skips, and of the same cycle.
SkippedIsSeen ==
    loop = "between" =>
        /\ done < LocalBatches /\ done % setup.ga = 0
        /\ done > 0 => seen = Trained(epoch, done)

DoneIsSeen == loop = "epoch" => cycle = epoch /\ seen = Trained(cycle, done)

EpochInv == Numbers /\ SavedIsWhole /\ StepIsPlace /\ SkippedIsSeen /\ DoneIsSeen

LEMMA SameSetup ==
    ASSUME setup' = setup
    PROVE  /\ Accepted' = Accepted /\ LocalBatches' = LocalBatches /\ StepsPerEpoch' = StepsPerEpoch
           /\ \A c, d : Trained(c, d)' = Trained(c, d)
           /\ \A d : StepsAfter(d)' = StepsAfter(d)
<1>1. Accepted' = Accepted BY DEF Accepted, WholeGroups, WholeEpochs, Chunks
<1>2. Length' = Length /\ PerStep' = PerStep BY DEF Length, Share, PerStep
<1>3. LocalBatches' = LocalBatches BY <1>2 DEF LocalBatches, Batches, Chunks
<1>4. StepsPerEpoch' = StepsPerEpoch BY <1>3 DEF StepsPerEpoch, Chunks
<1>5. ASSUME NEW c, NEW n PROVE YieldIn(c, n)' = YieldIn(c, n) BY DEF YieldIn, RefIn
<1>6. ASSUME NEW c, NEW m, NEW s PROVE Below(c, m, s)' = Below(c, m, s) BY <1>2, <1>5 DEF Below
<1>7. Samples' = Samples BY DEF Samples
<1>8. ASSUME NEW c, NEW d PROVE Trained(c, d)' = Trained(c, d) BY <1>2, <1>6, <1>7 DEF Trained
<1>9. ASSUME NEW d PROVE StepsAfter(d)' = StepsAfter(d) BY <1>3 DEF StepsAfter
<1> QED BY <1>1, <1>3, <1>4, <1>8, <1>9

\* The optimizer steps of an epoch, as its microsteps make them.
LEMMA StepsOfEpoch ==
    ASSUME setup \in Setups, Accepted
    PROVE  /\ StepsPerEpoch \in Nat \ {0}
           /\ StepsAfter(0) = 0 /\ StepsAfter(LocalBatches) = StepsPerEpoch
           /\ \A d \in Nat : d < LocalBatches =>
                  /\ StepsAfter(d) \in Nat /\ StepsAfter(d) = d \div setup.ga
                  /\ StepsAfter(d + 1) = StepsAfter(d)
                         + (IF (d + 1) % setup.ga = 0 \/ d + 1 = LocalBatches THEN 1 ELSE 0)
                  /\ d % setup.ga = 0 =>
                         StepsAfter(d) < StepsPerEpoch /\ StepsAfter(d) * setup.ga = d
           /\ \A k \in Nat : k < StepsPerEpoch =>
                  /\ k * setup.ga \in Nat /\ k * setup.ga < LocalBatches
                  /\ (k * setup.ga) % setup.ga = 0
                  /\ StepsAfter(k * setup.ga) = k /\ (k * setup.ga > 0 => k > 0)
<1> DEFINE l == LocalBatches  a == setup.ga  p == StepsPerEpoch
<1>1. l \in Nat \ {0} /\ a \in Nat \ {0} BY WholeSteps, SetupTyped
<1>2. p = Chunks(l, a) BY <1>1 DEF StepsPerEpoch
<1>3. \A d : StepsAfter(d) = (d \div a) + (IF d = l /\ d % a # 0 THEN 1 ELSE 0) BY DEF StepsAfter
<1> SUFFICES /\ p \in Nat \ {0}
             /\ StepsAfter(0) = 0 /\ StepsAfter(l) = p
             /\ \A d \in Nat : d < l =>
                    /\ StepsAfter(d) \in Nat /\ StepsAfter(d) = d \div a
                    /\ StepsAfter(d + 1) = StepsAfter(d) + (IF (d + 1) % a = 0 \/ d + 1 = l
                                                           THEN 1 ELSE 0)
                    /\ d % a = 0 => StepsAfter(d) < p /\ StepsAfter(d) * a = d
             /\ \A k \in Nat : k < p =>
                    /\ k * a \in Nat /\ k * a < l /\ (k * a) % a = 0
                    /\ StepsAfter(k * a) = k /\ (k * a > 0 => k > 0)
  OBVIOUS
<1> HIDE DEF l, a, p
<1>4. /\ p \in Nat \ {0} /\ l <= a * p /\ a * (p - 1) < l
      /\ l % a = 0 => p = l \div a
      /\ \A k \in Int : l = a * k => p = k
  BY <1>1, <1>2, Ceiling
\* Where a number is below a multiple.
<1>5. ASSUME NEW q \in Nat, NEW k \in Nat, a * q < a * k PROVE q < k
  <2> SUFFICES ASSUME q >= k PROVE FALSE OBVIOUS
  <2> DEFINE z == q - k
  <2>1. z \in Nat /\ q = k + z OBVIOUS
  <2> HIDE DEF z
  <2>2. a * (k + z) = a * k + a * z
    <3>1. a \in Int /\ k \in Int /\ z \in Int BY <1>1, <2>1
    <3> QED BY <3>1, Distribute
  <2>3. a * z \in Nat /\ a * k \in Nat /\ a * q = a * (k + z) BY <1>1, <2>1
  <2> QED BY <1>5, <2>2, <2>3
<1>6. StepsAfter(0) = 0
  <2>1. (a * 0 + 0) \div a = 0 /\ a * 0 + 0 = 0
    <3>1. a \in Nat \ {0} /\ 0 \in Int /\ 0 \in 0 .. a - 1 BY <1>1
    <3>2. (a * 0 + 0) \div a = 0 BY <3>1, DivisionUnique
    <3> QED BY <1>1, <3>2
  <2> QED BY <1>1, <1>3, <2>1
<1>7. StepsAfter(l) = p
  <2>1. CASE l % a = 0
    <3>1. l \div a = p BY <1>4, <2>1
    <3> QED BY <1>3, <1>4, <2>1, <3>1
  <2>2. CASE l % a # 0
    <3> DEFINE q == p - 1  r == l - a * q
    <3>1. q \in Int /\ a * (q + 1) = a * q + a * 1 /\ a * q \in Int /\ a * 1 = a
      <4>1. q \in Int /\ 1 \in Int /\ a \in Int BY <1>1, <1>4
      <4> HIDE DEF q
      <4>2. a * (q + 1) = a * q + a * 1 BY <4>1, Distribute
      <4> QED BY <4>1, <4>2
    <3>2. q + 1 = p BY <1>4
    <3>3. a * q < l /\ l <= a * q + a BY <1>4, <3>1, <3>2
    <3> HIDE DEF q
    <3>4. r # a
      <4> SUFFICES ASSUME r = a PROVE FALSE OBVIOUS
      <4>1. l = a * (q + 1) /\ a * (q + 1) = a * (q + 1) + 0 BY <1>1, <3>1
      <4>2. q + 1 \in Int /\ 0 \in 0 .. a - 1 /\ a \in Nat \ {0} BY <1>1, <3>1
      <4>3. (a * (q + 1) + 0) % a = 0 BY <4>2, DivisionUnique
      <4> QED BY <2>2, <4>1, <4>3
    <3>5. r \in 0 .. a - 1 /\ l = a * q + r BY <1>1, <3>1, <3>3, <3>4
    <3> HIDE DEF r
    <3>6. (a * q + r) \div a = q BY <1>1, <3>1, <3>5, DivisionUnique
    <3>7. l \div a = q BY <3>5, <3>6
    <3> QED BY <1>3, <2>2, <3>2, <3>7
  <2> QED BY <2>1, <2>2
<1>8. ASSUME NEW d \in Nat, d < l
      PROVE  /\ StepsAfter(d) \in Nat /\ StepsAfter(d) = d \div a
             /\ StepsAfter(d + 1) = StepsAfter(d) + (IF (d + 1) % a = 0 \/ d + 1 = l THEN 1 ELSE 0)
             /\ d % a = 0 => StepsAfter(d) < p /\ StepsAfter(d) * a = d
  <2> DEFINE q == d \div a  r == d % a
  <2>1. q \in Nat /\ r \in 0 .. a - 1 /\ d = a * q + r
    <3>1. d \in Int BY <1>8
    <3> QED BY <1>1, <1>8, <3>1, Division, NextRemainder
  <2>2. StepsAfter(d) = q
    <3>1. d # l BY <1>1, <1>8
    <3> HIDE DEF q, r
    <3> QED BY <1>3, <2>1, <3>1 DEF q
  <2>3. /\ r < a - 1 => (d + 1) \div a = q /\ (d + 1) % a = r + 1
        /\ r = a - 1 => (d + 1) \div a = q + 1 /\ (d + 1) % a = 0
    BY <1>1, <1>8, NextRemainder
  <2>4. StepsAfter(d + 1)
            = ((d + 1) \div a) + (IF d + 1 = l /\ (d + 1) % a # 0 THEN 1 ELSE 0)
    BY <1>3
  <2> DEFINE q1 == (d + 1) \div a  r1 == (d + 1) % a
  <2> HIDE DEF q, r, q1, r1
  <2>5. StepsAfter(d + 1) = q + (IF r1 = 0 \/ d + 1 = l THEN 1 ELSE 0)
    <3>1. CASE r < a - 1
      <4>1. q1 = q /\ r1 = r + 1 /\ r1 # 0 BY <2>1, <2>3, <3>1 DEF q1, r1
      <4> QED BY <2>4, <4>1 DEF q1, r1
    <3>2. CASE r = a - 1
      <4>1. q1 = q + 1 /\ r1 = 0 BY <2>3, <3>2 DEF q1, r1
      <4>2. StepsAfter(d + 1) = q1 + 0 BY <2>4, <4>1 DEF q1, r1
      <4> QED BY <2>1, <4>1, <4>2
    <3> QED BY <1>1, <2>1, <3>1, <3>2
  <2>6. ASSUME r = 0 PROVE q < p /\ q * a = d
    <3>1. a * q = q * a /\ a * q \in Nat BY <1>1, <2>1
    <3>2. a * q = d BY <2>1, <2>6, <3>1
    <3>3. a * q < a * p
      <4>1. a * p \in Int BY <1>1, <1>4
      <4> QED BY <1>1, <1>4, <1>8, <3>2, <4>1
    <3>4. p \in Nat BY <1>4
    <3> QED BY <1>5, <2>1, <3>1, <3>2, <3>3, <3>4
  <2> QED BY <2>1, <2>2, <2>5, <2>6 DEF q, r, r1
<1>9. ASSUME NEW k \in Nat, k < p
      PROVE  /\ k * a \in Nat /\ k * a < l /\ (k * a) % a = 0
             /\ StepsAfter(k * a) = k /\ (k * a > 0 => k > 0)
  <2>1. k * a \in Nat /\ k * a = a * k /\ a * k + 0 = a * k BY <1>1
  <2>2. (a * k + 0) \div a = k /\ (a * k + 0) % a = 0
    <3>1. k \in Int /\ 0 \in 0 .. a - 1 BY <1>1
    <3> QED BY <1>1, <3>1, DivisionUnique
  <2>3. k * a < l
    <3> DEFINE z == (p - 1) - k
    <3>1. z \in Nat /\ p - 1 = k + z BY <1>4, <1>9
    <3> HIDE DEF z
    <3>2. a * (k + z) = a * k + a * z
      <4>1. a \in Int /\ k \in Int /\ z \in Int BY <1>1, <3>1
      <4> QED BY <4>1, Distribute
    <3>3. a * z \in Nat /\ a * (k + z) < l BY <1>1, <1>4, <3>1
    <3> QED BY <1>1, <2>1, <3>2, <3>3
  <2>4. StepsAfter(k * a) = k
    <3>1. (k * a) \div a = k /\ k * a # l BY <1>1, <2>1, <2>2, <2>3
    <3> QED BY <1>3, <3>1
  <2>5. ASSUME k * a > 0 PROVE k > 0
    <3> SUFFICES ASSUME k = 0 PROVE FALSE OBVIOUS
    <3> QED BY <1>1, <2>5
  <2> QED BY <2>1, <2>2, <2>3, <2>4, <2>5
<1> QED BY <1>4, <1>6, <1>7, <1>8, <1>9

LEMMA NothingTrained ==
    ASSUME setup \in Setups, Accepted, NEW c
    PROVE  Trained(c, 0) = Unseen
<1>1. 0 * PerStep = 0 /\ 0 .. 0 - 1 = {} BY WholeSteps
<1>2. ASSUME NEW s PROVE Below(c, 0 * PerStep, s) = 0
  <2>1. {n \in 0 .. 0 - 1 : n < Length /\ YieldIn(c, n) = s} = {} BY <1>1
  <2> QED BY <1>1, <2>1, FS_EmptySet DEF Below
<1> QED BY <1>2 DEF Trained, Unseen

\* So many whole epochs and the steps of the next.
LEMMA EpochOf ==
    ASSUME NEW p \in Nat \ {0}, NEW e \in Nat, NEW k \in Nat
    PROVE  /\ e * p + k \in Nat /\ e * p + p = (e + 1) * p /\ e * p + 0 = e * p
           /\ k < p => (e * p + k) \div p = e /\ (e * p + k) % p = k
<1>1. e * p \in Nat /\ p * e = e * p /\ e * p + p = (e + 1) * p OBVIOUS
<1>2. ASSUME k < p PROVE (e * p + k) \div p = e /\ (e * p + k) % p = k
  <2>1. e \in Int /\ k \in 0 .. p - 1 BY <1>2
  <2>2. (p * e + k) \div p = e /\ (p * e + k) % p = k BY <2>1, DivisionUnique
  <2> QED BY <1>1, <2>2
<1> QED BY <1>1, <1>2

LEMMA EpochBase == ASSUME EpochInit PROVE EpochInv
<1>1. Numbers BY DEF EpochInit, Numbers
<1>2. saved.step = 0 /\ setup \in Setups BY DEF EpochInit
<1>3. SavedIsWhole
  <2> SUFFICES ASSUME Accepted, 0 % StepsPerEpoch > 0 PROVE FALSE BY <1>2 DEF SavedIsWhole
  <2>1. StepsPerEpoch \in Nat \ {0} BY <1>2, StepsOfEpoch
  <2>2. (0 * StepsPerEpoch + 0) % StepsPerEpoch = 0 /\ 0 * StepsPerEpoch + 0 = 0
    <3> DEFINE p == StepsPerEpoch
    <3> HIDE DEF p
    <3>1. p \in Nat \ {0} /\ 0 \in Nat /\ 0 < p BY <2>1 DEF p
    <3>2. (0 * p + 0) % p = 0 BY <3>1, EpochOf
    <3> QED BY <3>1, <3>2 DEF p
  <2> QED BY <2>2
<1>4. StepIsPlace /\ SkippedIsSeen /\ DoneIsSeen
  BY DEF EpochInit, StepIsPlace, SkippedIsSeen, DoneIsSeen
<1> QED BY <1>1, <1>3, <1>4 DEF EpochInv

LEMMA EpochStep == ASSUME EpochInv, [EpochNext]_epochVars PROVE EpochInv'
<1> DEFINE p == StepsPerEpoch  l == LocalBatches  a == setup.ga
<1>1. Numbers /\ SavedIsWhole /\ StepIsPlace /\ SkippedIsSeen /\ DoneIsSeen BY DEF EpochInv
<1>2. setup' = setup
  BY DEF EpochNext, epochVars, Refuse, StartJob, RunEpoch, Microstep, Save, EndEpoch, Crash
<1>3. /\ Accepted' = Accepted /\ l' = l /\ p' = p /\ a' = a
      /\ \A c, d : Trained(c, d)' = Trained(c, d)
      /\ \A d : StepsAfter(d)' = StepsAfter(d)
      /\ setup' \in Setups /\ setup \in Setups
  BY <1>1, <1>2, SameSetup DEF Numbers
\* All but a save leaves the checkpoint.
<1>4. ASSUME saved' = saved PROVE SavedIsWhole' /\ saved'.step \in Nat
  <2>1. saved'.step \in Nat BY <1>1, <1>4 DEF Numbers
  <2> DEFINE k == saved.step % p
  <2>2. SavedIsWhole <=> (Accepted /\ k > 0 =>
                              k * a < l /\ saved.seen = Trained(saved.step \div p, k * a))
    BY DEF SavedIsWhole
  <2>3. SavedIsWhole' <=> (Accepted' /\ k' > 0 =>
                      k' * a' < l' /\ saved'.seen = (Trained(saved.step \div p, k * a))')
    BY DEF SavedIsWhole
  <2>4. k' = k BY <1>3, <1>4
  <2>5. (Trained(saved.step \div p, k * a))' = Trained(saved.step \div p, k * a)
    <3>1. saved' = saved /\ p' = p /\ a' = a BY <1>3, <1>4
    <3> DEFINE x == saved.step \div p  y == k * a
    <3>2. x' = x /\ y' = y BY <2>4, <3>1
    <3>3. (Trained(x, y))' = Trained(x, y)
      BY <1>2, <3>2 DEF Trained, Below, Length, Share, PerStep, Samples, YieldIn, RefIn
    <3> QED BY <3>3
  <2> QED BY <1>1, <1>3, <1>4, <2>1, <2>2, <2>3, <2>4, <2>5
\* The invariant of the next state, of the same setup.
<1>5. /\ Numbers' <=> /\ epoch' \in Nat /\ cycle' \in Nat /\ done' \in Nat /\ step' \in Nat
                      /\ saved'.step \in Nat
      /\ StepIsPlace' <=> (loop' \in {"between", "epoch"} =>
             Accepted /\ done' <= l /\ step' = epoch' * p + StepsAfter(done'))
      /\ SkippedIsSeen' <=> (loop' = "between" =>
             /\ done' < l /\ done' % a = 0
             /\ done' > 0 => seen' = Trained(epoch', done'))
      /\ DoneIsSeen' <=> (loop' = "epoch" => cycle' = epoch' /\ seen' = Trained(cycle', done'))
  <2>1. Numbers' <=> /\ epoch' \in Nat /\ cycle' \in Nat /\ done' \in Nat /\ step' \in Nat
                     /\ saved'.step \in Nat
    BY <1>3 DEF Numbers
  <2>2. (StepsAfter(done))' = StepsAfter(done') BY <1>2, <1>3 DEF StepsAfter
  <2>3. /\ (Trained(cycle, done))' = Trained(cycle', done')
        /\ (Trained(epoch, done))' = Trained(epoch', done')
    BY <1>2 DEF Trained, Below, Length, Share, PerStep, Samples, YieldIn, RefIn
  <2> QED BY <1>3, <2>1, <2>2, <2>3 DEF StepIsPlace, SkippedIsSeen, DoneIsSeen
<1>6. ASSUME Accepted PROVE p \in Nat \ {0} /\ l \in Nat \ {0} BY <1>3, <1>6, StepsOfEpoch, WholeSteps
<1> HIDE DEF p, l, a
<1>7. CASE Refuse
  <2>1. UNCHANGED <<epoch, cycle, done, step, saved>> /\ loop' = "refused" BY <1>7 DEF Refuse
  <2> QED BY <1>1, <1>4, <1>5, <2>1 DEF EpochInv, Numbers
<1>8. CASE StartJob
  <2> DEFINE k == saved.step % p  e == saved.step \div p
  <2>1. /\ Accepted /\ step' = saved.step /\ seen' = saved.seen /\ epoch' = e /\ done' = k * a
        /\ cycle' = 0 /\ loop' = "between" /\ saved' = saved
    BY <1>8 DEF StartJob, p, a
  <2>2. k \in Nat /\ k < p /\ e \in Nat /\ saved.step = e * p + k
    <3> DEFINE x == saved.step
    <3>1. x \in Nat /\ x \in Int /\ p \in Nat \ {0} BY <1>1, <1>6, <2>1 DEF Numbers
    <3> HIDE DEF x
    <3>2. x \div p \in Nat /\ x % p \in 0 .. p - 1 /\ x = p * (x \div p) + (x % p)
      BY <3>1, Division, NextRemainder
    <3> DEFINE y == x \div p  z == x % p
    <3> HIDE DEF y, z
    <3>3. y \in Nat /\ z \in Nat /\ z < p /\ x = p * y + z BY <3>1, <3>2 DEF y, z
    <3>4. p * y = y * p BY <3>1, <3>3
    <3> QED BY <3>3, <3>4 DEF x, y, z
  <2> HIDE DEF e
  <2>3. /\ k * a \in Nat /\ k * a < l /\ (k * a) % a = 0
        /\ StepsAfter(k * a) = k /\ (k * a > 0 => k > 0)
    <3> HIDE DEF k
    <3> QED BY <1>3, <2>1, <2>2, StepsOfEpoch DEF p, l, a
  <2>4. k > 0 => saved.seen = Trained(e, k * a) BY <1>1, <2>1 DEF SavedIsWhole, p, a, e
  <2> HIDE DEF k
  <2>5. l \in Nat BY <1>6, <2>1
  <2>6. SavedIsWhole' /\ saved'.step \in Nat BY <1>4, <2>1
  <2>7. Numbers' BY <1>1, <1>5, <2>1, <2>2, <2>3, <2>6 DEF Numbers
  <2>8. StepIsPlace' BY <1>5, <2>1, <2>2, <2>3, <2>5
  <2>9. SkippedIsSeen' /\ DoneIsSeen' BY <1>5, <2>1, <2>3, <2>4
  <2> QED BY <2>6, <2>7, <2>8, <2>9 DEF EpochInv
<1>9. CASE RunEpoch
  <2>1. /\ loop = "between" /\ cycle' = epoch /\ seen' = (IF done > 0 THEN seen ELSE Unseen)
        /\ loop' = "epoch" /\ UNCHANGED <<epoch, done, step, saved>>
    BY <1>9 DEF RunEpoch
  <2>2. Accepted /\ done <= l /\ step = epoch * p + StepsAfter(done)
    BY <1>1, <2>1 DEF StepIsPlace, l, p
  <2>3. Trained(epoch, 0) = Unseen BY <1>3, <2>2, NothingTrained
  <2>4. done > 0 => seen = Trained(epoch, done) BY <1>1, <2>1 DEF SkippedIsSeen
  <2>5. seen' = Trained(epoch, done)
    <3>1. done \in Nat BY <1>1 DEF Numbers
    <3>2. CASE done = 0 BY <2>1, <2>3, <3>2
    <3>3. CASE done > 0 BY <2>1, <2>4, <3>3
    <3> QED BY <3>1, <3>2, <3>3
  <2>6. SavedIsWhole' /\ saved'.step \in Nat BY <1>4, <2>1
  <2>7. Numbers' BY <1>1, <1>5, <2>1, <2>6 DEF Numbers
  <2>8. StepIsPlace' /\ SkippedIsSeen' /\ DoneIsSeen' BY <1>5, <2>1, <2>2, <2>5
  <2> QED BY <2>6, <2>7, <2>8 DEF EpochInv
<1>10. CASE Microstep
  <2>1. /\ loop = "epoch" /\ ~Exhausted /\ done' = done + 1 /\ loop' = "epoch"
        /\ seen' = [s \in Samples |-> seen[s] + InStep(s)]
        /\ step' = (IF done' % a = 0 \/ done' = l THEN step + 1 ELSE step)
        /\ UNCHANGED <<epoch, cycle, saved>>
    BY <1>10 DEF Microstep, Exhausted, a, l
  <2>2. /\ Accepted /\ done \in Nat /\ epoch \in Nat /\ step \in Nat /\ done <= l
        /\ step = epoch * p + StepsAfter(done)
    BY <1>1, <2>1 DEF StepIsPlace, Numbers, l, p
  <2>3. done < l
    <3>1. l \in Nat BY <1>6, <2>2
    <3>2. ~(done >= l) BY <1>3, <2>1, <2>2, Exhaustion DEF l
    <3> QED BY <2>2, <3>1, <3>2
  <2>4. /\ StepsAfter(done) \in Nat
        /\ StepsAfter(done + 1) = StepsAfter(done) + (IF (done + 1) % a = 0 \/ done + 1 = l
                                                     THEN 1 ELSE 0)
    BY <1>3, <2>2, <2>3, StepsOfEpoch DEF l, a
  <2>5. cycle = epoch /\ seen = Trained(cycle, done) BY <1>1, <2>1 DEF DoneIsSeen
  <2>6. seen' = Trained(cycle, done + 1)
    <3>1. ASSUME NEW s \in Samples
          PROVE  seen[s] + InStep(s) = Below(cycle, (done + 1) * PerStep, s)
      <4>1. seen[s] = Below(cycle, done * PerStep, s) BY <2>5 DEF Trained
      <4>2. Below(cycle, (done + 1) * PerStep, s) = Below(cycle, done * PerStep, s) + InStep(s)
        BY <1>3, <2>2, StepIsNext
      <4> QED BY <4>1, <4>2
    <3> QED BY <2>1, <3>1 DEF Trained
  <2>7. SavedIsWhole' /\ saved'.step \in Nat BY <1>4, <2>1
  <2>8. step' \in Nat /\ step' = epoch * p + StepsAfter(done + 1)
    <3> DEFINE x == epoch * p  y == StepsAfter(done)
    <3>1. x \in Nat
      <4>1. p \in Nat BY <1>6, <2>2
      <4> QED BY <2>2, <4>1
    <3> HIDE DEF x, y
    <3>2. y \in Nat /\ step = x + y BY <2>2, <2>4 DEF x, y
    <3>3. StepsAfter(done + 1) = y + (IF done' % a = 0 \/ done' = l THEN 1 ELSE 0)
      BY <2>1, <2>4 DEF y
    <3>4. step' = x + StepsAfter(done + 1) BY <2>1, <3>1, <3>2, <3>3
    <3>5. step' \in Nat BY <2>1, <2>2
    <3> QED BY <3>4, <3>5 DEF x
  <2>9. Numbers' BY <1>1, <1>5, <2>1, <2>2, <2>7, <2>8 DEF Numbers
  <2>10. done + 1 <= l
    <3>1. l \in Nat BY <1>6, <2>2
    <3> QED BY <2>2, <2>3, <3>1
  <2>11. StepIsPlace' BY <1>5, <2>1, <2>2, <2>8, <2>10
  <2>12. SkippedIsSeen' /\ DoneIsSeen' BY <1>5, <2>1, <2>5, <2>6
  <2> QED BY <2>7, <2>9, <2>11, <2>12 DEF EpochInv
<1>11. CASE Save
  <2>1. /\ loop = "epoch" /\ (done % a = 0 \/ done = l)
        /\ saved' = [step |-> step, seen |-> seen]
        /\ UNCHANGED <<epoch, cycle, done, step, seen, loop>>
    BY <1>11 DEF Save, a, l
  <2>2. /\ Accepted /\ done \in Nat /\ epoch \in Nat /\ step \in Nat /\ done <= l
        /\ step = epoch * p + StepsAfter(done)
    BY <1>1, <2>1 DEF StepIsPlace, Numbers, l, p
  <2>3. cycle = epoch /\ seen = Trained(epoch, done) BY <1>1, <2>1 DEF DoneIsSeen
  <2>4. p \in Nat \ {0} /\ l \in Nat \ {0} BY <1>6, <2>2
  <2> DEFINE k == step % p  e == step \div p
  <2>5. k > 0 => k * a < l /\ seen = Trained(e, k * a)
    <3>1. CASE done = l
      <4>1. StepsAfter(done) = p BY <1>3, <2>2, <3>1, StepsOfEpoch DEF p, l
      <4>2. step = (epoch + 1) * p + 0 /\ epoch + 1 \in Nat /\ 0 \in Nat /\ 0 < p
        <5>1. epoch * p + p = (epoch + 1) * p /\ epoch + 1 \in Nat BY <2>2, <2>4, EpochOf
        <5>2. (epoch + 1) * p + 0 = (epoch + 1) * p BY <2>4, <5>1, EpochOf
        <5> QED BY <2>2, <2>4, <4>1, <5>1, <5>2
      <4>3. k = 0 BY <2>4, <4>2, EpochOf
      <4> QED BY <4>3
    <3>2. CASE done # l
      <4>1. done < l /\ done % a = 0 BY <2>1, <2>2, <2>4, <3>2
      <4> DEFINE q == StepsAfter(done)
      <4>2. q \in Nat /\ q < p /\ q * a = done BY <1>3, <2>2, <4>1, StepsOfEpoch DEF p, l, a
      <4> HIDE DEF q
      <4>3. step = epoch * p + q BY <2>2 DEF q
      <4>4. e = epoch /\ k = q BY <2>2, <2>4, <4>2, <4>3, EpochOf
      <4> HIDE DEF e, k
      <4> QED BY <2>3, <4>1, <4>2, <4>4
    <3> QED BY <3>1, <3>2
  <2>6. saved'.step = step /\ saved'.seen = seen BY <2>1
  <2>7. SavedIsWhole'
    <3>1. SavedIsWhole' <=> (Accepted' /\ (saved'.step % p') > 0 =>
             /\ (saved'.step % p') * a' < l'
             /\ saved'.seen = (Trained(saved.step \div p, (saved.step % p) * a))')
      BY DEF SavedIsWhole, p, l, a
    <3>2. (Trained(saved.step \div p, (saved.step % p) * a))' = Trained(e, k * a)
      <4>1. (saved.step \div p)' = e /\ ((saved.step % p) * a)' = k * a BY <1>3, <2>6
      <4> HIDE DEF e, k
      <4> QED BY <1>2, <4>1 DEF Trained, Below, Length, Share, PerStep, Samples, YieldIn, RefIn
    <3> QED BY <1>3, <2>5, <2>6, <3>1, <3>2
  <2>8. Numbers' BY <1>1, <1>5, <2>1, <2>2, <2>6 DEF Numbers
  <2>9. StepIsPlace' /\ SkippedIsSeen' /\ DoneIsSeen' BY <1>5, <2>1, <2>2, <2>3
  <2> QED BY <2>7, <2>8, <2>9 DEF EpochInv
<1>12. CASE EndEpoch
  <2>1. /\ loop = "epoch" /\ Exhausted /\ epoch' = epoch + 1 /\ done' = 0 /\ loop' # "epoch"
        /\ UNCHANGED <<cycle, step, seen, saved>>
    BY <1>12 DEF EndEpoch
  <2>2. /\ Accepted /\ done \in Nat /\ epoch \in Nat /\ step \in Nat /\ done <= l
        /\ step = epoch * p + StepsAfter(done)
    BY <1>1, <2>1 DEF StepIsPlace, Numbers, l, p
  <2>3. p \in Nat \ {0} /\ l \in Nat \ {0} BY <1>6, <2>2
  <2>4. done = l
    <3>1. done >= l BY <1>3, <2>1, <2>2, Exhaustion DEF l
    <3> QED BY <2>2, <2>3, <3>1
  <2>5. StepsAfter(done) = p /\ StepsAfter(0) = 0 BY <1>3, <2>2, <2>4, StepsOfEpoch DEF p, l
  <2>6. step = (epoch + 1) * p + StepsAfter(0)
    <3>1. epoch * p + p = (epoch + 1) * p /\ epoch + 1 \in Nat /\ 0 \in Nat BY <2>2, <2>3, EpochOf
    <3>2. (epoch + 1) * p + 0 = (epoch + 1) * p BY <2>3, <3>1, EpochOf
    <3> QED BY <2>2, <2>5, <3>1, <3>2
  <2>7. 0 % a = 0
    <3>1. 0 < p /\ 0 \in Nat BY <2>3
    <3>2. (0 * a) % a = 0 BY <1>3, <2>2, <3>1, StepsOfEpoch DEF p, a
    <3>3. 0 * a = 0
      <4>1. a \in Nat BY <1>3, SetupTyped DEF a
      <4> QED BY <4>1
    <3> QED BY <3>2, <3>3
  <2>8. SavedIsWhole' /\ saved'.step \in Nat BY <1>4, <2>1
  <2>9. Numbers' BY <1>1, <1>5, <2>1, <2>2, <2>8 DEF Numbers
  <2>10. StepIsPlace' BY <1>5, <2>1, <2>2, <2>3, <2>6
  <2>11. SkippedIsSeen' /\ DoneIsSeen' BY <1>5, <2>1, <2>3, <2>7
  <2> QED BY <2>8, <2>9, <2>10, <2>11 DEF EpochInv
<1>13. CASE Crash
  <2>1. UNCHANGED <<epoch, cycle, done, step, saved>> /\ loop' = "start" BY <1>13 DEF Crash
  <2> QED BY <1>1, <1>4, <1>5, <2>1 DEF EpochInv, Numbers
<1>14. CASE UNCHANGED epochVars
  <2>1. UNCHANGED <<epoch, cycle, done, step, saved, seen, loop>> BY <1>14 DEF epochVars
  <2> QED BY <1>1, <1>4, <1>5, <2>1 DEF EpochInv, Numbers, StepIsPlace, SkippedIsSeen, DoneIsSeen, l, p, a
<1> QED BY <1>7, <1>8, <1>9, <1>10, <1>11, <1>12, <1>13, <1>14 DEF EpochNext

\* All ranks have as many samples in a microstep if every microstep is full.
LEMMA FullBatches ==
    ASSUME setup \in Setups, Accepted, done \in Nat, done < LocalBatches,
           setup.equal, setup.world > 1, NEW r \in DataRank
    PROVE  Cardinality(BatchAt(r)) = setup.batch
<1> DEFINE w == setup.world  b == setup.batch  l == LocalBatches  first == (done * w + r) * b
<1>1. w \in Nat \ {0} /\ b \in Nat \ {0} /\ l \in Nat \ {0} /\ Length = l * (w * b)
  BY SetupTyped, WholeSteps DEF PerStep
<1>2. r \in 0 .. w - 1 BY DEF DataRank
<1> HIDE DEF w, b, l
<1>3. first \in Nat /\ first + b <= Length
  <2> DEFINE z == l - (done + 1)  y == w - (r + 1)
  <2>1. z \in Nat /\ l = (done + 1) + z /\ y \in Nat /\ w = (r + 1) + y /\ r \in Nat
    BY <1>1, <1>2 DEF l
  <2> HIDE DEF z, y
  <2>2. l * w = w * (done + 1) + w * z /\ w * (done + 1) = done * w + w /\ w * z \in Nat
        /\ done * w \in Nat
    <3>1. w \in Int /\ done \in Int /\ z \in Int /\ done + 1 \in Int /\ 1 \in Int BY <1>1, <2>1
    <3>2. w * ((done + 1) + z) = w * (done + 1) + w * z /\ w * (done + 1) = w * done + w * 1
      BY <3>1, Distribute
    <3>3. w * done = done * w /\ w * 1 = w /\ l * w = w * ((done + 1) + z) BY <1>1, <2>1
    <3>4. w * z \in Nat /\ done * w \in Nat BY <1>1, <2>1
    <3> QED BY <3>2, <3>3, <3>4
  <2> DEFINE x == done * w  t == y + w * z
  <2>3. t \in Nat /\ x \in Nat /\ l * w = ((x + r) + 1) + t
    <3> DEFINE v == w * z
    <3> HIDE DEF x, v
    <3>1. x \in Nat /\ v \in Nat /\ l * w = (x + w) + v BY <2>2 DEF x, v
    <3> QED BY <2>1, <3>1 DEF v
  <2> HIDE DEF t, x
  <2>4. b * (((x + r) + 1) + t) = b * ((x + r) + 1) + b * t
        /\ b * ((x + r) + 1) = b * (x + r) + b * 1
    <3>1. b \in Int /\ x + r \in Int /\ (x + r) + 1 \in Int /\ t \in Int /\ 1 \in Int
      BY <1>1, <2>1, <2>3
    <3> QED BY <3>1, Distribute
  <2>5. b * t \in Nat /\ b * 1 = b /\ b * (x + r) = (x + r) * b /\ (x + r) * b \in Nat
    BY <1>1, <2>1, <2>3
  <2>6. l * (w * b) = b * (l * w)
    <3>1. l * w \in Int BY <1>1
    <3>2. (l * w) * b = l * (w * b) BY <1>1, Regroup
    <3>3. (l * w) * b = b * (l * w) BY <1>1, <3>1
    <3> QED BY <3>2, <3>3
  <2>7. first = (x + r) * b BY DEF x
  <2>8. Length = ((x + r) * b + b) + b * t BY <1>1, <2>3, <2>4, <2>5, <2>6
  <2> QED BY <1>1, <2>5, <2>7, <2>8
<1>4. BatchAt(r) = first .. first + b - 1
  <2>1. BatchAt(r) = {n \in first .. first + b - 1 : n < Length} BY DEF BatchAt, w, b
  <2>2. Length \in Nat BY WholeSteps
  <2> HIDE DEF first
  <2> QED BY <1>1, <1>3, <2>1, <2>2
<1>5. Cardinality(first .. first + b - 1) = b
  <2> HIDE DEF first
  <2>1. first \in Int /\ first + b - 1 \in Int BY <1>1, <1>3
  <2>2. Cardinality(first .. first + b - 1)
            = IF first > first + b - 1 THEN 0 ELSE (first + b - 1) - first + 1
    BY <2>1, FS_Interval
  <2>3. first + b - 1 = (first + b) - 1 BY <1>1, <1>3
  <2> QED BY <1>1, <1>3, <2>2, <2>3
<1> QED BY <1>4, <1>5 DEF b

\* What the invariant says of an epoch.
LEMMA EpochMeans == ASSUME EpochInv PROVE EpochIsWhole
<1> SUFFICES ASSUME loop = "epoch"
             PROVE  /\ Exhausted => seen = [s \in Samples |-> Share]
                    /\ setup.grouped /\ ~Exhausted => \A s \in Samples : InStep(s) \in {0, setup.mini}
                    /\ setup.equal /\ ~Exhausted =>
                           \A q, r \in DataRank : Cardinality(BatchAt(q)) = Cardinality(BatchAt(r))
  BY DEF EpochIsWhole
<1>1. /\ setup \in Setups /\ Accepted /\ done \in Nat /\ cycle \in Nat /\ done <= LocalBatches
      /\ seen = Trained(cycle, done)
  BY DEF EpochInv, Numbers, StepIsPlace, DoneIsSeen
<1>2. LocalBatches \in Nat /\ (Exhausted <=> done >= LocalBatches) BY <1>1, Exhaustion, WholeSteps
<1>3. ASSUME Exhausted PROVE seen = [s \in Samples |-> Share]
  <2>1. done = LocalBatches BY <1>1, <1>2, <1>3
  <2>2. \A s \in Samples : Below(cycle, LocalBatches * PerStep, s) = Share BY <1>1, Covered
  <2> QED BY <1>1, <2>1, <2>2 DEF Trained
<1>4. ASSUME setup.grouped, ~Exhausted, NEW s \in Samples PROVE InStep(s) \in {0, setup.mini}
  <2>1. done < LocalBatches BY <1>1, <1>2, <1>4
  <2>2. InStep(s) = Cardinality(PlacesOf(cycle, done * PerStep, PerStep, s)) BY <1>1, StepIsNext
  <2>3. Cardinality(PlacesOf(cycle, done * PerStep, PerStep, s))
            = IF done \div setup.repeat = GroupOf(cycle, s) THEN setup.mini ELSE 0
    BY <1>1, <1>4, <2>1, GroupStep
  <2> QED BY <2>2, <2>3
<1>5. ASSUME setup.equal, ~Exhausted, NEW q \in DataRank, NEW r \in DataRank
      PROVE  Cardinality(BatchAt(q)) = Cardinality(BatchAt(r))
  <2>1. done < LocalBatches BY <1>1, <1>2, <1>5
  <2>2. setup.world \in Nat \ {0} BY <1>1, SetupTyped
  <2>3. CASE setup.world > 1 BY <1>1, <1>5, <2>1, <2>3, FullBatches
  <2>4. CASE setup.world = 1
    <3>1. q = 0 /\ r = 0 BY <2>4 DEF DataRank
    <3> QED BY <3>1
  <2> QED BY <2>2, <2>3, <2>4
<1> QED BY <1>3, <1>4, <1>5

\* Epochs without a planner train every sample as often as they are to (ShaftSampleSampler and
\* ShaftGroupedSampleSampler under HF's loop), wherever jobs crash and resume: for any
\* samplers, geometries, epochs and jobs.
THEOREM EpochsTrainAll == EpochSpec => []EpochIsWhole
<1>1. EpochInit => EpochInv BY EpochBase
<1>2. EpochInv /\ [EpochNext]_epochVars => EpochInv' BY EpochStep
<1>3. EpochInv => EpochIsWhole BY EpochMeans
<1> QED BY <1>1, <1>2, <1>3, PTL DEF EpochSpec
=============================================================================
