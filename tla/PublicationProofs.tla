--------------------------- MODULE PublicationProofs ---------------------------
(***************************************************************************)
(* What is published whole or not at all.  The markers of one checkpoint   *)
(* directory, for any number of ranks and of saves, in any modes; and the  *)
(* artifacts of several hosts and their merge.                             *)
(***************************************************************************)
EXTENDS PublicationModes, DetectionMap, SequenceTheorems, FiniteSetTheorems, TLAPS

\* A file's content is an attempt that has begun; saving says how far the last one is.
Shape ==
    /\ modes \in Seq(AllModes)
    /\ contents \in [Artifacts -> Int]
    /\ \A a \in Artifacts : -attempt <= contents[a] /\ contents[a] <= attempt
    /\ written \in [Ranks -> Nat] /\ open \in [Ranks -> BOOLEAN]
    /\ saving \in {"idle", "clear", "prepare", "save"}
    /\ saving # "idle" => attempt > 0
    /\ saving = "prepare" => ~mode.only
    /\ saving = "clear" => mode.only
    /\ reported \in Nat

\* The attempt under way has written what the ranks have counted, and nothing before "save".
WrittenInv ==
    /\ saving \in {"clear", "prepare"} =>
           /\ \A a \in Artifacts : -attempt < contents[a] /\ contents[a] < attempt
           /\ \A r \in Ranks : written[r] = 0 /\ ~open[r]
    /\ saving = "save" =>
           \A r \in Ranks :
               /\ written[r] + (IF open[r] THEN 1 ELSE 0) <= Len(Duty(mode, r))
               /\ \A i \in 1 .. written[r] : contents[Duty(mode, r)[i]] = attempt

\* What the manifest records is one ddp attempt's, and older than what is being written.
ManifestInv ==
    commit # NoMarker =>
        /\ commit.status = "committed"
        /\ Required \subseteq DOMAIN commit.files /\ DOMAIN commit.files \subseteq Artifacts
        /\ commit.files[trainerState] \in 1 .. attempt
        /\ UsesCommit(modes[commit.files[trainerState]])
        /\ \A a \in Required : commit.files[a] = commit.files[trainerState]
        /\ \A a \in DOMAIN commit.files :
              /\ commit.files[a] \in Int /\ commit.files[a] # 0
              /\ -commit.files[trainerState] <= commit.files[a]
              /\ commit.files[a] <= commit.files[trainerState]
        /\ commit.backend # NoMarker =>
              /\ commit.backend.generation \in Int
              /\ commit.backend.generation <= commit.files[trainerState]
        /\ saving # "idle" => commit.files[trainerState] < attempt
        /\ saving = "save" => ~UsesCommit(mode) /\ ~mode.only

\* The same of the backend's marker; the shards are still those it was committed for, or gone.
BackendInv ==
    /\ backend # NoMarker =>
          /\ backend.status \in {"prepared", "committed"}
          /\ backend.generation \in 1 .. attempt
          /\ saving = "save" => ~mode.only
          /\ backend.status = "committed" =>
                /\ DOMAIN backend.files = Hashed \cup Shards
                /\ backend.files[trainerState] \in 1 .. attempt
                /\ UsesPlanningCommit(modes[backend.files[trainerState]])
                /\ \A a \in Hashed \cup Shards : backend.files[a] = backend.files[trainerState]
                /\ saving # "idle" => backend.files[trainerState] < attempt
                /\ AllPublish => \A a \in Shards : contents[a] \in {0, backend.files[trainerState]}
    /\ saving = "save" /\ UsesPlanningCommit(mode) => backend.status = "prepared"

\* A model-only marker stands in a directory that has nothing else, until a save writes there.
ModelOnlyInv ==
    modelOnly # NoMarker =>
        /\ modelOnly.status = "committed" /\ saving \in {"idle", "clear"}
        /\ modelOnly.weights \in 1 .. attempt
        /\ contents[weights] \in {0, modelOnly.weights}
        /\ ~Forbidden

ReportedInv ==
    reported # 0 => saving = "idle" /\ reported = attempt /\ ReportedUsableWithoutLeftover

PublicationInv ==
    Shape /\ WrittenInv /\ ManifestInv /\ BackendInv /\ ModelOnlyInv /\ ReportedInv
-----------------------------------------------------------------------------
(***************************************************************************)
(* What a rank writes.                                                     *)
(***************************************************************************)
LEMMA DutyWithin ==
    ASSUME NEW m, NEW r \in Ranks
    PROVE  /\ Len(Duty(m, r)) \in Nat
           /\ \A i \in 1 .. Len(Duty(m, r)) : Duty(m, r)[i] \in Artifacts
  BY DEF Duty, Artifacts, weights, optimizer, trainerState, Shards, Rngs, Ranks

LEMMA DutyIs ==
    ASSUME NEW m, NEW r \in Ranks
    PROVE  Duty(m, r) =
             IF m.only THEN IF r # 0 THEN <<>> ELSE <<weights, trainerState>>
             ELSE IF UsesCommit(m)
             THEN IF r # 0 THEN << <<"rng", r>> >>
                  ELSE <<weights, optimizer, <<"rng", 0>>, trainerState>>
             ELSE IF r # 0 THEN << <<"shard", r>>, <<"rng", r>> >>
                  ELSE <<weights, <<"shard", 0>>, <<"rng", 0>>, trainerState>>
  <1>1. CASE m.only
    BY <1>1 DEF Duty, UsesCommit
  <1>2. CASE ~m.only /\ UsesCommit(m)
    BY <1>2 DEF Duty
  <1>3. CASE ~m.only /\ ~UsesCommit(m)
    BY <1>3 DEF Duty
  <1> QED
    BY <1>1, <1>2, <1>3

LEMMA DutyOnce ==
    ASSUME NEW m, NEW r \in Ranks, NEW q \in Ranks,
           NEW i \in 1 .. Len(Duty(m, r)), NEW j \in 1 .. Len(Duty(m, q)),
           Duty(m, r)[i] = Duty(m, q)[j]
    PROVE  r = q /\ i = j
  <1>1. CASE m.only
    BY <1>1 DEF Duty, weights, optimizer, trainerState
  <1>2. CASE ~m.only /\ UsesCommit(m)
    BY <1>2 DEF Duty, weights, optimizer, trainerState
  <1>3. CASE ~m.only /\ ~UsesCommit(m)
    BY <1>3 DEF Duty, weights, optimizer, trainerState
  <1> QED
    BY <1>1, <1>2, <1>3

LEMMA PerRank ==
    /\ \A a \in Rngs : \E r \in Ranks : a = <<"rng", r>>
    /\ \A a \in Shards : \E r \in Ranks : a = <<"shard", r>>
  BY DEF Rngs, Shards

\* A save that is over has written every file its marker needs.
LEMMA SavedIsOneAttempt ==
    ASSUME WrittenInv, Saved
    PROVE  /\ contents[trainerState] = attempt /\ contents[weights] = attempt
           /\ UsesCommit(mode) => \A a \in Required : contents[a] = attempt
           /\ ~mode.only /\ ~UsesCommit(mode) =>
                  \A a \in Hashed \cup Shards : contents[a] = attempt
  <1>1. \A r \in Ranks : \A i \in 1 .. Len(Duty(mode, r)) : contents[Duty(mode, r)[i]] = attempt
    BY DEF WrittenInv, Saved
  <1>2. 0 \in Ranks
    BY DEF Ranks
  <1>3. CASE mode.only
    <2>1. Duty(mode, 0) = <<weights, trainerState>>
      BY <1>2, <1>3, DutyIs
    <2>2. contents[weights] = attempt /\ contents[trainerState] = attempt
      BY <1>1, <1>2, <2>1, SMTT(30)
    <2> QED
      BY <2>2, <1>3 DEF UsesCommit
  <1>4. CASE ~mode.only /\ UsesCommit(mode)
    <2>1. Duty(mode, 0) = <<weights, optimizer, <<"rng", 0>>, trainerState>>
      BY <1>2, <1>4, DutyIs
    <2>2. /\ contents[weights] = attempt /\ contents[optimizer] = attempt
          /\ contents[<<"rng", 0>>] = attempt /\ contents[trainerState] = attempt
      BY <1>1, <1>2, <2>1
    <2>3. ASSUME NEW r \in Ranks, r # 0
          PROVE  contents[<<"rng", r>>] = attempt
      <3>1. Duty(mode, r) = << <<"rng", r>> >>
        BY <2>3, <1>4, DutyIs
      <3> QED
        BY <3>1, <1>1
    <2>4. \A a \in Rngs : contents[a] = attempt
      BY <2>2, <2>3, PerRank
    <2> QED
      BY <2>2, <2>4, <1>4 DEF Required
  <1>5. CASE ~mode.only /\ ~UsesCommit(mode)
    <2>1. Duty(mode, 0) = <<weights, <<"shard", 0>>, <<"rng", 0>>, trainerState>>
      BY <1>2, <1>5, DutyIs
    <2>2. /\ contents[weights] = attempt /\ contents[<<"shard", 0>>] = attempt
          /\ contents[<<"rng", 0>>] = attempt /\ contents[trainerState] = attempt
      BY <1>1, <1>2, <2>1, SMTT(30)
    <2>3. ASSUME NEW r \in Ranks, r # 0
          PROVE  contents[<<"rng", r>>] = attempt /\ contents[<<"shard", r>>] = attempt
      <3>1. Duty(mode, r) = << <<"shard", r>>, <<"rng", r>> >>
        BY <2>3, <1>5, DutyIs
      <3> QED
        BY <3>1, <1>1
    <2>4. \A a \in Rngs \cup Shards : contents[a] = attempt
      BY <2>2, <2>3, PerRank
    <2> QED
      BY <2>2, <2>4, <1>5 DEF Hashed
  <1> QED
    BY <1>3, <1>4, <1>5

\* Only a sharded save writes shards.
LEMMA ShardDuty ==
    ASSUME NEW m, NEW r \in Ranks, NEW i \in 1 .. Len(Duty(m, r)), Duty(m, r)[i] \in Shards
    PROVE  ~m.only /\ ~UsesCommit(m)
  BY DEF Duty, Shards, weights, optimizer, trainerState, Rngs

LEMMA Names ==
    /\ weights \in Artifacts /\ trainerState \in Artifacts
    /\ Required \subseteq Artifacts /\ Hashed \cup Shards \subseteq Artifacts
    /\ trainerState \in Required /\ trainerState \in Hashed /\ weights \notin Hashed \cup Shards
    /\ weights # trainerState /\ trainerState \notin Shards
  BY DEF Artifacts, Required, Hashed, Shards, Rngs, weights, trainerState, optimizer

-----------------------------------------------------------------------------
(***************************************************************************)
(* The invariant.                                                          *)
(***************************************************************************)
LEMMA InitInv ==
    ASSUME ModesInit
    PROVE  PublicationInv
  <1>1. modes = <<>> /\ Len(modes) = 0 /\ attempt = 0
    BY DEF ModesInit, attempt
  <1>2. Shape
    BY <1>1 DEF ModesInit, Shape, Absent
  <1> QED
    BY <1>1, <1>2 DEF ModesInit, PublicationInv, WrittenInv, ManifestInv, BackendInv, ModelOnlyInv,
                 ReportedInv, NoMarker

\* A begin appends a mode, no other step changes them.
LEMMA BeginAppends ==
    ASSUME Shape, NEW m \in AllModes, Begin(m)
    PROVE  /\ attempt' = attempt + 1 /\ attempt \in Nat /\ mode' = m
           /\ modes' \in Seq(AllModes)
           /\ \A n \in 1 .. attempt : modes'[n] = modes[n]
  BY DEF Begin, Shape, attempt, mode

LEMMA OthersKeepModes ==
    ASSUME Shape, [ModesNext]_modesVars, ~ \E m \in Modes : Begin(m)
    PROVE  /\ modes' = modes /\ attempt' = attempt /\ mode' = mode /\ attempt \in Nat
           /\ saving # "idle" => mode \in AllModes /\ attempt > 0
  <1>1. modes' = modes
    BY DEF ModesNext, modesVars, ClearFile, ClearMarker, Cleared, Prepare, OpenFile, CloseFile,
           CommitTraining, CommitBackend, CommitModelOnly, SavedUnpublished, Stop
  <1> QED
    BY <1>1 DEF attempt, mode, Shape

\* Which file a rank opens or closes.
Target(r) == Duty(mode, r)[written[r] + 1]

LEMMA TargetFacts ==
    ASSUME Shape, WrittenInv, NEW r \in Ranks, OpenFile(r) \/ CloseFile(r)
    PROVE  /\ saving = "save" /\ written[r] + 1 \in 1 .. Len(Duty(mode, r))
           /\ Target(r) \in Artifacts
           /\ \A q \in Ranks : \A i \in 1 .. written[q] :
                 i \in 1 .. Len(Duty(mode, q)) /\ Duty(mode, q)[i] # Target(r)
  <1>1. saving = "save" /\ written \in [Ranks -> Nat]
    BY DEF OpenFile, CloseFile, Shape
  <1>2. \A q \in Ranks : Len(Duty(mode, q)) \in Nat /\ written[q] <= Len(Duty(mode, q))
    BY <1>1, DutyWithin DEF WrittenInv
  <1>3. written[r] + 1 \in 1 .. Len(Duty(mode, r))
    BY <1>1, <1>2 DEF OpenFile, CloseFile, WrittenInv
  <1>4. Target(r) \in Artifacts
    BY <1>3, DutyWithin DEF Target
  <1>5. ASSUME NEW q \in Ranks, NEW i \in 1 .. written[q]
        PROVE  i \in 1 .. Len(Duty(mode, q)) /\ Duty(mode, q)[i] # Target(r)
    <2>1. i \in 1 .. Len(Duty(mode, q))
      BY <1>1, <1>2
    <2>2. ~ (q = r /\ i = written[r] + 1)
      BY <1>1
    <2> QED
      BY <2>1, <2>2, <1>3, DutyOnce DEF Target
  <1> QED
    BY <1>1, <1>3, <1>4, <1>5

LEMMA ShapeKept ==
    ASSUME Shape, WrittenInv, Modes \subseteq AllModes, [ModesNext]_modesVars
    PROVE  Shape'
  <1> USE DEF Shape
  <1>0. attempt \in Nat
    BY DEF attempt
  <1>1. ASSUME NEW m \in Modes, Begin(m)
        PROVE  Shape'
    <2>1. m \in AllModes
      OBVIOUS
    <2>2. /\ attempt' = attempt + 1 /\ mode' = m /\ modes' \in Seq(AllModes)
      BY <2>1, <1>1, BeginAppends
    <2> QED
      BY <1>0, <1>1, <2>2 DEF Begin
  <1>2. CASE ~ \E m \in Modes : Begin(m)
    <2>1. modes' = modes /\ attempt' = attempt /\ mode' = mode
      BY <1>2, OthersKeepModes
    <2>2. ASSUME NEW a \in Artifacts, ClearFile(a)
          PROVE  Shape'
      BY <2>1, <2>2, <1>0 DEF ClearFile, Absent
    <2>3. CASE ClearMarker \/ Cleared \/ Stop
      BY <2>1, <2>3 DEF ClearMarker, Cleared, Stop
    <2>4. CASE Prepare
      BY <2>1, <2>4 DEF Prepare
    <2>5. ASSUME NEW r \in Ranks, OpenFile(r)
          PROVE  Shape'
      <3>1. Target(r) \in Artifacts /\ saving = "save"
        BY <2>5, TargetFacts
      <3> QED
        BY <2>1, <2>5, <1>0, <3>1 DEF OpenFile, Target
    <2>6. ASSUME NEW r \in Ranks, CloseFile(r)
          PROVE  Shape'
      <3>1. Target(r) \in Artifacts /\ saving = "save"
        BY <2>6, TargetFacts
      <3> QED
        BY <2>1, <2>6, <1>0, <3>1 DEF CloseFile, Target
    <2>7. CASE CommitTraining \/ CommitBackend \/ CommitModelOnly \/ SavedUnpublished
      BY <2>1, <2>7, <1>0 DEF CommitTraining, CommitBackend, CommitModelOnly, SavedUnpublished
    <2>8. CASE UNCHANGED modesVars
      BY <2>1, <2>8 DEF modesVars
    <2> QED
      BY <1>2, <2>2, <2>3, <2>4, <2>5, <2>6, <2>7, <2>8 DEF ModesNext
  <1> QED
    BY <1>1, <1>2

LEMMA WrittenKept ==
    ASSUME Shape, WrittenInv, Modes \subseteq AllModes, [ModesNext]_modesVars
    PROVE  WrittenInv'
  <1>0. attempt \in Nat /\ attempt' \in Nat
    <2>1. Shape'
      BY ShapeKept
    <2> QED
      BY <2>1 DEF attempt, Shape
  <1>1. ASSUME NEW m \in Modes, Begin(m)
        PROVE  WrittenInv'
    <2>1. /\ attempt' = attempt + 1 /\ saving' # "save" /\ contents' = contents
          /\ \A r \in Ranks : written'[r] = 0 /\ ~open'[r]
      BY <1>1, BeginAppends DEF Begin
    <2> QED
      BY <1>0, <2>1 DEF WrittenInv, Shape
  <1>2. CASE ~ \E m \in Modes : Begin(m)
    <2>1. modes' = modes /\ attempt' = attempt /\ mode' = mode
      BY <1>2, OthersKeepModes
    <2>2. ASSUME NEW a \in Artifacts, ClearFile(a)
          PROVE  WrittenInv'
      BY <2>1, <2>2, <1>0 DEF ClearFile, Absent, WrittenInv, Shape
    <2>3. CASE ClearMarker \/ Stop \/ UNCHANGED modesVars
      BY <2>1, <2>3 DEF ClearMarker, Stop, modesVars, WrittenInv
    <2>4. CASE Cleared \/ Prepare
      BY <2>1, <2>4, DutyWithin DEF Cleared, Prepare, WrittenInv
    <2>5. ASSUME NEW r \in Ranks, OpenFile(r)
          PROVE  WrittenInv'
      <3>1. /\ saving = "save" /\ written[r] + 1 \in 1 .. Len(Duty(mode, r))
            /\ Target(r) \in Artifacts
            /\ \A q \in Ranks : \A i \in 1 .. written[q] :
                  i \in 1 .. Len(Duty(mode, q)) /\ Duty(mode, q)[i] # Target(r)
        BY <2>5, TargetFacts
      <3>2. /\ contents' = [contents EXCEPT ![Target(r)] = -attempt] /\ written' = written /\ saving' = saving
            /\ open' = [open EXCEPT ![r] = TRUE] /\ ~open[r]
        BY <2>5 DEF OpenFile, Target
      <3>3. ASSUME NEW q \in Ranks, NEW i \in 1 .. written[q]
            PROVE  contents'[Duty(mode, q)[i]] = attempt
        <4>1. Duty(mode, q)[i] \in Artifacts
          BY <3>1, DutyWithin
        <4>2. contents[Duty(mode, q)[i]] = attempt
          BY <3>1 DEF WrittenInv
        <4> QED
          BY <3>1, <3>2, <4>1, <4>2 DEF Shape
      <3>4. ASSUME NEW q \in Ranks
            PROVE  written[q] + (IF open'[q] THEN 1 ELSE 0) <= Len(Duty(mode, q))
        BY <3>1, <3>2, DutyWithin DEF WrittenInv, Shape
      <3> QED
        BY <2>1, <3>1, <3>2, <3>3, <3>4 DEF WrittenInv
    <2>6. ASSUME NEW r \in Ranks, CloseFile(r)
          PROVE  WrittenInv'
      BY <2>1, <2>6, TargetFacts, DutyWithin DEF CloseFile, Target, WrittenInv, Shape
    <2>7. CASE CommitTraining \/ CommitBackend \/ CommitModelOnly \/ SavedUnpublished
      BY <2>1, <2>7 DEF CommitTraining, CommitBackend, CommitModelOnly, SavedUnpublished, WrittenInv
    <2> QED
      BY <1>2, <2>2, <2>3, <2>4, <2>5, <2>6, <2>7 DEF ModesNext
  <1> QED
    BY <1>1, <1>2

\* What the attempts' modes say of an older attempt stays.
LEMMA ModesStay ==
    ASSUME Shape, Modes \subseteq AllModes, [ModesNext]_modesVars
    PROVE  /\ attempt \in Nat /\ attempt' \in Nat /\ attempt <= attempt'
           /\ \A n \in 1 .. attempt : modes'[n] = modes[n]
           /\ AllPublish' => AllPublish
  <1>1. CASE \E m \in Modes : Begin(m)
    <2>1. PICK m \in AllModes : Begin(m)
      BY <1>1
    <2>2. /\ attempt' = attempt + 1 /\ attempt \in Nat
          /\ \A n \in 1 .. attempt : modes'[n] = modes[n]
      BY <2>1, BeginAppends
    <2> QED
      BY <2>2 DEF AllPublish
  <1>2. CASE ~ \E m \in Modes : Begin(m)
    <2>1. modes' = modes /\ attempt' = attempt /\ attempt \in Nat
      BY <1>2, OthersKeepModes
    <2> QED
      BY <2>1 DEF AllPublish
  <1> QED
    BY <1>1, <1>2

\* Where the manifest stays and no save of its kind begins to write.
LEMMA ManifestStays ==
    ASSUME Shape, ManifestInv, Modes \subseteq AllModes, [ModesNext]_modesVars, commit' = commit,
           saving' # "idle" => saving # "idle" \/ attempt' = attempt + 1,
           saving' = "save" /\ commit # NoMarker => ~UsesCommit(mode') /\ ~mode'.only
    PROVE  ManifestInv'
  <1> SUFFICES ASSUME commit # NoMarker
               PROVE  ManifestInv'
    BY DEF ManifestInv
  <1>1. /\ attempt \in Nat /\ attempt' \in Nat /\ attempt <= attempt'
        /\ \A n \in 1 .. attempt : modes'[n] = modes[n]
    BY ModesStay
  <1> QED
    BY <1>1 DEF ManifestInv, UsesCommit

LEMMA ManifestKept ==
    ASSUME PublicationInv, Modes \subseteq AllModes, [ModesNext]_modesVars
    PROVE  ManifestInv'
  <1> USE DEF PublicationInv
  <1>1. ASSUME NEW m \in Modes, Begin(m)
        PROVE  ManifestInv'
    BY <1>1, BeginAppends, ManifestStays DEF Begin
  <1>2. CASE ~ \E m \in Modes : Begin(m)
    <2>1. /\ modes' = modes /\ attempt' = attempt /\ mode' = mode
          /\ saving # "idle" => mode \in AllModes /\ attempt > 0
      BY <1>2, OthersKeepModes
    <2>2. CASE \E a \in Artifacts : ClearFile(a)
      BY <2>1, <2>2, ManifestStays DEF ClearFile
    <2>3. CASE ClearMarker
      <3>1. CASE commit' = NoMarker
        BY <3>1 DEF ManifestInv
      <3>2. CASE commit' = commit
        BY <2>1, <2>3, <3>2, ManifestStays DEF ClearMarker
      <3> QED
        BY <2>3, <3>1, <3>2 DEF ClearMarker
    <2>4. CASE Cleared
      BY <2>1, <2>4, ManifestStays DEF Cleared, Forbidden
    <2>5. CASE Prepare
      <3>1. CASE commit' = NoMarker
        BY <3>1 DEF ManifestInv
      <3>2. CASE commit' # NoMarker
        BY <2>1, <2>5, <3>2, ManifestStays DEF Prepare, Shape
      <3> QED
        BY <3>1, <3>2
    <2>6. CASE \E r \in Ranks : OpenFile(r) \/ CloseFile(r)
      BY <2>1, <2>6, ManifestStays DEF OpenFile, CloseFile, ManifestInv
    <2>7. CASE CommitTraining
      <3>1. /\ contents[trainerState] = attempt
            /\ \A a \in Required : contents[a] = attempt
        BY <2>7, SavedIsOneAttempt DEF CommitTraining
      <3>2. /\ commit'.status = "committed" /\ commit'.backend = backend
            /\ commit'.files = Recorded /\ saving' = "idle" /\ saving = "save"
            /\ UsesCommit(mode) /\ Required \subseteq DOMAIN Recorded
        BY <2>7 DEF CommitTraining, Saved
      <3>3. /\ DOMAIN Recorded \subseteq Artifacts
            /\ \A a \in DOMAIN Recorded :
                  Recorded[a] = contents[a] /\ contents[a] # 0 /\ a \in Artifacts
        BY DEF Recorded, Absent
      <3>4. attempt \in Nat /\ attempt > 0
        BY <2>1, <3>2 DEF attempt, Shape
      <3>5. Recorded[trainerState] = attempt /\ UsesCommit(modes[attempt])
        BY <3>1, <3>2, <3>3, Names DEF mode
      <3>6. \A a \in DOMAIN Recorded :
                /\ Recorded[a] \in Int /\ Recorded[a] # 0
                /\ -attempt <= Recorded[a] /\ Recorded[a] <= attempt
        BY <3>3 DEF Shape
      <3>7. \A a \in Required : Recorded[a] = attempt
        BY <3>1, <3>2, <3>3
      <3>8. backend # NoMarker => backend.generation \in Int /\ backend.generation <= attempt
        BY <3>4 DEF BackendInv
      <3> QED
        BY <2>1, <3>2, <3>3, <3>4, <3>5, <3>6, <3>7, <3>8 DEF ManifestInv
    <2>8. CASE CommitBackend \/ CommitModelOnly \/ SavedUnpublished \/ Stop \/ UNCHANGED modesVars
      BY <2>1, <2>8, ManifestStays
         DEF CommitBackend, CommitModelOnly, SavedUnpublished, Stop, modesVars, ManifestInv
    <2> QED
      BY <1>2, <2>2, <2>3, <2>4, <2>5, <2>6, <2>7, <2>8 DEF ModesNext
  <1> QED
    BY <1>1, <1>2

\* What a file that is written was, and is.
LEMMA FileSteps ==
    ASSUME Shape, WrittenInv, NEW r \in Ranks, OpenFile(r) \/ CloseFile(r)
    PROVE  /\ saving = "save" /\ saving' = saving /\ attempt > 0 /\ Target(r) \in Artifacts
           /\ Target(r) \in Shards => ~mode.only /\ ~UsesCommit(mode)
           /\ contents'[Target(r)] \in {-attempt, attempt}
           /\ \A a \in Artifacts : a # Target(r) => contents'[a] = contents[a]
           /\ UNCHANGED <<commit, backend, modelOnly, modes, reported>>
  <1>1. /\ Target(r) \in Artifacts /\ saving = "save" /\ written[r] + 1 \in 1 .. Len(Duty(mode, r))
    BY TargetFacts
  <1>2. Target(r) \in Shards => ~mode.only /\ ~UsesCommit(mode)
    BY <1>1, ShardDuty DEF Target
  <1>3. CASE OpenFile(r)
    BY <1>1, <1>2, <1>3 DEF OpenFile, Target, Shape
  <1>4. CASE CloseFile(r)
    BY <1>1, <1>2, <1>4 DEF CloseFile, Target, Shape
  <1> QED
    BY <1>3, <1>4

\* Where the backend's marker and the shards stay.
LEMMA BackendStays ==
    ASSUME Shape, BackendInv, Modes \subseteq AllModes, [ModesNext]_modesVars, backend' = backend,
           AllPublish' => \A a \in Shards : contents'[a] \in {contents[a], 0},
           saving' # "idle" => saving # "idle" \/ attempt' = attempt + 1,
           saving' = "save" => \/ saving = "save" /\ mode' = mode
                               \/ ~UsesPlanningCommit(mode') /\ (backend # NoMarker => ~mode'.only)
    PROVE  BackendInv'
  <1>1. /\ attempt \in Nat /\ attempt' \in Nat /\ attempt <= attempt'
        /\ \A n \in 1 .. attempt : modes'[n] = modes[n]
        /\ AllPublish' => AllPublish
    BY ModesStay
  <1>2. ASSUME backend # NoMarker, backend.status = "committed"
        PROVE  /\ backend.files[trainerState] \in 1 .. attempt'
               /\ UsesPlanningCommit(modes'[backend.files[trainerState]])
               /\ saving' # "idle" => backend.files[trainerState] < attempt'
               /\ AllPublish' => \A a \in Shards : contents'[a] \in {0, backend.files[trainerState]}
    BY <1>1, <1>2 DEF BackendInv, UsesPlanningCommit
  <1> QED
    BY <1>1, <1>2 DEF BackendInv

LEMMA BackendKept ==
    ASSUME PublicationInv, Modes \subseteq AllModes, [ModesNext]_modesVars
    PROVE  BackendInv'
  <1> USE DEF PublicationInv
  <1>1. ASSUME NEW m \in Modes, Begin(m)
        PROVE  BackendInv'
    BY <1>1, BeginAppends, BackendStays DEF Begin
  <1>2. CASE ~ \E m \in Modes : Begin(m)
    <2>1. /\ modes' = modes /\ attempt' = attempt /\ mode' = mode /\ attempt \in Nat
          /\ saving # "idle" => mode \in AllModes /\ attempt > 0
      BY <1>2, OthersKeepModes
    <2>2. ASSUME NEW a \in Artifacts, ClearFile(a)
          PROVE  BackendInv'
      <3>1. \A b \in Artifacts : contents'[b] \in {contents[b], 0}
        BY <2>2 DEF ClearFile, Absent, Shape
      <3> QED
        BY <2>1, <2>2, <3>1, Names, BackendStays DEF ClearFile
    <2>3. CASE ClearMarker
      <3>1. CASE backend' = NoMarker
        BY <2>3, <3>1 DEF ClearMarker, BackendInv
      <3>2. CASE backend' = backend
        BY <2>1, <2>3, <3>2, BackendStays DEF ClearMarker
      <3> QED
        BY <2>3, <3>1, <3>2 DEF ClearMarker
    <2>4. CASE Cleared
      BY <2>1, <2>4, BackendStays DEF Cleared, Forbidden, Shape, UsesPlanningCommit
    <2>5. CASE Prepare
      <3>1. CASE UsesPlanningCommit(mode)
        BY <2>1, <2>5, <3>1 DEF Prepare, BackendInv, UsesPlanningCommit
      <3>2. CASE ~UsesPlanningCommit(mode)
        BY <2>1, <2>5, <3>2, BackendStays DEF Prepare, Shape
      <3> QED
        BY <3>1, <3>2
    <2>6. ASSUME NEW r \in Ranks, OpenFile(r) \/ CloseFile(r)
          PROVE  BackendInv'
      <3>1. /\ saving = "save" /\ saving' = saving /\ UNCHANGED <<backend, modes>>
            /\ Target(r) \in Shards => ~mode.only /\ ~UsesCommit(mode)
            /\ \A a \in Artifacts : a # Target(r) => contents'[a] = contents[a]
        BY <2>6, FileSteps
      <3>2. CASE Target(r) \notin Shards
        <4>1. \A a \in Shards : contents'[a] \in {contents[a], 0}
          BY <3>1, <3>2, Names
        <4>2. mode' = mode /\ backend' = backend
          BY <2>1, <3>1 DEF mode
        <4> QED
          BY <3>1, <4>1, <4>2, BackendStays
      <3>3. CASE Target(r) \in Shards /\ UsesPlanningCommit(mode)
        <4>1. backend.status = "prepared" /\ backend # NoMarker
          BY <3>1, <3>3 DEF BackendInv, NoMarker
        <4>2. backend'.status = "prepared" /\ backend' = backend
          BY <3>1, <4>1
        <4> QED
          BY <2>1, <3>1, <3>3, <4>1, <4>2 DEF BackendInv, UsesPlanningCommit
      <3>4. CASE Target(r) \in Shards /\ ~UsesPlanningCommit(mode)
        <4>1. ~UsesPublication(mode) /\ attempt \in 1 .. attempt
          BY <2>1, <3>1, <3>4 DEF UsesPublication
        <4>2. ~AllPublish'
          BY <2>1, <4>1 DEF AllPublish, mode
        <4>3. mode' = mode /\ backend' = backend
          BY <2>1, <3>1 DEF mode
        <4> QED
          BY <3>1, <4>2, <4>3, BackendStays
      <3> QED
        BY <3>2, <3>3, <3>4
    <2>7. CASE CommitBackend
      <3>1. /\ saving' = "idle" /\ saving = "save" /\ UsesPlanningCommit(mode) /\ contents' = contents
            /\ backend.status = "prepared"
            /\ backend' = [status |-> "committed", generation |-> backend.generation,
                            files |-> [a \in Hashed \cup Shards |-> contents[a]]]
        BY <2>7 DEF CommitBackend, Saved
      <3>2. contents[trainerState] = attempt /\ \A a \in Hashed \cup Shards : contents[a] = attempt
        BY <2>7, <3>1, SavedIsOneAttempt DEF CommitBackend, UsesPlanningCommit, UsesCommit
      <3>3. backend.generation \in 1 .. attempt
        BY <3>1 DEF BackendInv, NoMarker
      <3> QED
        <4>1. /\ backend'.status = "committed" /\ DOMAIN backend'.files = Hashed \cup Shards
              /\ backend'.generation \in 1 .. attempt
              /\ \A a \in Hashed \cup Shards : backend'.files[a] = attempt
          BY <3>1, <3>2, <3>3
        <4>2. backend'.files[trainerState] = attempt /\ attempt \in 1 .. attempt'
          BY <2>1, <3>1, <4>1, Names
        <4>3. UsesPlanningCommit(modes'[attempt])
          BY <2>1, <3>1 DEF mode
        <4>4. \A a \in Shards : contents'[a] = attempt
          BY <3>1, <3>2
        <4> QED
          BY <2>1, <3>1, <4>1, <4>2, <4>3, <4>4 DEF BackendInv
    <2>8. CASE CommitTraining \/ CommitModelOnly \/ SavedUnpublished \/ Stop \/ UNCHANGED modesVars
      <3>1. /\ backend' = backend /\ contents' = contents
            /\ saving' # "idle" => saving # "idle"
            /\ saving' = "save" => saving = "save"
        BY <2>8 DEF CommitTraining, CommitModelOnly, SavedUnpublished, Stop, modesVars
      <3>2. AllPublish' => \A a \in Shards : contents'[a] \in {contents[a], 0}
        BY <3>1
      <3> QED
        BY <2>1, <3>1, <3>2, BackendStays
    <2> QED
      BY <1>2, <2>2, <2>3, <2>4, <2>5, <2>6, <2>7, <2>8 DEF ModesNext
  <1> QED
    BY <1>1, <1>2

LEMMA ModelOnlyKept ==
    ASSUME PublicationInv, Modes \subseteq AllModes, [ModesNext]_modesVars
    PROVE  ModelOnlyInv'
  <1> USE DEF PublicationInv
  <1>0. attempt \in Nat /\ attempt' \in Nat /\ attempt <= attempt'
    BY ModesStay
  <1>1. ASSUME NEW m \in Modes, Begin(m)
        PROVE  ModelOnlyInv'
    BY <1>0, <1>1 DEF Begin, ModelOnlyInv, Forbidden
  <1>2. CASE ~ \E m \in Modes : Begin(m)
    <2>1. modes' = modes /\ attempt' = attempt /\ mode' = mode
      BY <1>2, OthersKeepModes
    <2>2. ASSUME NEW a \in Artifacts, ClearFile(a)
          PROVE  ModelOnlyInv'
      <3>1. \A b \in Artifacts : contents'[b] \in {contents[b], 0}
        BY <2>2 DEF ClearFile, Absent, Shape
      <3> QED
        BY <2>1, <2>2, <3>1, Names DEF ClearFile, ModelOnlyInv, Forbidden, Absent
    <2>3. CASE ClearMarker
      BY <2>1, <2>3 DEF ClearMarker, ModelOnlyInv, Forbidden
    <2>4. CASE Cleared \/ Prepare
      BY <2>1, <2>4 DEF Cleared, Prepare, ModelOnlyInv, Forbidden
    <2>5. CASE \E r \in Ranks : OpenFile(r) \/ CloseFile(r)
      BY <2>1, <2>5 DEF OpenFile, CloseFile, ModelOnlyInv
    <2>6. CASE CommitModelOnly
      <3>1. contents[weights] = attempt /\ attempt > 0
        BY <2>6, SavedIsOneAttempt DEF CommitModelOnly, Saved, Shape
      <3> QED
        BY <2>1, <2>6, <3>1, <1>0 DEF CommitModelOnly, ModelOnlyInv, Forbidden
    <2>7. CASE CommitTraining \/ CommitBackend \/ SavedUnpublished \/ Stop \/ UNCHANGED modesVars
      BY <2>1, <2>7
         DEF CommitTraining, CommitBackend, SavedUnpublished, Stop, modesVars, ModelOnlyInv, Forbidden, Saved
    <2> QED
      BY <1>2, <2>2, <2>3, <2>4, <2>5, <2>6, <2>7 DEF ModesNext
  <1> QED
    BY <1>1, <1>2

\* A save that returns leaves what its mode resumes from.
LEMMA ReportedKept ==
    ASSUME PublicationInv, Modes \subseteq AllModes, [ModesNext]_modesVars
    PROVE  ReportedInv'
  <1> USE DEF PublicationInv
  <1>1. ASSUME NEW m \in Modes, Begin(m)
        PROVE  ReportedInv'
    BY <1>1 DEF Begin, ReportedInv
  <1>2. CASE ~ \E m \in Modes : Begin(m)
    <2>1. /\ modes' = modes /\ attempt' = attempt /\ mode' = mode /\ attempt \in Nat
          /\ saving # "idle" => mode \in AllModes /\ attempt > 0
      BY <1>2, OthersKeepModes
    <2>2. CASE saving # "idle" /\ reported' = reported
      BY <2>2 DEF ReportedInv
    <2>3. CASE UNCHANGED modesVars
      BY <2>3 DEF modesVars, ReportedInv, ReportedUsableWithoutLeftover, ReportedUsable, Resumes,
                  Resolves, LoadsPlanning, ManifestValid, BackendValid, ModelOnlyValid, Forbidden,
                  Planned, HasState, attempt
    <2> DEFINE Returns == /\ saving = "save" /\ saving' = "idle" /\ reported' = attempt /\ attempt > 0
                          /\ contents' = contents /\ contents[trainerState] = attempt /\ modes'[attempt] = mode
                          /\ HasState' /\ Planned' = mode.planned
    <2>4. ASSUME CommitTraining \/ CommitBackend \/ CommitModelOnly \/ SavedUnpublished
          PROVE  Returns
      <3>1. /\ saving = "save" /\ saving' = "idle" /\ reported' = attempt /\ contents' = contents /\ Saved
        BY <2>4 DEF CommitTraining, CommitBackend, CommitModelOnly, SavedUnpublished, Saved
      <3>2. contents[trainerState] = attempt
        BY <3>1, SavedIsOneAttempt
      <3>3. mode.planned \in BOOLEAN
        BY <2>1, <3>1 DEF AllModes
      <3> QED
        BY <2>1, <3>1, <3>2, <3>3 DEF HasState, Planned, mode
    <2>5. CASE CommitTraining
      <3>1. Returns
        BY <2>4, <2>5
      <3>2. /\ commit' = [status |-> "committed", files |-> Recorded, backend |-> backend,
                            planned |-> Planned]
            /\ backend' = backend /\ modelOnly' = modelOnly /\ UsesCommit(mode)
        BY <2>5 DEF CommitTraining
      <3>3. Planned = Planned'
        BY <2>1, <3>1 DEF Planned, HasState
      <3>4. ManifestValid' /\ commit'.planned = mode.planned
        BY <3>1, <3>2, <3>3 DEF ManifestValid, Recorded
      <3>5. modelOnly' = NoMarker
        BY <3>1, <3>2 DEF ModelOnlyInv
      <3> QED
        BY <2>1, <3>1, <3>2, <3>4, <3>5
           DEF ReportedInv, ReportedUsableWithoutLeftover, ReportedUsable, Resumes, Resolves,
               LoadsPlanning, UsesCommit
    <2>6. CASE CommitBackend
      <3>1. Returns
        BY <2>4, <2>6
      <3>2. /\ backend'.status = "committed" /\ backend'.files = [a \in Hashed \cup Shards |-> contents[a]]
            /\ modelOnly' = modelOnly /\ UsesPlanningCommit(mode)
        BY <2>6 DEF CommitBackend
      <3>3. BackendValid'
        BY <3>1, <3>2 DEF BackendValid, UsesPlanningCommit
      <3>4. modelOnly' = NoMarker
        BY <3>1, <3>2 DEF ModelOnlyInv
      <3> QED
        BY <2>1, <3>1, <3>2, <3>3, <3>4
           DEF ReportedInv, ReportedUsableWithoutLeftover, ReportedUsable, Resumes, Resolves,
               LoadsPlanning, UsesCommit, UsesPlanningCommit, NoMarker
    <2>7. CASE CommitModelOnly
      <3>1. Returns
        BY <2>4, <2>7
      <3>2. ModelOnlyValid' /\ mode.only
        BY <2>7 DEF CommitModelOnly, ModelOnlyValid, Forbidden
      <3> QED
        BY <2>1, <3>1, <3>2 DEF ReportedInv, ReportedUsableWithoutLeftover, ReportedUsable
    <2>8. CASE SavedUnpublished
      <3>1. Returns
        BY <2>4, <2>8
      <3>2. modelOnly' = NoMarker
        BY <2>8, <3>1 DEF SavedUnpublished, ModelOnlyInv
      <3>3. ~mode.only /\ ~UsesCommit(mode) /\ ~mode.planned
        BY <2>1, <2>8, <3>1 DEF SavedUnpublished, UsesPublication, UsesCommit, UsesPlanningCommit, AllModes
      <3> QED
        BY <2>1, <3>1, <3>2, <3>3
           DEF ReportedInv, ReportedUsableWithoutLeftover, ReportedUsable, Resumes, Resolves,
               LoadsPlanning, UsesCommit
    <2>9. CASE Stop
      BY <2>9, <2>2 DEF Stop
    <2>10. CASE \/ \E a \in Artifacts : ClearFile(a)
                \/ ClearMarker \/ Cleared \/ Prepare
                \/ \E r \in Ranks : OpenFile(r) \/ CloseFile(r)
      BY <2>10, <2>2 DEF ClearFile, ClearMarker, Cleared, Prepare, OpenFile, CloseFile
    <2> QED
      BY <1>2, <2>3, <2>5, <2>6, <2>7, <2>8, <2>9, <2>10 DEF ModesNext
  <1> QED
    BY <1>1, <1>2

-----------------------------------------------------------------------------
(***************************************************************************)
(* What follows from the invariant in one state.                           *)
(***************************************************************************)
LEMMA VouchedInState ==
    ASSUME PublicationInv
    PROVE  VouchedIsOneAttempt
  <1> USE DEF PublicationInv
  <1>1. ManifestIsOneAttempt
    BY Names DEF ManifestIsOneAttempt, ManifestValid, ManifestInv, NoMarker
  <1>2. ModelOnlyIsOneAttempt
    BY DEF ModelOnlyIsOneAttempt, ModelOnlyValid, ModelOnlyInv, NoMarker, Size
  <1>3. AllPublish => BackendIsOneAttempt
    <2> SUFFICES ASSUME AllPublish, BackendValid, NEW a \in Hashed \cup Shards
                 PROVE  contents[a] = contents[trainerState]
      BY DEF BackendIsOneAttempt
    <2>1. /\ backend.status = "committed" /\ backend # NoMarker
          /\ \A b \in Hashed : contents[b] = backend.files[b]
          /\ \A b \in Shards : Size(contents[b]) = Size(backend.files[b])
      BY DEF BackendValid, NoMarker
    <2>2. /\ backend.files[trainerState] \in 1 .. attempt /\ backend.files[a] = backend.files[trainerState]
          /\ \A b \in Shards : contents[b] \in {0, backend.files[trainerState]}
      BY <2>1 DEF BackendInv
    <2>3. contents[trainerState] = backend.files[trainerState]
      BY <2>1, Names
    <2>4. CASE a \in Hashed
      BY <2>1, <2>2, <2>3, <2>4
    <2>5. CASE a \in Shards
      BY <2>1, <2>2, <2>3, <2>5 DEF Size
    <2> QED
      BY <2>4, <2>5
  <1> QED
    BY <1>1, <1>2, <1>3 DEF VouchedIsOneAttempt

\* At most one marker validates.
LEMMA OneIsShown ==
    ASSUME PublicationInv
    PROVE  /\ ~ (ManifestValid /\ BackendValid)
           /\ ModelOnlyValid => ~ManifestValid /\ ~BackendValid
  <1> USE DEF PublicationInv
  <1>1. ManifestValid => UsesCommit(modes[contents[trainerState]])
    BY Names DEF ManifestValid, ManifestInv, NoMarker
  <1>2. BackendValid => UsesPlanningCommit(modes[contents[trainerState]])
    BY Names DEF BackendValid, BackendInv, NoMarker
  <1>3. ModelOnlyValid => commit = NoMarker /\ backend = NoMarker
    BY DEF ModelOnlyValid, Forbidden
  <1> QED
    BY <1>1, <1>2, <1>3 DEF UsesCommit, UsesPlanningCommit, ManifestValid, BackendValid, NoMarker

\* A step that makes no marker valid and changes none that is shows what it showed, or nothing.
LEMMA ShowsNoMore ==
    ASSUME PublicationInv, AllPublish' => AllPublish,
           ManifestValid' => ManifestValid /\ commit' = commit,
           BackendValid' /\ AllPublish' => BackendValid /\ backend' = backend,
           ModelOnlyValid' => ModelOnlyValid /\ modelOnly' = modelOnly
    PROVE  Shown' \subseteq Shown /\ (AllPublish' = AllPublish => Shown' \in {Shown, {}})
  BY OneIsShown DEF Shown

\* A manifest that is valid after a step that wrote no manifest was so before.
LEMMA ManifestShown ==
    ASSUME PublicationInv, Modes \subseteq AllModes, [ModesNext]_modesVars, ~CommitTraining, ManifestValid'
    PROVE  ManifestValid /\ commit' = commit
  <1> USE DEF PublicationInv
  <1>1. commit' = commit /\ commit.status = "committed" /\ commit # NoMarker
    BY DEF ModesNext, modesVars, Begin, ClearFile, ClearMarker, Cleared, Prepare, OpenFile, CloseFile,
           CommitBackend, CommitModelOnly, SavedUnpublished, Stop, ManifestValid, NoMarker
  <1> DEFINE c == commit.files[trainerState]
  <1>2. /\ trainerState \in DOMAIN commit.files /\ DOMAIN commit.files \subseteq Artifacts
        /\ c \in 1 .. attempt /\ contents'[trainerState] = c
        /\ \A a \in DOMAIN commit.files :
              /\ contents'[a] = commit.files[a] /\ commit.files[a] \in Int
              /\ commit.files[a] # 0 /\ -c <= commit.files[a] /\ commit.files[a] <= c
        /\ commit.backend # NoMarker =>
              /\ backend' = commit.backend
              /\ commit.backend.generation \in Int /\ commit.backend.generation <= c
        /\ saving # "idle" => c < attempt
    BY <1>1, Names DEF ManifestInv, ManifestValid
  <1>3. /\ attempt \in Nat
        /\ \A n \in 1 .. attempt : modes'[n] = modes[n]
    BY ModesStay
  <1>4. \A a \in DOMAIN commit.files : contents[a] = contents'[a]
    <2>1. CASE \E a \in Artifacts : ClearFile(a)
      BY <1>2, <2>1 DEF ClearFile, Absent, Shape
    <2>2. ASSUME NEW r \in Ranks, OpenFile(r) \/ CloseFile(r)
          PROVE  \A a \in DOMAIN commit.files : contents[a] = contents'[a]
      <3>1. /\ saving = "save" /\ Target(r) \in Artifacts /\ contents'[Target(r)] \in {-attempt, attempt}
            /\ \A a \in Artifacts : a # Target(r) => contents'[a] = contents[a]
        BY <2>2, FileSteps
      <3>2. Target(r) \notin DOMAIN commit.files
        BY <1>2, <1>3, <3>1
      <3> QED
        BY <1>2, <3>1, <3>2
    <2>3. CASE contents' = contents
      BY <2>3
    <2> QED
      BY <2>1, <2>2, <2>3
         DEF ModesNext, modesVars, Begin, ClearMarker, Cleared, Prepare, CommitTraining, CommitBackend,
             CommitModelOnly, SavedUnpublished, Stop
  <1>5. commit.backend # NoMarker => backend = commit.backend
    <2>1. CASE Prepare /\ UsesPlanningCommit(mode)
      <3>1. saving = "prepare" /\ backend'.generation = attempt
        BY <2>1 DEF Prepare
      <3> QED
        BY <1>2, <1>3, <3>1
    <2>2. CASE CommitBackend
      <3>1. contents[trainerState] = attempt /\ contents' = contents /\ saving = "save"
        BY <2>2, SavedIsOneAttempt DEF CommitBackend, Saved
      <3> QED
        BY <1>2, <3>1
    <2>3. CASE backend' \in {backend, NoMarker}
      BY <1>2, <2>3
    <2> QED
      BY <2>1, <2>2, <2>3
         DEF ModesNext, modesVars, Begin, ClearFile, ClearMarker, Cleared, Prepare, OpenFile, CloseFile,
             CommitTraining, CommitModelOnly, SavedUnpublished, Stop
  <1>6. HasState /\ Planned = Planned'
    BY <1>2, <1>3, <1>4 DEF HasState, Planned
  <1> QED
    BY <1>1, <1>2, <1>4, <1>5, <1>6 DEF ManifestValid

\* The same of the backend's marker, while every save is published.
LEMMA BackendShown ==
    ASSUME PublicationInv, Modes \subseteq AllModes, [ModesNext]_modesVars, ~CommitBackend, AllPublish',
           BackendValid'
    PROVE  BackendValid /\ backend' = backend
  <1> USE DEF PublicationInv
  <1>1. backend' = backend /\ backend.status = "committed" /\ backend # NoMarker
    BY DEF ModesNext, modesVars, Begin, ClearFile, ClearMarker, Cleared, Prepare, OpenFile, CloseFile,
           CommitTraining, CommitModelOnly, SavedUnpublished, Stop, BackendValid, NoMarker
  <1>2. /\ attempt \in Nat /\ AllPublish
        /\ \A n \in 1 .. attempt : modes'[n] = modes[n]
    BY ModesStay
  <1> DEFINE b == backend.files[trainerState]
  <1>3. /\ b \in 1 .. attempt
        /\ \A a \in Hashed \cup Shards : backend.files[a] = b
        /\ \A a \in Shards : contents[a] \in {0, b}
        /\ saving # "idle" => b < attempt
        /\ saving = "save" => ~UsesPlanningCommit(mode) /\ ~mode.only
    BY <1>1, <1>2 DEF BackendInv
  <1>4. /\ \A a \in Hashed : contents'[a] = b
        /\ \A a \in Shards : Size(contents'[a]) = 1
    BY <1>1, <1>3 DEF BackendValid, Size
  <1>5. \A a \in Hashed \cup Shards : contents[a] = contents'[a]
    <2>1. ASSUME NEW f \in Artifacts, ClearFile(f)
          PROVE  \A a \in Hashed \cup Shards : contents[a] = contents'[a]
      <3>1. contents'[f] = 0 /\ \A a \in Artifacts : a # f => contents'[a] = contents[a]
        BY <2>1 DEF ClearFile, Absent, Shape
      <3>2. f \notin Hashed \cup Shards
        BY <1>3, <1>4, <3>1 DEF Size
      <3> QED
        BY <3>1, <3>2, Names
    <2>2. ASSUME NEW r \in Ranks, OpenFile(r) \/ CloseFile(r)
          PROVE  \A a \in Hashed \cup Shards : contents[a] = contents'[a]
      <3>1. /\ saving = "save" /\ attempt > 0 /\ mode \in AllModes
            /\ Target(r) \in Shards => ~mode.only /\ ~UsesCommit(mode)
            /\ contents'[Target(r)] \in {-attempt, attempt}
            /\ \A a \in Artifacts : a # Target(r) => contents'[a] = contents[a]
        BY <2>2, FileSteps DEF Shape, mode, attempt
      <3>2. Target(r) \notin Shards
        <4>1. UsesPublication(mode)
          BY <1>2, <3>1 DEF AllPublish, mode
        <4> QED
          BY <1>3, <3>1, <4>1 DEF UsesPublication
      <3>3. Target(r) \notin Hashed
        BY <1>2, <1>3, <1>4, <3>1
      <3> QED
        BY <3>1, <3>2, <3>3, Names
    <2>3. CASE contents' = contents
      BY <2>3
    <2> QED
      BY <2>1, <2>2, <2>3
         DEF ModesNext, modesVars, Begin, ClearMarker, Cleared, Prepare, CommitTraining, CommitBackend,
             CommitModelOnly, SavedUnpublished, Stop
  <1>6. HasState /\ Planned = Planned'
    BY <1>2, <1>3, <1>4, <1>5, Names DEF HasState, Planned
  <1> QED
    BY <1>1, <1>5, <1>6 DEF BackendValid

\* The same of the model-only marker.
LEMMA ModelOnlyShown ==
    ASSUME PublicationInv, Modes \subseteq AllModes, [ModesNext]_modesVars, ~CommitModelOnly, ModelOnlyValid'
    PROVE  ModelOnlyValid /\ modelOnly' = modelOnly
  <1> USE DEF PublicationInv
  <1>1. modelOnly' = modelOnly /\ modelOnly.status = "committed" /\ modelOnly # NoMarker
    BY DEF ModesNext, modesVars, Begin, ClearFile, ClearMarker, Cleared, Prepare, OpenFile, CloseFile,
           CommitTraining, CommitBackend, SavedUnpublished, Stop, ModelOnlyValid, NoMarker
  <1>2. /\ saving \in {"idle", "clear"} /\ modelOnly.weights \in 1 .. attempt /\ ~Forbidden
        /\ contents[weights] \in {0, modelOnly.weights}
    BY <1>1 DEF ModelOnlyInv
  <1>3. Size(contents'[weights]) = 1
    BY <1>1, <1>2 DEF ModelOnlyValid, Size
  <1>4. contents'[weights] = contents[weights]
    <2>1. CASE \E a \in Artifacts : ClearFile(a)
      BY <1>3, <2>1, Names DEF ClearFile, Absent, Shape, Size
    <2>2. CASE contents' = contents
      BY <2>2
    <2> QED
      BY <1>2, <2>1, <2>2
         DEF ModesNext, modesVars, Begin, ClearMarker, Cleared, Prepare, OpenFile, CloseFile, CommitTraining,
             CommitBackend, CommitModelOnly, SavedUnpublished, Stop
  <1> QED
    BY <1>1, <1>2, <1>3, <1>4 DEF ModelOnlyValid, Size

\* Where a save is about to publish, readers see nothing.
LEMMA NothingShownAtCommit ==
    ASSUME PublicationInv, Modes \subseteq AllModes, [ModesNext]_modesVars,
           CommitTraining \/ CommitBackend \/ CommitModelOnly
    PROVE  /\ Shown = {} /\ attempt > 0 /\ attempt' = attempt
           /\ contents' = contents /\ contents[trainerState] = attempt /\ contents[weights] = attempt
  <1> USE DEF PublicationInv
  <1>1. /\ Saved /\ saving = "save" /\ contents' = contents /\ modes' = modes
    BY DEF CommitTraining, CommitBackend, CommitModelOnly, Saved
  <1>2. attempt \in Nat /\ attempt > 0 /\ attempt' = attempt
    BY <1>1 DEF Shape, attempt
  <1>3. contents[trainerState] = attempt /\ contents[weights] = attempt
    BY <1>1, SavedIsOneAttempt
  <1>4. ~ManifestValid
    BY <1>1, <1>2, <1>3, Names DEF ManifestValid, ManifestInv, NoMarker
  <1>5. ~BackendValid
    BY <1>1, <1>2, <1>3, Names DEF BackendValid, BackendInv, NoMarker
  <1>6. ~ModelOnlyValid
    BY <1>1 DEF ModelOnlyValid, ModelOnlyInv, NoMarker
  <1> QED
    BY <1>1, <1>2, <1>3, <1>4, <1>5, <1>6 DEF Shown

LEMMA SlotStep ==
    ASSUME PublicationInv, PublicationInv', Modes \subseteq AllModes, [ModesNext]_modesVars
    PROVE  [Slot!Next]_(Slot!vars)
  <1>0. /\ attempt \in Nat
        /\ AllPublish' => AllPublish
    BY ModesStay DEF PublicationInv
  <1>1. CASE ~ (CommitTraining \/ CommitBackend \/ CommitModelOnly)
    <2>1. Shown' \subseteq Shown /\ (AllPublish' = AllPublish => Shown' \in {Shown, {}})
      BY <1>0, <1>1, ManifestShown, BackendShown, ModelOnlyShown, ShowsNoMore
    <2>2. CASE \E m \in Modes : Begin(m)
      <3>1. attempt' = attempt + 1
        BY <2>2, BeginAppends DEF PublicationInv
      <3> QED
        BY <2>1, <3>1 DEF Slot!Next, Slot!Begin
    <2>3. CASE ~ \E m \in Modes : Begin(m)
      <3>1. attempt' = attempt /\ modes' = modes
        BY <2>3, OthersKeepModes DEF PublicationInv
      <3>2. AllPublish' = AllPublish
        BY <3>1 DEF AllPublish
      <3> QED
        BY <2>1, <3>1, <3>2 DEF Slot!Next, Slot!Withdraw, Slot!vars
    <2> QED
      BY <2>2, <2>3
  <1>2. CASE CommitTraining \/ CommitBackend \/ CommitModelOnly
    <2>1. /\ Shown = {} /\ attempt > 0 /\ attempt' = attempt
          /\ contents' = contents /\ contents[trainerState] = attempt /\ contents[weights] = attempt
      BY <1>2, NothingShownAtCommit
    <2>2. Shown' \in {{}, {attempt}}
      <3>1. ManifestValid' => commit'.files[trainerState] = attempt
        BY <2>1, Names DEF ManifestValid, PublicationInv, ManifestInv, NoMarker
      <3>2. BackendValid' => backend'.files[trainerState] = attempt
        BY <2>1, Names DEF BackendValid
      <3>3. ModelOnlyValid' => modelOnly'.weights = attempt
        BY <2>1 DEF ModelOnlyValid, PublicationInv, ModelOnlyInv, NoMarker, Size
      <3>4. Shown' \subseteq {attempt}
        BY <3>1, <3>2, <3>3 DEF Shown
      <3> QED
        BY <3>4
    <2>3. CASE Shown' = {}
      BY <2>1, <2>3 DEF Slot!vars
    <2>4. CASE Shown' = {attempt}
      BY <2>1, <2>4 DEF Slot!Next, Slot!Publish
    <2> QED
      BY <2>2, <2>3, <2>4
  <1> QED
    BY <1>1, <1>2

-----------------------------------------------------------------------------
(***************************************************************************)
(* The theorems.  Modes is any set of modes.                               *)
(***************************************************************************)
LEMMA PublicationInvariant ==
    ASSUME Modes \subseteq AllModes
    PROVE  ModesSpec => []PublicationInv
  <1>1. ModesInit => PublicationInv
    BY InitInv
  <1>2. PublicationInv /\ [ModesNext]_modesVars => PublicationInv'
    BY ShapeKept, WrittenKept, ManifestKept, BackendKept, ModelOnlyKept, ReportedKept
       DEF PublicationInv
  <1> QED
    BY <1>1, <1>2, PTL DEF ModesSpec

\* Whichever marker a reader accepts, after any saves, kills and changes of mode, the files it
\* stands for were written by one attempt.
THEOREM VouchedByOneAttempt ==
    ASSUME Modes \subseteq AllModes
    PROVE  ModesSpec => []VouchedIsOneAttempt
  <1>1. PublicationInv => VouchedIsOneAttempt
    BY VouchedInState
  <1> QED
    BY <1>1, PublicationInvariant, PTL

\* A checkpoint whose save returned can be resumed from in its mode until the next save of that
\* step begins, but for a ddp job's beside the marker of a sharded one.
THEOREM ReportedIsUsable ==
    ASSUME Modes \subseteq AllModes
    PROVE  ModesSpec => []ReportedUsableWithoutLeftover
  <1>1. PublicationInv => ReportedUsableWithoutLeftover
    BY DEF PublicationInv, ReportedInv, ReportedUsableWithoutLeftover, ReportedUsable
  <1> QED
    BY <1>1, PublicationInvariant, PTL

\* Readers of the directory see one generation at a time, in the order of the saves, and none
\* that a later save has hidden: the three markers together implement CheckpointSlot.
THEOREM MarkersImplementSlot ==
    ASSUME Modes \subseteq AllModes
    PROVE  ModesSpec => ImplementsSlot
  <1>1. ModesInit => Slot!Init
    BY DEF ModesInit, Slot!Init, Shown, ManifestValid, BackendValid, ModelOnlyValid, NoMarker, attempt
  <1>2. PublicationInv /\ PublicationInv' /\ [ModesNext]_modesVars => [Slot!Next]_(Slot!vars)
    BY SlotStep
  <1> QED
    BY <1>1, <1>2, PublicationInvariant, PTL DEF ModesSpec, ImplementsSlot, Slot!Spec

-----------------------------------------------------------------------------
(***************************************************************************)
(* The artifacts of several hosts and their merge (DetectionMap), for any  *)
(* hosts, ranks, rows and launches, if a host is launched anew only when   *)
(* the workers of its last launch are gone.  What a directory holds is     *)
(* said by the positions of a rank's rows: the n-th entry of a table is    *)
(* the row at the position that n - 1 good ones are below.                 *)
(***************************************************************************)
Content == [row : Int, job : Nat]
Line == [row : Int, job : Nat, shard : Nat]
BuildState == [table : Seq(Content), size : Nat, next : Nat]
Manifest == [limit : Nat, table : Seq(Content)]
Directory == [place : {"none", "staging", "output"}, limit : Nat, state : BuildState,
              manifest : Manifest, shards : [1 .. SelectedRows -> Content], lines : Seq(Line)]
Building == {"generate", "save", "hash", "lines", "state", "publish"}
Producer == [pc : {"none", "zero", "one", "open"} \cup Building, job : Nat, limit : Nat, next : Nat,
             table : Seq(Content), append : BOOLEAN, pos : Nat]
MergedLine == [row : Int, job : Nat, shard : Nat \X Nat]

MapShape ==
    /\ launches \in Nat
    /\ worker \in [Slots -> Producer]
    /\ dir \in [MapRanks -> Directory]
    /\ host \in [Hosts -> {"down", "wait", "poll", "merge", "done", "failed"}]
    /\ merging \in [done : Nat, lines : Seq(MergedLine)]
    /\ merged \in Seq(MergedLine)

\* The positions below k of a rank's rows that hold no bad case b.
GoodBelow(b, r, k) == {q \in 0 .. k - 1 : SourceIndex(r, q) \notin b}

\* The table of a rank that has done its rows below position k.
Tabled(b, r, table, k) ==
    /\ Len(table) = Cardinality(GoodBelow(b, r, k))
    /\ \A n \in 1 .. Len(table) :
          \E q \in GoodBelow(b, r, k) :
             table[n].row = SourceIndex(r, q) /\ Cardinality(GoodBelow(b, r, q)) = n - 1

LineOf(table, n) == [row |-> table[n].row, job |-> table[n].job, shard |-> n]
Lined(lines, table, n) == \A k \in 1 .. n : lines[k] = LineOf(table, k)
Stored(d, table) == \A k \in 1 .. Len(table) : d.shards[k] = table[k]

\* A directory that is being built can be resumed, and one that is published is whole.
CanResume(b, r, d) ==
    /\ d.limit \in Limits /\ d.state.next <= Count(r, d.limit)
    /\ Tabled(b, r, d.state.table, d.state.next)
    /\ d.state.size = Len(d.state.table) /\ d.state.size <= Len(d.lines)
    /\ Lined(d.lines, d.state.table, d.state.size) /\ Stored(d, d.state.table)

IsWhole(b, r, d) ==
    /\ d.manifest.limit \in Limits
    /\ Tabled(b, r, d.manifest.table, Count(r, d.manifest.limit))
    /\ Len(d.lines) = Len(d.manifest.table)
    /\ Lined(d.lines, d.manifest.table, Len(d.lines)) /\ Stored(d, d.manifest.table)

DirInv(b, r, d) ==
    /\ d.place = "none" => d = NoDir
    /\ d.place = "staging" => CanResume(b, r, d)
    /\ d.place = "output" => IsWhole(b, r, d)

\* What a producer has done is what its directory has.
Holds(b, r, me, d) ==
    /\ d.place = "staging" /\ me.limit = d.limit /\ me.next <= Count(r, d.limit)
    /\ me.pc \notin {"generate", "publish"} =>
           me.next < Count(r, d.limit) /\ SourceIndex(r, me.next) \notin b
    /\ Tabled(b, r, me.table, IF me.pc \in {"lines", "state"} THEN me.next + 1 ELSE me.next)
    /\ Len(me.table) = Len(d.lines) + (IF me.pc = "lines" THEN 1 ELSE 0)
    /\ Lined(d.lines, me.table, Len(d.lines)) /\ Stored(d, me.table)
    /\ me.append \/ me.pos = Len(d.lines)
    /\ me.pc = "hash" =>
           d.shards[Len(me.table) + 1] = [row |-> SourceIndex(r, me.next), job |-> me.job]
    /\ me.pc \in {"lines", "state"} =>
           me.table[Len(me.table)] = [row |-> SourceIndex(r, me.next), job |-> me.job]
    /\ me.pc = "publish" =>
           /\ d.manifest = [limit |-> me.limit, table |-> me.table]
           /\ me.next = Count(r, me.limit)

ProducerInv(b, r, me, d) ==
    /\ me.pc = "open" => me = [Idle EXCEPT !.pc = "open", !.job = me.job, !.limit = me.limit]
    /\ me.pc = "open" => me.limit \in Limits
    /\ me.pc \in Building => Holds(b, r, me, d)

\* The lines of the first ranks, one rank after the other: those of rank r follow start[r].
MergedLineOf(dirs, r, n) ==
    [row |-> dirs[r].lines[n].row, job |-> dirs[r].lines[n].job,
     shard |-> <<r, dirs[r].lines[n].shard>>]

Starts(dirs, start, ranks, lines) ==
    /\ start[0] = 0 /\ start[ranks] = Len(lines)
    /\ \A q, r \in 0 .. ranks : q <= r => start[q] <= start[r]
    /\ \A r \in 0 .. ranks - 1 :
          /\ start[r + 1] = start[r] + Len(dirs[r].lines)
          /\ \A n \in 1 .. Len(dirs[r].lines) : lines[start[r] + n] = MergedLineOf(dirs, r, n)
    /\ \A n \in 1 .. Len(lines) : \E r \in 0 .. ranks - 1 : start[r] < n /\ n <= start[r + 1]

Gathered(dirs, ranks, lines) ==
    \E start \in [0 .. ranks -> 0 .. Len(lines)] : Starts(dirs, start, ranks, lines)

AllPublished(dirs) == \A r \in MapRanks : dirs[r].place = "output"

MergeInv ==
    /\ \A h \in Hosts : host[h] \in {"poll", "merge"} => h = Merger
    /\ (\E h \in Hosts : host[h] = "merge") =>
           /\ AllPublished(dir) /\ merging.done <= World
           /\ Gathered(dir, merging.done, merging.lines)
    /\ merged # None => AllPublished(dir) /\ Gathered(dir, World, merged)

MapInv ==
    /\ MapShape /\ MergeInv
    /\ \A r \in MapRanks : /\ DirInv(bad, r, dir[r])
                           /\ ProducerInv(bad, r, worker[<<r, 1>>], dir[r])
                           /\ worker[<<r, 2>>] = Idle

-----------------------------------------------------------------------------
(* Rows, tables and lines *)

LEMMA RankNumbers ==
    /\ World \in Nat /\ World > 0 /\ \A r \in MapRanks : r \in Nat /\ r < World
    /\ \A r \in MapRanks, q \in Nat : SourceIndex(r, q) \in Nat
BY MapAssumption DEF MapRanks, SourceIndex

LEMMA CountBounds ==
    ASSUME NEW r \in MapRanks, NEW limit \in Limits
    PROVE  Count(r, limit) \in Nat /\ Count(r, limit) <= SelectedRows /\ limit \in Nat
<1>1. limit \in Nat /\ limit <= SelectedRows /\ SelectedRows \in Nat BY MapAssumption
<1>2. IsFiniteSet(0 .. limit - 1) /\ Cardinality(0 .. limit - 1) = limit
  <2>1. /\ IsFiniteSet(0 .. limit - 1)
        /\ Cardinality(0 .. limit - 1) = IF 0 > limit - 1 THEN 0 ELSE (limit - 1) - 0 + 1
    BY <1>1, FS_Interval
  <2> QED BY <1>1, <2>1
<1> DEFINE mine == {i \in 0 .. limit - 1 : i % World = r}
<1>3. mine \in SUBSET (0 .. limit - 1) OBVIOUS
<1>4. Count(r, limit) = Cardinality(mine) BY DEF Count
<1> HIDE DEF mine
<1>5. IsFiniteSet(mine) /\ Cardinality(mine) <= limit BY <1>2, <1>3, FS_Subset
<1>6. Cardinality(mine) \in Nat BY <1>5, FS_CardinalityType
<1> QED BY <1>1, <1>4, <1>5, <1>6

LEMMA GoodSets ==
    ASSUME NEW b, NEW r, NEW k \in Nat
    PROVE  /\ IsFiniteSet(GoodBelow(b, r, k)) /\ Cardinality(GoodBelow(b, r, k)) \in Nat
           /\ Cardinality(GoodBelow(b, r, k)) <= k
<1>1. IsFiniteSet(0 .. k - 1) /\ Cardinality(0 .. k - 1) = k
  <2>1. /\ IsFiniteSet(0 .. k - 1)
        /\ Cardinality(0 .. k - 1) = IF 0 > k - 1 THEN 0 ELSE (k - 1) - 0 + 1
    BY FS_Interval
  <2> QED BY <2>1
<1>2. GoodBelow(b, r, k) \in SUBSET (0 .. k - 1) BY DEF GoodBelow
<1>3. IsFiniteSet(GoodBelow(b, r, k)) /\ Cardinality(GoodBelow(b, r, k)) <= k BY <1>1, <1>2, FS_Subset
<1> QED BY <1>3, FS_CardinalityType

LEMMA NextGood ==
    ASSUME NEW b, NEW r, NEW k \in Nat
    PROVE  /\ SourceIndex(r, k) \in b => GoodBelow(b, r, k + 1) = GoodBelow(b, r, k)
           /\ SourceIndex(r, k) \notin b =>
                 /\ GoodBelow(b, r, k + 1) = GoodBelow(b, r, k) \cup {k}
                 /\ Cardinality(GoodBelow(b, r, k + 1)) = Cardinality(GoodBelow(b, r, k)) + 1
<1>1. \A q : q \in 0 .. (k + 1) - 1 <=> (q \in 0 .. k - 1 \/ q = k) OBVIOUS
<1>2. SourceIndex(r, k) \in b => GoodBelow(b, r, k + 1) = GoodBelow(b, r, k) BY <1>1 DEF GoodBelow
<1>3. SourceIndex(r, k) \notin b => GoodBelow(b, r, k + 1) = GoodBelow(b, r, k) \cup {k}
  BY <1>1 DEF GoodBelow
<1>4. k \notin GoodBelow(b, r, k) BY DEF GoodBelow
<1>5. IsFiniteSet(GoodBelow(b, r, k)) BY GoodSets
<1>6. Cardinality(GoodBelow(b, r, k) \cup {k}) = Cardinality(GoodBelow(b, r, k)) + 1
  BY <1>4, <1>5, FS_AddElement
<1> QED BY <1>2, <1>3, <1>6

LEMMA NothingTabled ==
    ASSUME NEW b, NEW r
    PROVE  Tabled(b, r, <<>>, 0)
<1>1. GoodBelow(b, r, 0) = {} BY DEF GoodBelow
<1> QED BY <1>1, FS_EmptySet DEF Tabled

LEMMA BadTabled ==
    ASSUME NEW b, NEW r, NEW k \in Nat, NEW t, Tabled(b, r, t, k), SourceIndex(r, k) \in b
    PROVE  Tabled(b, r, t, k + 1)
BY NextGood DEF Tabled

LEMMA GoodTabled ==
    ASSUME NEW b, NEW r, NEW k \in Nat, NEW t \in Seq(Content), Tabled(b, r, t, k),
           SourceIndex(r, k) \notin b, NEW e \in Content, e.row = SourceIndex(r, k)
    PROVE  Tabled(b, r, Append(t, e), k + 1)
<1> DEFINE u == Append(t, e)
<1>1. /\ u \in Seq(Content) /\ Len(u) = Len(t) + 1 /\ u[Len(t) + 1] = e
      /\ \A n \in 1 .. Len(t) : u[n] = t[n]
  BY AppendProperties
<1>2. /\ GoodBelow(b, r, k + 1) = GoodBelow(b, r, k) \cup {k}
      /\ Cardinality(GoodBelow(b, r, k + 1)) = Cardinality(GoodBelow(b, r, k)) + 1
  BY NextGood
<1>3. Len(t) = Cardinality(GoodBelow(b, r, k)) /\ Len(t) \in Nat BY LenProperties DEF Tabled
<1>4. ASSUME NEW n \in 1 .. Len(u)
      PROVE  \E q \in GoodBelow(b, r, k + 1) :
                u[n].row = SourceIndex(r, q) /\ Cardinality(GoodBelow(b, r, q)) = n - 1
  <2>1. CASE n = Len(t) + 1
    <3>1. u[n].row = SourceIndex(r, k) /\ Cardinality(GoodBelow(b, r, k)) = n - 1 BY <1>1, <1>3, <2>1
    <3>2. k \in GoodBelow(b, r, k + 1) BY <1>2
    <3> QED BY <3>1, <3>2
  <2>2. CASE n # Len(t) + 1
    <3>1. n \in 1 .. Len(t) BY <1>1, <1>3, <2>2
    <3>2. PICK q \in GoodBelow(b, r, k) :
             t[n].row = SourceIndex(r, q) /\ Cardinality(GoodBelow(b, r, q)) = n - 1
      BY <3>1 DEF Tabled
    <3>3. q \in GoodBelow(b, r, k + 1) /\ u[n] = t[n] BY <1>1, <1>2, <3>1
    <3> QED BY <3>2, <3>3
  <2> QED BY <2>1, <2>2
<1> HIDE DEF u
<1>5. Len(u) = Cardinality(GoodBelow(b, r, k + 1)) BY <1>1, <1>2, <1>3
<1> QED BY <1>4, <1>5 DEF Tabled, u

\* Of two good positions the first has fewer good ones below.
LEMMA GoodOrder ==
    ASSUME NEW b, NEW r, NEW p \in Nat, NEW q \in Nat, SourceIndex(r, p) \notin b, p < q
    PROVE  Cardinality(GoodBelow(b, r, p)) < Cardinality(GoodBelow(b, r, q))
<1>1. GoodBelow(b, r, p) \cup {p} \in SUBSET GoodBelow(b, r, q) BY DEF GoodBelow
<1>2. p \notin GoodBelow(b, r, p) BY DEF GoodBelow
<1>3. /\ IsFiniteSet(GoodBelow(b, r, p)) /\ IsFiniteSet(GoodBelow(b, r, q))
      /\ Cardinality(GoodBelow(b, r, p)) \in Nat /\ Cardinality(GoodBelow(b, r, q)) \in Nat
  BY GoodSets
<1>4. Cardinality(GoodBelow(b, r, p) \cup {p}) = Cardinality(GoodBelow(b, r, p)) + 1
  BY <1>2, <1>3, FS_AddElement
<1>5. Cardinality(GoodBelow(b, r, p) \cup {p}) <= Cardinality(GoodBelow(b, r, q)) BY <1>1, <1>3, FS_Subset
<1> QED BY <1>3, <1>4, <1>5

\* The whole table is what the rank's artifact was to hold.
LEMMA TabledIsExpected ==
    ASSUME NEW r \in MapRanks, dir[r].manifest.limit \in Limits, NEW t \in Seq(Content),
           Tabled(bad, r, t, Count(r, dir[r].manifest.limit))
    PROVE  [n \in 1 .. Len(t) |-> t[n].row] = Expected(r)
<1> DEFINE c == Count(r, dir[r].manifest.limit)
           Good == {k \in 0 .. c - 1 : SourceIndex(r, k) \notin bad}
           Nth(j) == CHOOSE k \in Good : Cardinality({q \in Good : q < k}) = j - 1
<1>1. Expected(r) = [j \in 1 .. Cardinality(Good) |-> SourceIndex(r, Nth(j))] BY DEF Expected
<1>2. c \in Nat BY CountBounds
<1>3. Good = GoodBelow(bad, r, c) BY DEF GoodBelow
<1>4. \A k \in Good : k \in Nat /\ SourceIndex(r, k) \notin bad /\ {q \in Good : q < k} = GoodBelow(bad, r, k)
  <2> HIDE DEF c
  <2> QED BY <1>2 DEF GoodBelow
<1>5. Len(t) = Cardinality(Good) /\ Len(t) \in Nat BY <1>3, LenProperties DEF Tabled
<1>6. ASSUME NEW j \in 1 .. Len(t)
      PROVE  t[j].row = SourceIndex(r, Nth(j))
  <2>1. PICK q \in GoodBelow(bad, r, c) :
           t[j].row = SourceIndex(r, q) /\ Cardinality(GoodBelow(bad, r, q)) = j - 1
    BY DEF Tabled
  <2>2. q \in Good /\ Cardinality({p \in Good : p < q}) = j - 1
    <3>1. q \in Good BY <1>3, <2>1
    <3> QED BY <1>4, <2>1, <3>1
  <2>3. Nth(j) \in Good /\ Cardinality({p \in Good : p < Nth(j)}) = j - 1
    <3> DEFINE P(k) == Cardinality({p \in Good : p < k}) = j - 1
    <3>1. q \in Good /\ P(q) BY <2>2
    <3>2. Nth(j) = CHOOSE k \in Good : P(k) OBVIOUS
    <3> HIDE DEF P, Good
    <3>3. Nth(j) \in Good /\ P(Nth(j)) BY <3>1, <3>2
    <3> QED BY <3>3 DEF P
  <2> DEFINE n == Nth(j)
  <2>4. n \in Good /\ q \in Good BY <2>2, <2>3
  <2>5. Cardinality(GoodBelow(bad, r, n)) = j - 1 BY <1>4, <2>3
  <2> HIDE DEF n, Good
  <2>6. n \in Nat /\ q \in Nat /\ SourceIndex(r, n) \notin bad /\ SourceIndex(r, q) \notin bad BY <1>4, <2>4
  <2>7. Cardinality(GoodBelow(bad, r, n)) \in Nat BY <2>6, GoodSets
  <2>8. ~(n < q) /\ ~(q < n)
    <3>1. n < q => Cardinality(GoodBelow(bad, r, n)) < Cardinality(GoodBelow(bad, r, q)) BY <2>6, GoodOrder
    <3>2. q < n => Cardinality(GoodBelow(bad, r, q)) < Cardinality(GoodBelow(bad, r, n)) BY <2>6, GoodOrder
    <3> QED BY <2>1, <2>5, <2>7, <3>1, <3>2
  <2>9. n = q BY <2>6, <2>8
  <2> QED BY <2>1, <2>9 DEF n
<1> HIDE DEF Good, Nth
<1> QED BY <1>1, <1>5, <1>6
-----------------------------------------------------------------------------
(* One rank at a time *)

LEMMA DirectoryFields ==
    ASSUME NEW d \in Directory
    PROVE  /\ d.place \in {"none", "staging", "output"} /\ d.limit \in Nat
           /\ d.state.table \in Seq(Content) /\ d.state.size \in Nat /\ d.state.next \in Nat
           /\ d.manifest.limit \in Nat /\ d.manifest.table \in Seq(Content)
           /\ d.shards \in [1 .. SelectedRows -> Content] /\ d.lines \in Seq(Line)
           /\ d.state \in BuildState /\ d.manifest \in Manifest
BY DEF Directory, BuildState, Manifest

LEMMA ProducerFields ==
    ASSUME NEW me \in Producer
    PROVE  /\ me.pc \in {"none", "zero", "one", "open"} \cup Building
           /\ me.job \in Nat /\ me.limit \in Nat /\ me.next \in Nat
           /\ me.table \in Seq(Content) /\ me.append \in BOOLEAN /\ me.pos \in Nat
BY DEF Producer

LEMMA EmptyContents ==
    /\ NoShard \in Content /\ NoDir \in Directory /\ Idle \in Producer
    /\ <<>> \in Seq(Content) /\ <<>> \in Seq(Line) /\ <<>> \in Seq(MergedLine)
    /\ Len(NoDir.state.table) = 0 /\ Len(NoDir.lines) = 0 /\ NoDir.state.size = 0 /\ NoDir.state.next = 0
<1>1. NoShard \in Content BY DEF NoShard, Content
<1>2. <<>> \in Seq(Content) /\ <<>> \in Seq(Line) /\ <<>> \in Seq(MergedLine) OBVIOUS
<1>3. [k \in 1 .. SelectedRows |-> NoShard] \in [1 .. SelectedRows -> Content] BY <1>1
<1>4. NoRankManifest \in Manifest BY <1>2 DEF NoRankManifest, Manifest
<1>5. NoDir \in Directory BY <1>2, <1>3, <1>4 DEF NoDir, Directory, BuildState
<1>6. Idle \in Producer BY <1>2 DEF Idle, Producer
<1> QED BY <1>1, <1>2, <1>5, <1>6 DEF NoDir

LEMMA StartShape ==
    ASSUME MapInit
    PROVE  MapInv
<1>1. Slots = MapRanks \X {1, 2} BY DEF Slots
<1>2. MapShape BY EmptyContents DEF MapInit, MapShape, None
<1>3. MergeInv BY DEF MapInit, MergeInv
<1>4. ASSUME NEW r \in MapRanks
      PROVE  /\ DirInv(bad, r, dir[r]) /\ ProducerInv(bad, r, worker[<<r, 1>>], dir[r])
             /\ worker[<<r, 2>>] = Idle
  <2>1. <<r, 1>> \in Slots /\ <<r, 2>> \in Slots BY <1>1
  <2>2. worker[<<r, 1>>] = Idle /\ worker[<<r, 2>>] = Idle /\ dir[r] = NoDir BY <2>1 DEF MapInit
  <2> QED BY <2>2 DEF DirInv, NoDir, ProducerInv, Idle, Building
<1> QED BY <1>2, <1>3, <1>4 DEF MapInv

\* With all directories published the merge sees no change.
LEMMA SameGathering ==
    ASSUME MergeInv, UNCHANGED <<host, merging, merged>>, AllPublished(dir) => dir' = dir
    PROVE  MergeInv'
<1>1. \A h \in Hosts : host'[h] \in {"poll", "merge"} => h = Merger BY DEF MergeInv
<1>2. (\E h \in Hosts : host'[h] = "merge") =>
           AllPublished(dir') /\ merging'.done <= World /\ Gathered(dir', merging'.done, merging'.lines)
  BY DEF MergeInv
<1>3. merged' # None => AllPublished(dir') /\ Gathered(dir', World, merged') BY DEF MergeInv
<1> QED BY <1>1, <1>2, <1>3 DEF MergeInv

LEMMA ActorIs ==
    ASSUME MapInv, NEW w \in Slots, worker[w].pc # "none"
    PROVE  \E r \in MapRanks : w = <<r, 1>> /\ w[1] = r
<1>1. PICK r \in MapRanks, s \in {1, 2} : w = <<r, s>> BY DEF Slots
<1>2. worker[<<r, 2>>] = Idle BY DEF MapInv
<1>3. Idle.pc = "none" BY DEF Idle
<1>4. s # 2 BY <1>1, <1>2, <1>3
<1> QED BY <1>1, <1>4

\* A step of one producer keeps the invariant if it does so for its rank.
LEMMA RankStep ==
    ASSUME MapInv, NEW r \in MapRanks, NEW me \in Producer, NEW d \in Directory,
           worker' = [worker EXCEPT ![<<r, 1>>] = me], dir' = [dir EXCEPT ![r] = d], Stays,
           DirInv(bad, r, d), ProducerInv(bad, r, me, d), dir[r].place = "output" => d = dir[r]
    PROVE  MapInv'
<1>1. MapShape /\ MergeInv BY DEF MapInv
<1>2. <<r, 1>> \in Slots BY DEF Slots
<1>3. worker \in [Slots -> Producer] /\ dir \in [MapRanks -> Directory] BY <1>1 DEF MapShape
<1>4. UNCHANGED <<bad, launches, host, children, merging, merged>> BY DEF Stays
<1>5. MapShape' BY <1>1, <1>2, <1>3, <1>4 DEF MapShape
<1>6. AllPublished(dir) => dir' = dir BY <1>3 DEF AllPublished
<1>7. MergeInv' BY <1>1, <1>4, <1>6, SameGathering
<1>8. ASSUME NEW q \in MapRanks
      PROVE  /\ DirInv(bad', q, dir'[q]) /\ ProducerInv(bad', q, worker'[<<q, 1>>], dir'[q])
             /\ worker'[<<q, 2>>] = Idle
  <2>1. <<q, 1>> \in Slots /\ <<q, 2>> \in Slots /\ <<q, 2>> # <<r, 1>> BY DEF Slots
  <2>2. worker'[<<q, 2>>] = Idle BY <1>3, <2>1 DEF MapInv
  <2>3. CASE q = r
    <3>1. dir'[q] = d /\ worker'[<<q, 1>>] = me BY <1>2, <1>3, <2>3
    <3> QED BY <1>4, <2>2, <2>3, <3>1
  <2>4. CASE q # r
    <3>1. <<q, 1>> # <<r, 1>> BY <2>4
    <3>2. dir'[q] = dir[q] /\ worker'[<<q, 1>>] = worker[<<q, 1>>] BY <1>3, <2>1, <2>4, <3>1
    <3> QED BY <1>4, <2>2, <3>2 DEF MapInv
  <2> QED BY <2>3, <2>4
<1> QED BY <1>5, <1>7, <1>8 DEF MapInv

LEMMA ExitKept ==
    ASSUME MapInv, NEW r \in MapRanks, NEW code \in {"zero", "one"},
           worker' = [worker EXCEPT ![<<r, 1>>] = Ended(code)], dir' = dir, Stays
    PROVE  MapInv'
<1>1. Ended(code) \in Producer BY EmptyContents DEF Ended, Producer, Idle
<1>2. Ended(code).pc = code BY DEF Ended, Idle
<1>3. dir[r] \in Directory /\ DirInv(bad, r, dir[r]) /\ dir' = [dir EXCEPT ![r] = dir[r]]
  BY DEF MapInv, MapShape
<1>4. ProducerInv(bad, r, Ended(code), dir[r]) BY <1>2 DEF ProducerInv, Building
<1> QED BY <1>1, <1>3, <1>4, RankStep

\* What a producer that is at work has: its fields, and its directory's.
LEMMA AtWork ==
    ASSUME MapInv, NEW r \in MapRanks, NEW me, me = worker[<<r, 1>>], NEW d, d = dir[r],
           me.pc \in Building
    PROVE  /\ me \in Producer /\ d \in Directory /\ DirInv(bad, r, d) /\ Holds(bad, r, me, d)
           /\ CanResume(bad, r, d) /\ d.place = "staging"
           /\ me.limit \in Limits /\ Count(r, me.limit) \in Nat /\ Count(r, me.limit) <= SelectedRows
           /\ me.next \in Nat /\ SourceIndex(r, me.next) \in Nat
           /\ Len(me.table) \in Nat /\ Len(d.lines) \in Nat /\ Len(d.state.table) \in Nat
           /\ Len(d.state.table) <= Len(d.lines)
<1>1. <<r, 1>> \in Slots BY DEF Slots
<1>2. me \in Producer /\ d \in Directory BY <1>1 DEF MapInv, MapShape
<1>3. DirInv(bad, r, d) /\ Holds(bad, r, me, d) BY DEF MapInv, ProducerInv
<1>4. d.place = "staging" /\ me.limit = d.limit BY <1>3 DEF Holds
<1>5. CanResume(bad, r, d) BY <1>3, <1>4 DEF DirInv
<1>6. me.limit \in Limits /\ Len(d.state.table) <= Len(d.lines) BY <1>4, <1>5 DEF CanResume
<1>7. /\ me.next \in Nat /\ me.table \in Seq(Content) /\ d.lines \in Seq(Line)
      /\ d.state.table \in Seq(Content)
  BY <1>2, ProducerFields, DirectoryFields
<1>8. Len(me.table) \in Nat /\ Len(d.lines) \in Nat /\ Len(d.state.table) \in Nat BY <1>7, LenProperties
<1> QED BY <1>2, <1>3, <1>4, <1>5, <1>6, <1>7, <1>8, CountBounds, RankNumbers

\* A directory that is built anew, or from where its state says.
LEMMA OpenKept ==
    ASSUME MapInv, NEW r \in MapRanks, OpenDir(<<r, 1>>)
    PROVE  MapInv'
<1> DEFINE me == worker[<<r, 1>>]
           d == dir[r]
           n == Len(d.state.table)
<1>1. me.pc = "open" /\ Stays BY DEF OpenDir, At
<1>2. <<r, 1>> \in Slots /\ <<r, 1>>[1] = r BY DEF Slots
<1>3. /\ me \in Producer /\ d \in Directory /\ worker \in [Slots -> Producer] /\ dir \in [MapRanks -> Directory]
      /\ DirInv(bad, r, d) /\ ProducerInv(bad, r, me, d)
  BY <1>2 DEF MapInv, MapShape
<1>4. me = [Idle EXCEPT !.pc = "open", !.job = me.job, !.limit = me.limit] /\ me.limit \in Limits
  BY <1>1, <1>3 DEF ProducerInv
<1>5. /\ me.job \in Nat /\ me.limit \in Nat /\ me.next = 0 /\ me.table = <<>> /\ me.append = FALSE
      /\ me.pos = 0
  <2>1. me.job \in Nat /\ me.limit \in Nat BY <1>3, ProducerFields
  <2> QED BY <1>4, <2>1 DEF Idle
<1>6. Count(r, me.limit) \in Nat BY <1>4, CountBounds
<1>7. CASE Count(r, me.limit) = 0 \/ RankPublished(r)
  <2>1. Exits(<<r, 1>>, "one") BY <1>2, <1>7 DEF OpenDir
  <2> QED BY <1>1, <2>1, ExitKept DEF Exits, Becomes
<1>8. CASE ~(Count(r, me.limit) = 0 \/ RankPublished(r)) /\ d.place = "none"
  <2> DEFINE m == [me EXCEPT !.pc = "generate"]
             e == [NoDir EXCEPT !.place = "staging", !.limit = me.limit]
  <2>1. worker' = [worker EXCEPT ![<<r, 1>>] = m] /\ dir' = [dir EXCEPT ![r] = e]
    BY <1>2, <1>8 DEF OpenDir, Becomes
  <2>2. m \in Producer /\ m.pc = "generate" /\ m.next = 0 /\ m.table = <<>> /\ m.pos = 0 /\ m.limit = me.limit
    BY <1>3, <1>5 DEF Producer, Building
  <2>3. /\ e \in Directory /\ e.place = "staging" /\ e.limit = me.limit /\ e.state = NoDir.state
        /\ e.lines = <<>>
    BY <1>5, EmptyContents DEF Directory, NoDir
  <2> HIDE DEF m, e
  <2>4. Tabled(bad, r, <<>>, 0) BY NothingTabled
  <2>5. e.state.table = <<>> /\ e.state.size = 0 /\ e.state.next = 0 /\ Len(<<>>) = 0
    BY <2>3 DEF NoDir
  <2>6. Lined(e.lines, <<>>, 0) /\ Stored(e, <<>>) BY <2>5 DEF Lined, Stored
  <2>7. DirInv(bad, r, e)
    <3>1. CanResume(bad, r, e) BY <1>4, <1>6, <2>3, <2>4, <2>5, <2>6 DEF CanResume
    <3> QED BY <2>3, <3>1 DEF DirInv
  <2>8. ProducerInv(bad, r, m, e)
    <3>1. Holds(bad, r, m, e) BY <1>6, <2>2, <2>3, <2>4, <2>5, <2>6 DEF Holds
    <3> QED BY <2>2, <3>1 DEF ProducerInv
  <2> QED BY <1>1, <1>8, <2>1, <2>2, <2>3, <2>7, <2>8, RankStep
<1>9. CASE ~(Count(r, me.limit) = 0 \/ RankPublished(r)) /\ d.place # "none" /\ ~Resumable(d, me.limit)
  <2>1. Exits(<<r, 1>>, "one") BY <1>2, <1>9 DEF OpenDir
  <2> QED BY <1>1, <2>1, ExitKept DEF Exits, Becomes
<1>10. CASE ~(Count(r, me.limit) = 0 \/ RankPublished(r)) /\ d.place # "none" /\ Resumable(d, me.limit)
  <2> DEFINE m == [me EXCEPT !.pc = "generate", !.next = d.state.next, !.table = d.state.table,
                             !.append = TRUE]
             e == [d EXCEPT !.lines = SubSeq(@, 1, d.state.size),
                            !.shards = [k \in DOMAIN @ |-> IF k <= n THEN @[k] ELSE NoShard]]
  <2>1. worker' = [worker EXCEPT ![<<r, 1>>] = m] /\ dir' = [dir EXCEPT ![r] = e]
    BY <1>2, <1>3, <1>10, ZenonT(30) DEF OpenDir, Becomes
  <2>2. d.place = "staging" /\ CanResume(bad, r, d) /\ d.limit = me.limit
    <3>1. d.place = "staging" BY <1>3, <1>10, DirectoryFields DEF RankPublished
    <3> QED BY <1>3, <1>10, <3>1 DEF DirInv, Resumable
  <2>3. /\ d.state.table \in Seq(Content) /\ d.state.next \in Nat /\ d.lines \in Seq(Line)
        /\ d.state.size \in Nat /\ d.shards \in [1 .. SelectedRows -> Content] /\ n \in Nat
    BY <1>3, DirectoryFields, LenProperties
  <2>4. d.state.size = n /\ n <= Len(d.lines) BY <2>2 DEF CanResume
  <2>5. /\ SubSeq(d.lines, 1, n) \in Seq(Line) /\ Len(SubSeq(d.lines, 1, n)) = n
        /\ \A k \in 1 .. n : SubSeq(d.lines, 1, n)[k] = d.lines[k]
    <3> DEFINE l == d.lines
    <3>1. Len(l) \in Nat /\ \A k \in 1 .. Len(l) : l[k] \in Line BY <2>3, LenProperties, ElementOfSeq
    <3> HIDE DEF l, n
    <3>2. \A k \in 1 .. n : l[k] \in Line BY <2>3, <2>4, <3>1 DEF l
    <3>3. /\ SubSeq(l, 1, n) \in Seq(Line) /\ Len(SubSeq(l, 1, n)) = (IF 1 <= n THEN n - 1 + 1 ELSE 0)
          /\ \A k \in 1 .. n - 1 + 1 : SubSeq(l, 1, n)[k] = l[1 + k - 1]
      BY <2>3, <3>2, SubSeqProperties
    <3> QED BY <2>3, <3>3 DEF l
  <2>6. m \in Producer /\ m.pc = "generate" /\ m.next = d.state.next /\ m.table = d.state.table
        /\ m.append = TRUE /\ m.limit = me.limit
    BY <1>3, <2>3 DEF Producer, Building
  <2>7. /\ e.place = "staging" /\ e.limit = d.limit /\ e.state = d.state
        /\ e.lines = SubSeq(d.lines, 1, n)
        /\ e.shards = [k \in 1 .. SelectedRows |-> IF k <= n THEN d.shards[k] ELSE NoShard]
        /\ e \in Directory
    <3>1. DOMAIN d.shards = 1 .. SelectedRows BY <2>3
    <3>2. [k \in 1 .. SelectedRows |-> IF k <= n THEN d.shards[k] ELSE NoShard] \in [1 .. SelectedRows -> Content]
      BY <2>3, EmptyContents
    <3> QED BY <1>3, <2>2, <2>4, <2>5, <3>1, <3>2 DEF Directory
  <2> HIDE DEF m, e
  <2>8. n <= SelectedRows
    <3>1. Count(r, d.limit) <= SelectedRows /\ Count(r, d.limit) \in Nat BY <1>4, <2>2, CountBounds
    <3>2. n <= d.state.next
      <4>1. n = Cardinality(GoodBelow(bad, r, d.state.next)) BY <2>2 DEF CanResume, Tabled
      <4> QED BY <2>3, <4>1, GoodSets
    <3>3. d.state.next <= Count(r, d.limit) BY <2>2 DEF CanResume
    <3>4. SelectedRows \in Nat BY MapAssumption
    <3> QED BY <2>3, <3>1, <3>2, <3>3, <3>4
  <2>9. Lined(e.lines, d.state.table, n) BY <2>2, <2>4, <2>5, <2>7 DEF CanResume, Lined
  <2>10. Stored(e, d.state.table)
    <3>1. \A k \in 1 .. n : k \in 1 .. SelectedRows /\ k <= n
      <4>1. SelectedRows \in Nat BY MapAssumption
      <4> HIDE DEF n
      <4> QED BY <2>3, <2>8, <4>1
    <3> QED BY <2>2, <2>7, <3>1 DEF CanResume, Stored
  <2>11. DirInv(bad, r, e)
    <3>1. CanResume(bad, r, e)
      BY <2>2, <2>3, <2>4, <2>5, <2>7, <2>9, <2>10 DEF CanResume
    <3> QED BY <2>7, <3>1 DEF DirInv
  <2>12. ProducerInv(bad, r, m, e)
    <3>1. Holds(bad, r, m, e)
      BY <2>2, <2>3, <2>4, <2>5, <2>6, <2>7, <2>9, <2>10 DEF Holds, CanResume
    <3> QED BY <2>6, <3>1 DEF ProducerInv
  <2> QED BY <1>1, <2>1, <2>2, <2>6, <2>7, <2>11, <2>12, RankStep
<1> QED BY <1>7, <1>8, <1>9, <1>10

\* A row that is no bad case is to be saved.
LEMMA GenerateKept ==
    ASSUME MapInv, NEW r \in MapRanks, Generate(<<r, 1>>)
    PROVE  MapInv'
<1> DEFINE me == worker[<<r, 1>>]
           d == dir[r]
           m == IF SourceIndex(r, me.next) \in bad THEN [me EXCEPT !.next = @ + 1] ELSE [me EXCEPT !.pc = "save"]
<1>1. me.pc = "generate" /\ me.next < Count(r, me.limit) /\ worker' = [worker EXCEPT ![<<r, 1>>] = m]
      /\ dir' = dir /\ Stays
  <2>1. <<r, 1>>[1] = r OBVIOUS
  <2> QED BY <2>1 DEF Generate, At, Becomes
<1>2. me.pc \in Building BY <1>1 DEF Building
<1>3. /\ me \in Producer /\ d \in Directory /\ DirInv(bad, r, d) /\ Holds(bad, r, me, d)
      /\ d.place = "staging" /\ me.limit \in Limits /\ Count(r, me.limit) \in Nat /\ me.next \in Nat
  BY <1>2, AtWork
<1>4. Tabled(bad, r, me.table, me.next) BY <1>1, <1>3 DEF Holds
<1>5. m \in Producer /\ ProducerInv(bad, r, m, d)
  <2>1. CASE SourceIndex(r, me.next) \in bad
    <3>1. m = [me EXCEPT !.next = @ + 1] BY <2>1
    <3> HIDE DEF m, me, d
    <3>2. /\ m.pc = "generate" /\ m.next = me.next + 1 /\ m.table = me.table /\ m.limit = me.limit
          /\ m.append = me.append /\ m.pos = me.pos /\ m \in Producer
      BY <1>1, <1>3, <3>1 DEF Producer
    <3>3. Tabled(bad, r, m.table, m.next) BY <1>3, <1>4, <2>1, <3>2, BadTabled
    <3>4. me.next + 1 <= Count(r, me.limit) BY <1>1, <1>3
    <3>5. Holds(bad, r, m, d) BY <1>1, <1>3, <3>2, <3>3, <3>4 DEF Holds
    <3> QED BY <3>2, <3>5 DEF ProducerInv
  <2>2. CASE SourceIndex(r, me.next) \notin bad
    <3>1. m = [me EXCEPT !.pc = "save"] BY <2>2
    <3> HIDE DEF m, me, d
    <3>2. /\ m.pc = "save" /\ m.next = me.next /\ m.table = me.table /\ m.limit = me.limit
          /\ m.append = me.append /\ m.pos = me.pos /\ m \in Producer
      BY <1>1, <1>3, <3>1 DEF Producer, Building
    <3>3. Holds(bad, r, m, d) BY <1>1, <1>3, <1>4, <2>2, <3>2 DEF Holds
    <3> QED BY <3>2, <3>3 DEF ProducerInv
  <2> QED BY <2>1, <2>2
<1>6. dir' = [dir EXCEPT ![r] = d] BY <1>1 DEF MapInv, MapShape
<1> HIDE DEF m, me, d
<1> QED BY <1>1, <1>3, <1>5, <1>6, RankStep DEF d

\* The shard of the next row, which no table refers to yet.
LEMMA SaveKept ==
    ASSUME MapInv, NEW r \in MapRanks, SaveRow(<<r, 1>>)
    PROVE  MapInv'
<1> DEFINE me == worker[<<r, 1>>]
           d == dir[r]
           i == Len(me.table) + 1
           c == [row |-> SourceIndex(r, me.next), job |-> me.job]
           m == [me EXCEPT !.pc = "hash"]
           e == [d EXCEPT !.shards[i] = c]
<1>1. me.pc = "save" /\ me.pc \in Building /\ Stays BY DEF SaveRow, At, Building
<1>2. /\ me \in Producer /\ d \in Directory /\ DirInv(bad, r, d) /\ Holds(bad, r, me, d)
      /\ CanResume(bad, r, d) /\ d.place = "staging" /\ me.limit \in Limits
      /\ Count(r, me.limit) \in Nat /\ Count(r, me.limit) <= SelectedRows /\ me.next \in Nat
      /\ SourceIndex(r, me.next) \in Nat /\ Len(me.table) \in Nat /\ Len(d.lines) \in Nat
      /\ Len(d.state.table) \in Nat /\ Len(d.state.table) <= Len(d.lines)
  BY <1>1, AtWork
<1>3. worker' = [worker EXCEPT ![<<r, 1>>] = m] /\ dir' = [dir EXCEPT ![r] = e]
  <2>1. <<r, 1>>[1] = r OBVIOUS
  <2>2. Staged(<<r, 1>>) BY <1>2, <2>1 DEF Staged
  <2>3. dir' = [dir EXCEPT ![r].shards[i] = c] /\ Becomes(<<r, 1>>, m) BY <2>1, <2>2 DEF SaveRow
  <2> QED BY <2>3 DEF Becomes
<1>4. /\ me.next < Count(r, me.limit) /\ Tabled(bad, r, me.table, me.next) /\ me.limit = d.limit
      /\ Len(me.table) = Len(d.lines) /\ Stored(d, me.table)
  BY <1>1, <1>2 DEF Holds
<1>5. i \in 1 .. SelectedRows
  <2>1. Len(me.table) = Cardinality(GoodBelow(bad, r, me.next)) BY <1>4 DEF Tabled
  <2>2. Len(me.table) <= me.next BY <1>2, <2>1, GoodSets
  <2>3. SelectedRows \in Nat BY MapAssumption
  <2> HIDE DEF me
  <2> QED BY <1>2, <1>4, <2>2, <2>3
<1>6. c \in Content BY <1>2, ProducerFields DEF Content
<1>7. m \in Producer /\ m.pc = "hash" /\ m.table = me.table /\ m.next = me.next /\ m.limit = me.limit
      /\ m.append = me.append /\ m.pos = me.pos /\ m.job = me.job
  BY <1>2 DEF Producer, Building
<1>8. /\ e \in Directory /\ e.place = d.place /\ e.limit = d.limit /\ e.state = d.state /\ e.lines = d.lines
      /\ e.shards = [d.shards EXCEPT ![i] = c] /\ d.shards \in [1 .. SelectedRows -> Content]
  <2>1. d.shards \in [1 .. SelectedRows -> Content] BY <1>2, DirectoryFields
  <2> HIDE DEF i, c, me
  <2>2. [d.shards EXCEPT ![i] = c] \in [1 .. SelectedRows -> Content] BY <1>6, <2>1
  <2> QED BY <1>2, <2>1, <2>2 DEF Directory
<1>9. e.shards[i] = c /\ \A k \in 1 .. SelectedRows : k # i => e.shards[k] = d.shards[k]
  <2> HIDE DEF i, c, e, d
  <2> QED BY <1>5, <1>8
<1>10. Stored(e, me.table) /\ Stored(e, d.state.table)
  <2>1. \A k \in 1 .. Len(me.table) : k \in 1 .. SelectedRows /\ k # i
    <3>1. SelectedRows \in Nat BY MapAssumption
    <3> DEFINE l == Len(me.table)
    <3>2. l \in Nat /\ l + 1 <= SelectedRows BY <1>2, <1>5, <3>1
    <3> HIDE DEF l
    <3>3. \A k \in 1 .. l : k \in 1 .. SelectedRows /\ k # l + 1 BY <3>1, <3>2
    <3> QED BY <3>3 DEF l
  <2>2. \A k \in 1 .. Len(d.state.table) : k \in 1 .. Len(me.table) BY <1>2, <1>4
  <2>3. Stored(d, d.state.table) BY <1>2 DEF CanResume
  <2> HIDE DEF e, d, me, i, c
  <2> QED BY <1>4, <1>9, <2>1, <2>2, <2>3 DEF Stored
<1> HIDE DEF e, d, me, m
<1>11. DirInv(bad, r, e)
  <2>1. CanResume(bad, r, e) BY <1>2, <1>8, <1>10 DEF CanResume
  <2> QED BY <1>2, <1>8, <2>1 DEF DirInv
<1>12. ProducerInv(bad, r, m, e)
  <2>1. Holds(bad, r, m, e) BY <1>1, <1>2, <1>7, <1>8, <1>9, <1>10 DEF Holds
  <2> QED BY <1>7, <2>1 DEF ProducerInv
<1> QED BY <1>1, <1>2, <1>3, <1>7, <1>8, <1>11, <1>12, RankStep DEF d

\* Its digest goes into the table, in memory.
LEMMA HashKept ==
    ASSUME MapInv, NEW r \in MapRanks, HashRow(<<r, 1>>)
    PROVE  MapInv'
<1> DEFINE me == worker[<<r, 1>>]
           d == dir[r]
           c == d.shards[Len(me.table) + 1]
           u == Append(me.table, c)
           m == [me EXCEPT !.pc = "lines", !.table = u]
<1>1. me.pc = "hash" /\ me.pc \in Building /\ Stays BY DEF HashRow, At, Building
<1>2. /\ me \in Producer /\ d \in Directory /\ DirInv(bad, r, d) /\ Holds(bad, r, me, d)
      /\ d.place = "staging" /\ me.next \in Nat /\ SourceIndex(r, me.next) \in Nat
      /\ Len(me.table) \in Nat /\ Len(d.lines) \in Nat
  BY <1>1, AtWork
<1>3. /\ me.next < Count(r, d.limit) /\ SourceIndex(r, me.next) \notin bad
      /\ Tabled(bad, r, me.table, me.next) /\ me.limit = d.limit
      /\ Len(me.table) = Len(d.lines) /\ Lined(d.lines, me.table, Len(d.lines)) /\ Stored(d, me.table)
      /\ c = [row |-> SourceIndex(r, me.next), job |-> me.job]
  BY <1>1, <1>2 DEF Holds
<1>4. c # NoShard /\ c \in Content /\ c.row = SourceIndex(r, me.next)
  <2>1. c \in Content /\ c.row = SourceIndex(r, me.next) BY <1>2, <1>3, ProducerFields DEF Content
  <2>2. c.row # -1 BY <1>2, <2>1
  <2> QED BY <2>1, <2>2 DEF NoShard
<1>5. worker' = [worker EXCEPT ![<<r, 1>>] = m] /\ dir' = [dir EXCEPT ![r] = d]
  <2>1. <<r, 1>>[1] = r OBVIOUS
  <2>2. Staged(<<r, 1>>) BY <1>2, <2>1 DEF Staged
  <2>3. Becomes(<<r, 1>>, m) /\ dir' = dir BY <1>4, <2>1, <2>2 DEF HashRow
  <2>4. dir = [dir EXCEPT ![r] = d] BY DEF MapInv, MapShape
  <2> QED BY <2>3, <2>4 DEF Becomes
<1>6. me.table \in Seq(Content) BY <1>2, ProducerFields
<1> HIDE DEF c
<1>7. /\ u \in Seq(Content) /\ Len(u) = Len(me.table) + 1 /\ u[Len(me.table) + 1] = c
      /\ \A k \in 1 .. Len(me.table) : u[k] = me.table[k]
  BY <1>4, <1>6, AppendProperties
<1>8. m \in Producer /\ m.pc = "lines" /\ m.table = u /\ m.next = me.next /\ m.limit = me.limit
      /\ m.append = me.append /\ m.pos = me.pos /\ m.job = me.job
  <2> HIDE DEF u
  <2> QED BY <1>2, <1>7 DEF Producer, Building
<1>9. Tabled(bad, r, u, me.next + 1) BY <1>2, <1>3, <1>4, <1>6, GoodTabled
<1> HIDE DEF u, m, d, me
<1>10. Stored(d, u)
  <2>1. \A k \in 1 .. Len(u) : k \in 1 .. Len(me.table) \/ k = Len(me.table) + 1 BY <1>2, <1>7
  <2> QED BY <1>3, <1>7, <2>1 DEF Stored, c
<1>11. Lined(d.lines, u, Len(d.lines)) BY <1>3, <1>7 DEF Lined, LineOf
<1>12. ProducerInv(bad, r, m, d)
  <2>1. Holds(bad, r, m, d)
    BY <1>1, <1>2, <1>3, <1>7, <1>8, <1>9, <1>10, <1>11 DEF Holds
  <2> QED BY <1>8, <2>1 DEF ProducerInv
<1> QED BY <1>1, <1>2, <1>5, <1>8, <1>12, RankStep DEF d

\* The line goes to the end of the file, whichever way it was opened.
LEMMA LineKept ==
    ASSUME MapInv, NEW r \in MapRanks, WriteLine(<<r, 1>>)
    PROVE  MapInv'
<1> DEFINE me == worker[<<r, 1>>]
           d == dir[r]
           old == d.lines
           at == 1 + IF me.append THEN Len(old) ELSE me.pos
           line == [row |-> SourceIndex(r, me.next), job |-> me.job, shard |-> Len(me.table)]
           lines == [n \in 1 .. (IF at > Len(old) THEN at ELSE Len(old)) |->
                        IF n = at THEN line ELSE IF n <= Len(old) THEN old[n] ELSE Garbage]
           m == [me EXCEPT !.pc = "state", !.pos = at]
           e == [d EXCEPT !.lines = lines]
<1>1. me.pc = "lines" /\ me.pc \in Building /\ Stays BY DEF WriteLine, At, Building
<1>2. /\ me \in Producer /\ d \in Directory /\ DirInv(bad, r, d) /\ Holds(bad, r, me, d)
      /\ CanResume(bad, r, d) /\ d.place = "staging" /\ me.next \in Nat
      /\ SourceIndex(r, me.next) \in Nat /\ Len(me.table) \in Nat /\ Len(old) \in Nat
  BY <1>1, AtWork
<1>3. worker' = [worker EXCEPT ![<<r, 1>>] = m] /\ dir' = [dir EXCEPT ![r] = e]
  <2>1. <<r, 1>>[1] = r OBVIOUS
  <2>2. dir' = [dir EXCEPT ![r].lines = lines] /\ Becomes(<<r, 1>>, m) BY <2>1 DEF WriteLine
  <2> QED BY <2>2 DEF Becomes
<1>4. /\ me.next < Count(r, d.limit) /\ SourceIndex(r, me.next) \notin bad
      /\ Tabled(bad, r, me.table, me.next + 1) /\ me.limit = d.limit
      /\ Len(me.table) = Len(old) + 1 /\ Lined(old, me.table, Len(old)) /\ Stored(d, me.table)
      /\ (me.append \/ me.pos = Len(old))
      /\ me.table[Len(me.table)] = [row |-> SourceIndex(r, me.next), job |-> me.job]
  BY <1>1, <1>2 DEF Holds
<1>5. at = Len(old) + 1 BY <1>2, <1>4
<1>6. line \in Line /\ line = LineOf(me.table, Len(me.table))
  BY <1>2, <1>4, ProducerFields DEF Line, LineOf
<1>7. lines = [n \in 1 .. Len(old) + 1 |-> IF n = Len(old) + 1 THEN line ELSE old[n]]
  <2>1. 1 .. (IF at > Len(old) THEN at ELSE Len(old)) = 1 .. Len(old) + 1 BY <1>2, <1>5
  <2>2. \A n \in 1 .. Len(old) + 1 : n = at \/ n <= Len(old) BY <1>2, <1>5
  <2> HIDE DEF at, line
  <2> QED BY <1>5, <2>1, <2>2
<1>8. /\ lines \in Seq(Line) /\ Len(lines) = Len(old) + 1 /\ lines[Len(old) + 1] = line
      /\ \A n \in 1 .. Len(old) : lines[n] = old[n]
  <2>1. old \in Seq(Line) BY <1>2, DirectoryFields
  <2>2. \A n \in 1 .. Len(old) : old[n] \in Line BY <2>1
  <2> DEFINE l == Len(old)
  <2>3. l \in Nat BY <1>2
  <2> HIDE DEF lines, line, old, l
  <2>4. lines = [n \in 1 .. l + 1 |-> IF n = l + 1 THEN line ELSE old[n]] BY <1>7 DEF l
  <2>5. \A n \in 1 .. l + 1 : n # l + 1 => n \in 1 .. l BY <2>3
  <2>6. \A n \in 1 .. l + 1 : lines[n] \in Line BY <1>6, <2>2, <2>4, <2>5 DEF l
  <2>7. lines \in Seq(Line) /\ Len(lines) = l + 1
    <3>1. l + 1 \in Nat BY <2>3
    <3>2. lines \in [1 .. l + 1 -> Line] BY <2>4, <2>6
    <3> QED BY <3>1, <3>2
  <2>8. l + 1 \in 1 .. l + 1 /\ \A n \in 1 .. l : n \in 1 .. l + 1 /\ n # l + 1 BY <2>3
  <2> QED BY <2>4, <2>7, <2>8 DEF l
<1> HIDE DEF at, line, lines
<1>9. m \in Producer /\ m.pc = "state" /\ m.table = me.table /\ m.next = me.next /\ m.limit = me.limit
      /\ m.append = me.append /\ m.pos = at /\ m.job = me.job
  <2>1. at \in Nat BY <1>2, <1>5
  <2> QED BY <1>2, <2>1 DEF Producer, Building
<1>10. /\ e \in Directory /\ e.place = d.place /\ e.limit = d.limit /\ e.state = d.state
       /\ e.lines = lines /\ e.shards = d.shards
  BY <1>2, <1>8 DEF Directory
<1> HIDE DEF m, e, d, me, old
<1>11. Lined(lines, me.table, Len(lines))
  <2>1. \A k \in 1 .. Len(lines) : k \in 1 .. Len(old) \/ k = Len(old) + 1 BY <1>2, <1>8
  <2> QED BY <1>4, <1>6, <1>8, <2>1 DEF Lined
<1>12. DirInv(bad, r, e)
  <2>1. /\ d.state.size = Len(d.state.table) /\ d.state.size <= Len(old) /\ Lined(old, d.state.table, d.state.size)
        /\ Stored(d, d.state.table) /\ d.state.size \in Nat
    BY <1>2, DirectoryFields DEF CanResume, old
  <2>2. \A k \in 1 .. d.state.size : k \in 1 .. Len(old) BY <1>2, <2>1
  <2>3. Lined(lines, d.state.table, d.state.size) BY <1>8, <2>1, <2>2 DEF Lined
  <2>4. d.state.size <= Len(lines) BY <1>2, <1>8, <2>1
  <2>5. CanResume(bad, r, e) BY <1>2, <1>10, <2>1, <2>3, <2>4 DEF CanResume, Stored
  <2> QED BY <1>2, <1>10, <2>5 DEF DirInv
<1>13. ProducerInv(bad, r, m, e)
  <2>1. Stored(e, me.table) BY <1>4, <1>10 DEF Stored
  <2>2. me.next <= Count(r, d.limit) BY <1>2 DEF Holds
  <2>3. Holds(bad, r, m, e) BY <1>1, <1>2, <1>4, <1>5, <1>8, <1>9, <1>10, <1>11, <2>1, <2>2 DEF Holds
  <2> QED BY <1>9, <2>3 DEF ProducerInv
<1> QED BY <1>1, <1>2, <1>3, <1>9, <1>10, <1>12, <1>13, RankStep DEF d

\* The state says what table and lines have become.
LEMMA StateKept ==
    ASSUME MapInv, NEW r \in MapRanks, SaveState(<<r, 1>>)
    PROVE  MapInv'
<1> DEFINE me == worker[<<r, 1>>]
           d == dir[r]
           s == [table |-> me.table, size |-> Len(d.lines), next |-> me.next + 1]
           m == [me EXCEPT !.pc = "generate", !.next = @ + 1]
           e == [d EXCEPT !.state = s]
<1>1. me.pc = "state" /\ me.pc \in Building /\ Stays BY DEF SaveState, At, Building
<1>2. /\ me \in Producer /\ d \in Directory /\ Holds(bad, r, me, d)
      /\ CanResume(bad, r, d) /\ d.place = "staging" /\ me.limit \in Limits /\ me.next \in Nat
      /\ Count(r, me.limit) \in Nat /\ Len(me.table) \in Nat /\ Len(d.lines) \in Nat
  BY <1>1, AtWork
<1>3. worker' = [worker EXCEPT ![<<r, 1>>] = m] /\ dir' = [dir EXCEPT ![r] = e]
  <2>1. <<r, 1>>[1] = r OBVIOUS
  <2>2. Staged(<<r, 1>>) BY <1>2, <2>1 DEF Staged
  <2>3. dir' = [dir EXCEPT ![r].state = s] /\ Becomes(<<r, 1>>, m) BY <2>1, <2>2 DEF SaveState
  <2> QED BY <2>3 DEF Becomes
<1>4. /\ me.next < Count(r, d.limit) /\ Tabled(bad, r, me.table, me.next + 1) /\ me.limit = d.limit
      /\ Len(me.table) = Len(d.lines) /\ Lined(d.lines, me.table, Len(d.lines)) /\ Stored(d, me.table)
      /\ (me.append \/ me.pos = Len(d.lines))
  BY <1>1, <1>2 DEF Holds
<1>5. m \in Producer /\ m.pc = "generate" /\ m.table = me.table /\ m.next = me.next + 1
      /\ m.limit = me.limit /\ m.append = me.append /\ m.pos = me.pos
  <2> HIDE DEF me, d
  <2>1. me \in Producer /\ me.next + 1 \in Nat BY <1>2
  <2> QED BY <2>1 DEF Producer, Building
<1>6. s \in BuildState BY <1>2, ProducerFields DEF BuildState
<1>7. /\ e \in Directory /\ e.place = d.place /\ e.limit = d.limit /\ e.state = s /\ e.lines = d.lines
      /\ e.shards = d.shards
  <2> HIDE DEF s
  <2> QED BY <1>2, <1>6 DEF Directory
<1> HIDE DEF m, e, d, me
<1>8. me.next + 1 <= Count(r, d.limit) BY <1>2, <1>4
<1>9. CanResume(bad, r, e) BY <1>2, <1>4, <1>7, <1>8 DEF CanResume, Stored
<1>10. DirInv(bad, r, e) BY <1>2, <1>7, <1>9 DEF DirInv
<1>11. ProducerInv(bad, r, m, e)
  <2>1. Stored(e, me.table) BY <1>4, <1>7 DEF Stored
  <2>2. Holds(bad, r, m, e) BY <1>2, <1>4, <1>5, <1>7, <1>8, <2>1 DEF Holds
  <2> QED BY <1>5, <2>2 DEF ProducerInv
<1> QED BY <1>1, <1>2, <1>3, <1>5, <1>7, <1>10, <1>11, RankStep DEF d

LEMMA ManifestWritten ==
    ASSUME MapInv, NEW r \in MapRanks, WriteRankManifest(<<r, 1>>)
    PROVE  MapInv'
<1> DEFINE me == worker[<<r, 1>>]
           d == dir[r]
           f == [limit |-> me.limit, table |-> me.table]
           m == [me EXCEPT !.pc = "publish"]
           e == [d EXCEPT !.manifest = f]
<1>1. /\ me.pc = "generate" /\ me.pc \in Building /\ Stays /\ me.next >= Count(r, me.limit)
      /\ <<r, 1>>[1] = r
  BY DEF WriteRankManifest, At, Building
<1>2. /\ me \in Producer /\ d \in Directory /\ Holds(bad, r, me, d)
      /\ CanResume(bad, r, d) /\ d.place = "staging" /\ me.limit \in Limits /\ me.next \in Nat
      /\ Count(r, me.limit) \in Nat /\ Len(me.table) \in Nat /\ Len(d.lines) \in Nat
  BY <1>1, AtWork
<1>3. CASE me.table = <<>> \/ ~Staged(<<r, 1>>)
  <2>1. Exits(<<r, 1>>, "one") BY <1>3 DEF WriteRankManifest
  <2> QED BY <1>1, <2>1, ExitKept DEF Exits, Becomes
<1>4. CASE ~(me.table = <<>> \/ ~Staged(<<r, 1>>))
  <2>1. worker' = [worker EXCEPT ![<<r, 1>>] = m] /\ dir' = [dir EXCEPT ![r] = e]
    <3>1. dir' = [dir EXCEPT ![r].manifest = f] /\ Becomes(<<r, 1>>, m)
      BY <1>1, <1>4 DEF WriteRankManifest
    <3> QED BY <3>1 DEF Becomes
  <2>2. /\ me.next = Count(r, d.limit) /\ Tabled(bad, r, me.table, me.next) /\ me.limit = d.limit
        /\ Len(me.table) = Len(d.lines) /\ Lined(d.lines, me.table, Len(d.lines)) /\ Stored(d, me.table)
        /\ (me.append \/ me.pos = Len(d.lines))
    BY <1>1, <1>2 DEF Holds
  <2>3. m \in Producer /\ m.pc = "publish" /\ m.table = me.table /\ m.next = me.next
        /\ m.limit = me.limit /\ m.append = me.append /\ m.pos = me.pos
    BY <1>2 DEF Producer, Building
  <2>4. f \in Manifest BY <1>2, ProducerFields DEF Manifest
  <2>5. /\ e \in Directory /\ e.place = d.place /\ e.limit = d.limit /\ e.state = d.state /\ e.lines = d.lines
        /\ e.shards = d.shards /\ e.manifest = f
    <3> HIDE DEF f
    <3> QED BY <1>2, <2>4 DEF Directory
  <2> HIDE DEF m, e, d, me
  <2>6. CanResume(bad, r, e) BY <1>2, <2>5 DEF CanResume, Stored
  <2>7. DirInv(bad, r, e) BY <1>2, <2>5, <2>6 DEF DirInv
  <2>8. ProducerInv(bad, r, m, e)
    <3>1. Stored(e, me.table) BY <2>2, <2>5 DEF Stored
    <3>2. Holds(bad, r, m, e) BY <1>2, <2>2, <2>3, <2>5, <3>1 DEF Holds
    <3> QED BY <2>3, <3>2 DEF ProducerInv
  <2> QED BY <1>1, <1>2, <2>1, <2>3, <2>5, <2>7, <2>8, RankStep DEF d
<1> QED BY <1>3, <1>4

\* A directory that gets its name is whole.
LEMMA PublishKept ==
    ASSUME MapInv, NEW r \in MapRanks, PublishDir(<<r, 1>>)
    PROVE  MapInv'
<1> DEFINE me == worker[<<r, 1>>]
           d == dir[r]
           e == [d EXCEPT !.place = "output", !.state = NoDir.state]
<1>1. me.pc = "publish" /\ me.pc \in Building /\ Stays /\ <<r, 1>>[1] = r
  BY DEF PublishDir, At, Building
<1>2. /\ me \in Producer /\ d \in Directory /\ Holds(bad, r, me, d) /\ d.place = "staging"
      /\ me.limit \in Limits
  BY <1>1, AtWork
<1>3. worker' = [worker EXCEPT ![<<r, 1>>] = Ended("zero")] /\ dir' = [dir EXCEPT ![r] = e]
  <2>1. Staged(<<r, 1>>) BY <1>1, <1>2 DEF Staged
  <2>2. /\ Becomes(<<r, 1>>, Ended("zero"))
        /\ dir' = [dir EXCEPT ![r].place = "output", ![r].state = NoDir.state]
    BY <1>1, <2>1 DEF PublishDir
  <2> QED BY <2>2 DEF Becomes
<1>4. /\ Tabled(bad, r, me.table, me.next) /\ me.next = Count(r, me.limit)
      /\ Len(me.table) = Len(d.lines) /\ Lined(d.lines, me.table, Len(d.lines)) /\ Stored(d, me.table)
      /\ d.manifest = [limit |-> me.limit, table |-> me.table]
  <2>1. d.lines \in Seq(Line) /\ me.table \in Seq(Content) BY <1>2, ProducerFields, DirectoryFields
  <2>2. Len(d.lines) \in Nat BY <2>1, LenProperties
  <2> HIDE DEF me, d
  <2> QED BY <1>1, <1>2, <2>2 DEF Holds
<1>5. /\ e \in Directory /\ e.place = "output" /\ e.lines = d.lines /\ e.shards = d.shards
      /\ e.manifest = d.manifest
  <2>1. NoDir.state \in BuildState BY EmptyContents, DirectoryFields
  <2> QED BY <1>2, <2>1 DEF Directory
<1>6. Ended("zero") \in Producer BY EmptyContents DEF Ended, Producer, Idle
<1> HIDE DEF e, d, me
<1>7. IsWhole(bad, r, e) BY <1>2, <1>4, <1>5 DEF IsWhole, Stored
<1>8. DirInv(bad, r, e) BY <1>5, <1>7 DEF DirInv
<1>9. ProducerInv(bad, r, Ended("zero"), e) BY DEF Ended, Idle, ProducerInv, Building
<1> QED BY <1>1, <1>2, <1>3, <1>5, <1>6, <1>8, <1>9, RankStep DEF d

LEMMA ProducerKept ==
    ASSUME MapInv, NEW w \in Slots, Produce(w) \/ Fail(w)
    PROVE  MapInv'
<1>1. worker[w].pc # "none"
  BY DEF Produce, Fail, OpenDir, Generate, SaveRow, HashRow, WriteLine, SaveState, WriteRankManifest,
         PublishDir, At, Busy
<1>2. PICK r \in MapRanks : w = <<r, 1>> BY <1>1, ActorIs
<1>3. CASE Fail(w)
  BY <1>2, <1>3, ExitKept DEF Fail, Exits, Becomes
<1>4. CASE Produce(w)
  BY <1>2, <1>4, OpenKept, GenerateKept, SaveKept, HashKept, LineKept, StateKept, ManifestWritten,
     PublishKept DEF Produce
<1> QED BY <1>3, <1>4

-----------------------------------------------------------------------------
(* The hosts *)

\* Other steps than a producer's leave the directories, and may only end or start producers.
LEMMA HostStep ==
    ASSUME MapInv, MapShape', MergeInv', UNCHANGED <<bad, dir>>,
           \A r \in MapRanks : /\ \/ worker'[<<r, 1>>] = worker[<<r, 1>>]
                                  \/ worker'[<<r, 1>>] = Ended("one")
                                  \/ \E job \in Nat, limit \in Limits :
                                        worker'[<<r, 1>>] =
                                            [Idle EXCEPT !.pc = "open", !.job = job, !.limit = limit]
                               /\ worker'[<<r, 2>>] = worker[<<r, 2>>]
    PROVE  MapInv'
<1>1. ASSUME NEW r \in MapRanks
      PROVE  ProducerInv(bad, r, worker'[<<r, 1>>], dir[r])
  <2>1. ProducerInv(bad, r, worker[<<r, 1>>], dir[r]) BY DEF MapInv
  <2>2. ProducerInv(bad, r, Ended("one"), dir[r]) BY DEF Ended, Idle, ProducerInv, Building
  <2>3. ASSUME NEW job \in Nat, NEW limit \in Limits
        PROVE  ProducerInv(bad, r, [Idle EXCEPT !.pc = "open", !.job = job, !.limit = limit], dir[r])
    BY DEF Idle, ProducerInv, Building
  <2>4. CASE worker'[<<r, 1>>] = worker[<<r, 1>>] BY <2>1, <2>4
  <2>5. CASE worker'[<<r, 1>>] = Ended("one") BY <2>2, <2>5
  <2>6. ASSUME NEW job \in Nat, NEW limit \in Limits,
               worker'[<<r, 1>>] = [Idle EXCEPT !.pc = "open", !.job = job, !.limit = limit]
        PROVE  ProducerInv(bad, r, worker'[<<r, 1>>], dir[r])
    BY <2>3, <2>6, ZenonT(30)
  <2> QED BY <2>4, <2>5, <2>6
<1>2. ASSUME NEW r \in MapRanks
      PROVE  DirInv(bad, r, dir[r]) /\ worker'[<<r, 2>>] = Idle
  BY DEF MapInv
<1>3. \A r \in MapRanks : /\ DirInv(bad', r, dir'[r]) /\ ProducerInv(bad', r, worker'[<<r, 1>>], dir'[r])
                          /\ worker'[<<r, 2>>] = Idle
  BY <1>1, <1>2
<1> QED BY <1>3 DEF MapInv

\* A host that does not come to a merge leaves what was gathered.
LEMMA HostsMove ==
    ASSUME MapInv, UNCHANGED <<dir, merging, merged>>,
           \A g \in Hosts : /\ host'[g] = "poll" => host[g] = "poll" \/ g = Merger
                            /\ host'[g] = "merge" => host[g] = "merge"
    PROVE  MergeInv'
<1>1. MergeInv BY DEF MapInv
<1>2. \A g \in Hosts : host'[g] \in {"poll", "merge"} => g = Merger BY <1>1 DEF MergeInv
<1>3. (\E g \in Hosts : host'[g] = "merge") => \E g \in Hosts : host[g] = "merge" OBVIOUS
<1>4. (\E g \in Hosts : host'[g] = "merge") =>
          AllPublished(dir') /\ merging'.done <= World /\ Gathered(dir', merging'.done, merging'.lines)
  BY <1>1, <1>3 DEF MergeInv
<1>5. merged' # None => AllPublished(dir') /\ Gathered(dir', World, merged') BY <1>1 DEF MergeInv
<1> QED BY <1>2, <1>4, <1>5 DEF MergeInv

LEMMA LaunchKept ==
    ASSUME MapInv, ~Overlap, NEW h \in Hosts, Launch(h)
    PROVE  MapInv'
<1>1. PICK limit \in Limits, resume \in BOOLEAN :
         LET started == {FreeSlot(r) : r \in {q \in Local(h) : ~ (resume /\ RankPublished(q))}} IN
         worker' = [w \in Slots |-> IF w \in started
                                    THEN [Idle EXCEPT !.pc = "open", !.job = launches', !.limit = limit]
                                    ELSE worker[w]]
  BY DEF Launch
<1> DEFINE started == {FreeSlot(r) : r \in {q \in Local(h) : ~ (resume /\ RankPublished(q))}}
           opened == [Idle EXCEPT !.pc = "open", !.job = launches', !.limit = limit]
<1>2. worker' = [w \in Slots |-> IF w \in started THEN opened ELSE worker[w]] BY <1>1
<1>3. /\ \A r \in Local(h), s \in {1, 2} : ~Busy(<<r, s>>)
      /\ launches' = launches + 1 /\ host' = [host EXCEPT ![h] = "wait"]
      /\ UNCHANGED <<bad, dir, merging, merged>>
  BY DEF Launch, Goto
<1>4. \A w \in started : \E r \in MapRanks : w = <<r, 1>>
  <2> SUFFICES ASSUME NEW r \in Local(h) PROVE r \in MapRanks /\ FreeSlot(r) = <<r, 1>> OBVIOUS
  <2>1. r \in MapRanks BY DEF Local
  <2>2. ~Busy(<<r, 1>>) BY <1>3
  <2> QED BY <2>1, <2>2 DEF FreeSlot
<1>5. MapShape BY DEF MapInv
<1>6. launches' \in Nat /\ limit \in Nat BY <1>3, <1>5, MapAssumption DEF MapShape
<1>7. opened \in Producer
  BY <1>6, EmptyContents DEF Producer, Idle
<1>8. worker' \in [Slots -> Producer]
  <2> HIDE DEF started, opened
  <2> QED BY <1>2, <1>5, <1>7 DEF MapShape
<1>9. MapShape' BY <1>3, <1>5, <1>6, <1>8 DEF MapShape
<1>10. MergeInv'
  <2>1. host \in [Hosts -> {"down", "wait", "poll", "merge", "done", "failed"}] BY DEF MapInv, MapShape
  <2>2. \A g \in Hosts : /\ host'[g] = "poll" => host[g] = "poll"
                         /\ host'[g] = "merge" => host[g] = "merge"
    BY <1>3, <2>1
  <2> QED BY <1>3, <2>2, HostsMove
<1>11. ASSUME NEW r \in MapRanks
       PROVE  /\ \/ worker'[<<r, 1>>] = worker[<<r, 1>>]
                 \/ worker'[<<r, 1>>] = opened
              /\ worker'[<<r, 2>>] = worker[<<r, 2>>]
  <2>1. <<r, 1>> \in Slots /\ <<r, 2>> \in Slots BY DEF Slots
  <2>2. <<r, 2>> \notin started BY <1>4
  <2> HIDE DEF started, opened
  <2> QED BY <1>2, <2>1, <2>2
<1> QED BY <1>3, <1>6, <1>9, <1>10, <1>11, HostStep

\* A step of a host alone.
LEMMA Alone ==
    ASSUME MapInv, MergeInv', UNCHANGED <<bad, launches, worker, dir>>,
           NEW h \in Hosts, NEW where \in {"down", "wait", "poll", "merge", "done", "failed"}, Goto(h, where),
           merging' \in [done : Nat, lines : Seq(MergedLine)], merged' \in Seq(MergedLine)
    PROVE  MapInv'
<1>1. MapShape BY DEF MapInv
<1>2. host' \in [Hosts -> {"down", "wait", "poll", "merge", "done", "failed"}]
  BY <1>1 DEF MapShape, Goto
<1>3. MapShape' BY <1>1, <1>2 DEF MapShape
<1> QED BY <1>3, HostStep

LEMMA ReapKept ==
    ASSUME MapInv, NEW h \in Hosts, Reap(h)
    PROVE  MapInv'
<1> DEFINE where == IF \E w \in children[h] : At(w, "one") THEN "failed"
                    ELSE IF h = Merger THEN "poll" ELSE "done"
<1>1. /\ Goto(h, where) /\ where \in {"failed", "poll", "done"} /\ (where = "poll" => h = Merger)
      /\ UNCHANGED <<bad, launches, worker, dir, merging, merged>>
  BY DEF Reap
<1> HIDE DEF where
<1>2. MapShape BY DEF MapInv
<1>3. \A g \in Hosts : /\ host'[g] = "poll" => host[g] = "poll" \/ g = Merger
                       /\ host'[g] = "merge" => host[g] = "merge"
  BY <1>1, <1>2 DEF Goto, MapShape
<1>4. MergeInv' BY <1>1, <1>3, HostsMove
<1> QED BY <1>1, <1>2, <1>4, Alone DEF MapShape

LEMMA PollKept ==
    ASSUME MapInv, NEW h \in Hosts, Poll(h)
    PROVE  MapInv'
<1> DEFINE where == IF merged = None THEN "merge" ELSE "done"
<1>1. /\ Goto(h, where) /\ where \in {"merge", "done"} /\ host[h] = "poll" /\ AllPublished(dir)
      /\ merging' = [done |-> 0, lines |-> <<>>]
      /\ UNCHANGED <<bad, launches, worker, dir, merged>>
  BY DEF Poll, AllPublished, RankPublished
<1> HIDE DEF where
<1>2. MapShape /\ MergeInv BY DEF MapInv
<1>3. Gathered(dir, 0, <<>>)
  <2> DEFINE start == [i \in 0 .. 0 |-> 0]
  <2>1. start \in [0 .. 0 -> 0 .. Len(<<>>)] OBVIOUS
  <2>2. Starts(dir, start, 0, <<>>) BY DEF Starts
  <2> QED BY <2>1, <2>2 DEF Gathered
<1>4. MergeInv'
  <2>1. \A g \in Hosts : host'[g] \in {"poll", "merge"} => g = Merger
    BY <1>1, <1>2 DEF Goto, MapShape, MergeInv
  <2>2. AllPublished(dir') /\ merging'.done <= World /\ Gathered(dir', merging'.done, merging'.lines)
    BY <1>1, <1>3, RankNumbers
  <2>3. merged' # None => AllPublished(dir') /\ Gathered(dir', World, merged') BY <1>1, <1>2 DEF MergeInv
  <2> QED BY <2>1, <2>2, <2>3 DEF MergeInv
<1>5. merging' \in [done : Nat, lines : Seq(MergedLine)] BY <1>1, EmptyContents
<1> QED BY <1>1, <1>2, <1>4, <1>5, Alone DEF MapShape

\* The lines of the next rank follow those of the ranks before.
LEMMA GatherNext ==
    ASSUME NEW dirs, NEW k \in MapRanks, \A r \in MapRanks : dirs[r].lines \in Seq(Line),
           NEW lines \in Seq(MergedLine), Gathered(dirs, k, lines)
    PROVE  LET more == [n \in 1 .. Len(dirs[k].lines) |-> MergedLineOf(dirs, k, n)] IN
           lines \o more \in Seq(MergedLine) /\ Gathered(dirs, k + 1, lines \o more)
<1> DEFINE c == Len(dirs[k].lines)
           more == [n \in 1 .. c |-> MergedLineOf(dirs, k, n)]
           l == Len(lines)
           all == lines \o more
<1>1. k \in Nat /\ c \in Nat /\ l \in Nat BY RankNumbers, LenProperties
<1>2. more \in Seq(MergedLine) /\ Len(more) = c
  <2>1. ASSUME NEW n \in 1 .. c
        PROVE  MergedLineOf(dirs, k, n) \in MergedLine
    <3>1. dirs[k].lines[n] \in Line OBVIOUS
    <3> QED BY <1>1, <3>1 DEF MergedLineOf, MergedLine, Line
  <2> HIDE DEF c
  <2>2. more \in [1 .. c -> MergedLine] BY <2>1
  <2> QED BY <1>1, <2>2
<1>3. /\ all \in Seq(MergedLine) /\ Len(all) = l + c
      /\ \A n \in 1 .. l : all[n] = lines[n]
      /\ \A n \in 1 .. c : all[l + n] = more[n]
  <2> HIDE DEF more, c
  <2>1. all \in Seq(MergedLine) /\ Len(all) = l + Len(more)
    BY <1>2, ConcatProperties
  <2>2. \A n \in 1 .. l + Len(more) : all[n] = IF n <= l THEN lines[n] ELSE more[n - l]
    BY <1>2, ConcatProperties
  <2> HIDE DEF all, l
  <2>3. \A n \in 1 .. l : n \in 1 .. l + c /\ n <= l BY <1>1
  <2>4. \A n \in 1 .. c : l + n \in 1 .. l + c /\ ~(l + n <= l) /\ (l + n) - l = n BY <1>1
  <2>5. \A n \in 1 .. l : all[n] = lines[n] BY <1>2, <2>2, <2>3
  <2>6. \A n \in 1 .. c : all[l + n] = more[n] BY <1>2, <2>2, <2>4
  <2> QED BY <1>2, <2>1, <2>5, <2>6
<1>4. PICK start \in [0 .. k -> 0 .. l] : Starts(dirs, start, k, lines) BY DEF Gathered
<1> DEFINE next == [i \in 0 .. k + 1 |-> IF i <= k THEN start[i] ELSE l + c]
<1>5. \A i \in 0 .. k : start[i] \in Nat /\ start[i] <= l BY <1>1, <1>4
<1>6. /\ \A i \in 0 .. k : next[i] = start[i]
      /\ next[k + 1] = l + c
      /\ next \in [0 .. k + 1 -> 0 .. l + c]
  <2> HIDE DEF c, l
  <2>1. \A i \in 0 .. k + 1 : i \in 0 .. k \/ (i = k + 1 /\ ~(i <= k)) BY <1>1
  <2>2. \A i \in 0 .. k : i \in 0 .. k + 1 /\ i <= k BY <1>1
  <2>3. k + 1 \in 0 .. k + 1 /\ ~(k + 1 <= k) BY <1>1
  <2>4. \A i \in 0 .. k : next[i] = start[i] BY <2>2
  <2>5. next[k + 1] = l + c BY <2>3
  <2>6. \A i \in 0 .. k + 1 : (IF i <= k THEN start[i] ELSE l + c) \in 0 .. l + c
    <3>1. \A i \in 0 .. k : start[i] \in 0 .. l + c BY <1>1, <1>5
    <3>2. l + c \in 0 .. l + c BY <1>1
    <3> QED BY <2>1, <2>2, <3>1, <3>2
  <2> QED BY <2>4, <2>5, <2>6
<1>7. Starts(dirs, next, k + 1, all)
  <2> HIDE DEF all, more, l, next, c
  <2>1. start[0] = 0 /\ start[k] = l /\ 0 \in 0 .. k /\ k \in 0 .. k BY <1>1, <1>4 DEF Starts, l
  <2>2. next[0] = 0 /\ next[k + 1] = Len(all) BY <1>3, <1>6, <2>1
  <2>3. ASSUME NEW q \in 0 .. k + 1, NEW r \in 0 .. k + 1, q <= r
        PROVE  next[q] <= next[r]
    <3>1. CASE r \in 0 .. k
      <4>1. q \in 0 .. k BY <1>1, <2>3, <3>1
      <4> QED BY <1>4, <1>6, <2>3, <3>1, <4>1 DEF Starts
    <3>2. CASE r = k + 1
      <4>1. q \in 0 .. k \/ q = k + 1 BY <1>1
      <4>2. next[q] <= l + c BY <1>1, <1>5, <1>6, <4>1
      <4> QED BY <1>6, <3>2, <4>2
    <3> QED BY <1>1, <3>1, <3>2
  <2>4. ASSUME NEW r \in 0 .. (k + 1) - 1
        PROVE  /\ next[r + 1] = next[r] + Len(dirs[r].lines)
               /\ \A n \in 1 .. Len(dirs[r].lines) : all[next[r] + n] = MergedLineOf(dirs, r, n)
    <3>1. CASE r = k
      <4>1. next[r] = l /\ next[r + 1] = l + c BY <1>6, <2>1, <3>1
      <4>2. \A n \in 1 .. c : more[n] = MergedLineOf(dirs, k, n) BY DEF more
      <4> QED BY <1>3, <3>1, <4>1, <4>2 DEF c
    <3>2. CASE r # k
      <4>1. r \in 0 .. k - 1 /\ r \in 0 .. k /\ r + 1 \in 0 .. k BY <1>1, <3>2
      <4>2. /\ start[r + 1] = start[r] + Len(dirs[r].lines)
            /\ \A n \in 1 .. Len(dirs[r].lines) : lines[start[r] + n] = MergedLineOf(dirs, r, n)
        BY <1>4, <4>1 DEF Starts
      <4>3. ASSUME NEW n \in 1 .. Len(dirs[r].lines)
            PROVE  all[start[r] + n] = lines[start[r] + n]
        <5>1. start[r] \in Nat /\ start[r + 1] \in Nat /\ start[r + 1] <= l BY <1>5, <4>1
        <5> DEFINE s == start[r]
                   m == Len(dirs[r].lines)
        <5>2. m \in Nat
          <6>1. r \in MapRanks BY <1>1, <4>1, RankNumbers DEF MapRanks
          <6> QED BY <6>1, LenProperties
        <5>3. s + m <= l /\ s \in Nat BY <4>2, <5>1
        <5>4. n \in Nat /\ n >= 1 /\ n <= m OBVIOUS
        <5> HIDE DEF s, m
        <5>5. s + n \in 1 .. l BY <1>1, <5>2, <5>3, <5>4
        <5> QED BY <1>3, <5>5 DEF s
      <4> QED BY <1>6, <4>1, <4>2, <4>3
    <3> QED BY <3>1, <3>2
  <2>5. ASSUME NEW n \in 1 .. Len(all)
        PROVE  \E r \in 0 .. (k + 1) - 1 : next[r] < n /\ n <= next[r + 1]
    <3>1. CASE n <= l
      <4>1. n \in 1 .. l BY <1>1, <1>3, <3>1
      <4>2. PICK r \in 0 .. k - 1 : start[r] < n /\ n <= start[r + 1] BY <1>4, <4>1 DEF Starts, l
      <4>3. r \in 0 .. (k + 1) - 1 /\ r \in 0 .. k /\ r + 1 \in 0 .. k BY <1>1
      <4> QED BY <1>6, <4>2, <4>3
    <3>2. CASE ~(n <= l)
      <4>1. k \in 0 .. (k + 1) - 1 BY <1>1
      <4>2. next[k] = l /\ l < n BY <1>1, <1>6, <2>1, <3>2
      <4>3. n <= next[k + 1] BY <1>3, <1>6
      <4> QED BY <4>1, <4>2, <4>3
    <3> QED BY <3>1, <3>2
  <2> QED BY <2>2, <2>3, <2>4, <2>5 DEF Starts
<1>8. next \in [0 .. k + 1 -> 0 .. Len(all)] BY <1>3, <1>6
<1>9. Gathered(dirs, k + 1, all)
  <2> HIDE DEF all, next
  <2> QED BY <1>7, <1>8 DEF Gathered
<1> QED BY <1>3, <1>9

LEMMA MergeRankKept ==
    ASSUME MapInv, NEW h \in Hosts, MergeRank(h)
    PROVE  MapInv'
<1> DEFINE k == merging.done
           d == dir[k]
           more == [n \in 1 .. Len(dir[k].lines) |-> MergedLineOf(dir, k, n)]
           whole == /\ \A j \in 1 .. Len(d.manifest.table) : d.shards[j] = d.manifest.table[j]
                    /\ \A n \in 1 .. Len(d.lines) : d.lines[n].shard \in 1 .. Len(d.manifest.table)
<1>1. MapShape /\ MergeInv BY DEF MapInv
<1>2. host[h] = "merge" /\ k < World /\ UNCHANGED <<bad, launches, worker, dir, merged>> BY DEF MergeRank
<1>3. /\ k \in Nat /\ merging.lines \in Seq(MergedLine) /\ AllPublished(dir)
      /\ Gathered(dir, k, merging.lines)
  BY <1>1, <1>2 DEF MapShape, MergeInv
<1>4. k \in MapRanks /\ \A r \in MapRanks : dir[r].lines \in Seq(Line)
  <2>1. k \in MapRanks
    <3> HIDE DEF k
    <3>1. World \in Nat BY RankNumbers
    <3>2. k \in 0 .. World - 1 BY <1>2, <1>3, <3>1
    <3> QED BY <3>2 DEF MapRanks
  <2>2. \A r \in MapRanks : dir[r] \in Directory BY <1>1 DEF MapShape
  <2> QED BY <2>1, <2>2, DirectoryFields
<1>5. CASE whole
  <2>1. merging' = [done |-> k + 1, lines |-> merging.lines \o more] /\ host' = host
    BY <1>5 DEF MergeRank, MergedLineOf
  <2>2. merging.lines \o more \in Seq(MergedLine) /\ Gathered(dir, k + 1, merging.lines \o more)
    BY <1>3, <1>4, GatherNext
  <2> HIDE DEF more, k
  <2>3. merging' \in [done : Nat, lines : Seq(MergedLine)] BY <1>3, <2>1, <2>2
  <2>4. k + 1 <= World BY <1>2, <1>3, RankNumbers
  <2>5. MergeInv'
    <3>1. \A g \in Hosts : host'[g] \in {"poll", "merge"} => g = Merger BY <1>1, <2>1 DEF MergeInv
    <3>2. AllPublished(dir') /\ merging'.done <= World /\ Gathered(dir', merging'.done, merging'.lines)
      BY <1>2, <1>3, <2>1, <2>2, <2>4
    <3>3. merged' # None => AllPublished(dir') /\ Gathered(dir', World, merged') BY <1>1, <1>2 DEF MergeInv
    <3> QED BY <3>1, <3>2, <3>3 DEF MergeInv
  <2>6. Goto(h, host[h]) BY <1>1, <2>1 DEF Goto, MapShape
  <2> QED BY <1>1, <1>2, <2>3, <2>5, <2>6, Alone DEF MapShape
<1>6. CASE ~whole
  <2>1. Goto(h, "failed") /\ merging' = merging BY <1>6 DEF MergeRank
  <2>2. \A g \in Hosts : /\ host'[g] = "poll" => host[g] = "poll"
                         /\ host'[g] = "merge" => host[g] = "merge"
    BY <1>1, <2>1 DEF Goto, MapShape
  <2>3. MergeInv' BY <1>2, <2>1, <2>2, HostsMove
  <2> QED BY <1>1, <1>2, <2>1, <2>3, Alone DEF MapShape
<1> QED BY <1>5, <1>6

LEMMA PublishMergedKept ==
    ASSUME MapInv, NEW h \in Hosts, PublishMerged(h)
    PROVE  MapInv'
<1>1. MapShape /\ MergeInv BY DEF MapInv
<1>2. /\ host[h] = "merge" /\ merging.done = World /\ merged' = merging.lines /\ Goto(h, "done")
      /\ UNCHANGED <<bad, launches, worker, dir, merging>>
  BY DEF PublishMerged
<1>3. AllPublished(dir) /\ Gathered(dir, World, merging.lines) BY <1>1, <1>2 DEF MergeInv
<1>4. \A g \in Hosts : host'[g] \in {"poll", "merge"} => host'[g] = host[g]
  BY <1>1, <1>2 DEF Goto, MapShape
<1>5. MergeInv' BY <1>1, <1>2, <1>3, <1>4 DEF MergeInv
<1> QED BY <1>1, <1>2, <1>5, Alone DEF MapShape

LEMMA InterruptKept ==
    ASSUME MapInv, NEW h \in Hosts, Interrupt(h)
    PROVE  MapInv'
<1>1. MapShape BY DEF MapInv
<1>2. /\ worker' = [w \in Slots |-> IF w \in children[h] /\ Busy(w) THEN Ended("one") ELSE worker[w]]
      /\ host' = [host EXCEPT ![h] = "failed"]
      /\ UNCHANGED <<bad, launches, dir, merging, merged>>
  BY DEF Interrupt, Goto
<1>3. Ended("one") \in Producer BY EmptyContents DEF Ended, Producer, Idle
<1>4. MapShape' BY <1>1, <1>2, <1>3 DEF MapShape
<1>5. \A g \in Hosts : /\ host'[g] = "poll" => host[g] = "poll"
                       /\ host'[g] = "merge" => host[g] = "merge"
  BY <1>1, <1>2 DEF MapShape
<1>6. MergeInv' BY <1>2, <1>5, HostsMove
<1>7. ASSUME NEW r \in MapRanks
      PROVE  /\ worker'[<<r, 1>>] = worker[<<r, 1>>] \/ worker'[<<r, 1>>] = Ended("one")
             /\ worker'[<<r, 2>>] = worker[<<r, 2>>]
  <2>1. <<r, 1>> \in Slots /\ <<r, 2>> \in Slots BY DEF Slots
  <2>2. ~Busy(<<r, 2>>)
    <3>1. worker[<<r, 2>>] = Idle BY DEF MapInv
    <3> QED BY <3>1 DEF Busy, Idle
  <2> QED BY <1>2, <2>1, <2>2
<1> QED BY <1>2, <1>4, <1>6, <1>7, HostStep

LEMMA KillKept ==
    ASSUME MapInv, NEW h \in Hosts, KillMain(h)
    PROVE  MapInv'
<1>1. MapShape BY DEF MapInv
<1>2. Goto(h, "down") /\ UNCHANGED <<bad, launches, worker, dir, merging, merged>> BY DEF KillMain
<1>3. \A g \in Hosts : /\ host'[g] = "poll" => host[g] = "poll"
                       /\ host'[g] = "merge" => host[g] = "merge"
  BY <1>1, <1>2 DEF Goto, MapShape
<1>4. MergeInv' BY <1>2, <1>3, HostsMove
<1> QED BY <1>1, <1>2, <1>4, Alone DEF MapShape

LEMMA MapKept ==
    ASSUME MapInv, ~Overlap, [MapNext]_mapVars
    PROVE  MapInv'
<1>1. CASE UNCHANGED mapVars
  <2>1. UNCHANGED <<bad, launches, host, worker, dir, merging, merged>> BY <1>1 DEF mapVars
  <2>2. MapShape' BY <2>1 DEF MapInv, MapShape
  <2>3. MergeInv' BY <2>1, SameGathering DEF MapInv
  <2> QED BY <2>1, <2>2, <2>3, HostStep
<1>2. ASSUME NEW h \in Hosts, Launch(h) \/ Main(h) \/ Interrupt(h) \/ KillMain(h)
      PROVE  MapInv'
  BY <1>2, LaunchKept, ReapKept, PollKept, MergeRankKept, PublishMergedKept, InterruptKept, KillKept
     DEF Main
<1> QED BY <1>1, <1>2, ProducerKept DEF MapNext

-----------------------------------------------------------------------------
(* The merged artifact *)

\* The lines of rank r are those that follow the ranks before.
LEMMA LinesOfRank ==
    ASSUME MapInv, NEW lines \in Seq(MergedLine), NEW start \in [0 .. World -> 0 .. Len(lines)],
           Starts(dir, start, World, lines)
    PROVE  /\ \A n \in 1 .. Len(lines), r \in 0 .. World :
                  lines[n].shard[1] < r <=> n <= start[r]
           /\ \A r \in 0 .. World :
                  Cardinality({n \in 1 .. Len(lines) : lines[n].shard[1] < r}) = start[r]
<1> DEFINE l == Len(lines)
<1>1. l \in Nat /\ World \in Nat /\ \A r \in 0 .. World : start[r] \in Nat /\ start[r] <= l
  BY LenProperties, RankNumbers
<1>2. ASSUME NEW n \in 1 .. l, NEW r \in 0 .. World
      PROVE  lines[n].shard[1] < r <=> n <= start[r]
  <2>1. PICK q \in 0 .. World - 1 : start[q] < n /\ n <= start[q + 1] BY DEF Starts
  <2>2. q \in Nat /\ q \in 0 .. World /\ q + 1 \in 0 .. World BY <1>1
  <2> DEFINE s == start[q]
             c == Len(dir[q].lines)
             m == n - s
  <2>3. start[q + 1] = s + c /\ \A j \in 1 .. c : lines[s + j] = MergedLineOf(dir, q, j) BY DEF Starts
  <2>4. s \in Nat /\ c \in Nat
    <3>1. dir[q] \in Directory BY <1>1 DEF MapInv, MapShape, MapRanks
    <3> QED BY <1>1, <2>2, <3>1, DirectoryFields, LenProperties
  <2> HIDE DEF c, l, s
  <2>5. m \in 1 .. c /\ s + m = n BY <1>1, <2>1, <2>3, <2>4 DEF s
  <2>6. lines[n] = MergedLineOf(dir, q, m) BY <2>3, <2>5
  <2>7. lines[n].shard[1] = q BY <2>6 DEF MergedLineOf
  <2>8. q < r => n <= start[r]
    <3>1. ASSUME q < r PROVE start[q + 1] <= start[r]
      <4>1. q + 1 <= r BY <2>2, <3>1
      <4> QED BY <2>2, <4>1 DEF Starts
    <3>2. start[q + 1] \in Nat /\ start[r] \in Nat BY <1>1, <2>2
    <3> QED BY <1>1, <2>1, <3>1, <3>2
  <2>9. ~(q < r) => ~(n <= start[r])
    <3>1. ASSUME ~(q < r) PROVE start[r] <= start[q]
      <4>1. r <= q BY <2>2, <3>1
      <4> QED BY <2>2, <4>1 DEF Starts
    <3>2. start[q] \in Nat /\ start[r] \in Nat BY <1>1, <2>2
    <3> QED BY <1>1, <2>1, <3>1, <3>2
  <2> QED BY <2>7, <2>8, <2>9
<1>3. ASSUME NEW r \in 0 .. World
      PROVE  Cardinality({n \in 1 .. l : lines[n].shard[1] < r}) = start[r]
  <2>1. start[r] \in Nat /\ start[r] <= l BY <1>1
  <2> DEFINE s == start[r]
  <2>2. {n \in 1 .. l : lines[n].shard[1] < r} = {n \in 1 .. l : n <= s} BY <1>2
  <2>3. s \in Nat /\ s <= l BY <2>1
  <2> HIDE DEF l, s
  <2>4. {n \in 1 .. l : n <= s} = 1 .. s BY <1>1, <2>3
  <2>5. Cardinality(1 .. s) = IF 1 > s THEN 0 ELSE s - 1 + 1 BY <2>3, FS_Interval
  <2>6. Cardinality(1 .. s) = s BY <2>3, <2>5
  <2> QED BY <2>2, <2>4, <2>6 DEF s
<1> QED BY <1>2, <1>3

LEMMA RankIsWhole ==
    ASSUME MapInv, AllPublished(dir), NEW lines \in Seq(MergedLine),
           NEW start \in [0 .. World -> 0 .. Len(lines)], Starts(dir, start, World, lines),
           NEW r \in MapRanks
    PROVE  LET its == Of(r, lines) IN
           /\ [n \in 1 .. Len(its) |-> its[n].row] = Expected(r)
           /\ \A n \in 1 .. Len(its) :
                 dir[r].shards[its[n].shard[2]] = [row |-> its[n].row, job |-> its[n].job]
<1> DEFINE its == Of(r, lines)
           d == dir[r]
           t == d.manifest.table
           c == Len(d.lines)
           s == start[r]
<1>1. d \in Directory /\ IsWhole(bad, r, d) BY DEF MapInv, MapShape, AllPublished, DirInv
<1>2. d.lines \in Seq(Line) /\ t \in Seq(Content) /\ c \in Nat /\ Len(lines) \in Nat
  BY <1>1, DirectoryFields, LenProperties
<1>3. /\ r \in 0 .. World - 1 /\ r \in 0 .. World /\ r + 1 \in 0 .. World /\ r \in Nat
  BY RankNumbers DEF MapRanks
<1>4. /\ s \in Nat /\ start[r + 1] \in Nat /\ start[r + 1] <= Len(lines)
      /\ start[r + 1] = s + c
      /\ \A n \in 1 .. c : lines[s + n] = MergedLineOf(dir, r, n)
  BY <1>2, <1>3 DEF Starts
<1>5. its = SubSeq(lines, s + 1, s + c)
  <2>1. its = SubSeq(lines, start[r] + 1, start[r + 1]) BY <1>3, LinesOfRank DEF Of
  <2> QED BY <1>4, <2>1
<1> HIDE DEF its, d, c, s
<1>6. Len(its) = c /\ \A n \in 1 .. c : its[n] = lines[s + n]
  <2>1. \A n \in s + 1 .. s + c : lines[n] \in MergedLine BY <1>2, <1>4
  <2>2. /\ Len(its) = (IF s + 1 <= s + c THEN (s + c) - (s + 1) + 1 ELSE 0)
        /\ \A n \in 1 .. (s + c) - (s + 1) + 1 : its[n] = lines[(s + 1) + n - 1]
    BY <1>2, <1>4, <1>5, <2>1, SubSeqProperties
  <2>3. (s + c) - (s + 1) + 1 = c /\ \A n \in 1 .. c : (s + 1) + n - 1 = s + n BY <1>2, <1>4
  <2>4. Len(its) = c BY <1>2, <1>4, <2>2
  <2> QED BY <2>2, <2>3, <2>4
<1>7. \A n \in 1 .. c : its[n] = MergedLineOf(dir, r, n) BY <1>4, <1>6
<1>8. c = Len(t) /\ c \in Nat /\ \A n \in 1 .. c : d.lines[n] = LineOf(t, n) /\ d.shards[n] = t[n]
  BY <1>1, <1>2 DEF IsWhole, Lined, Stored, c
<1> HIDE DEF t
<1>9. ASSUME NEW n \in 1 .. c
      PROVE  its[n].row = t[n].row /\ its[n].job = t[n].job /\ its[n].shard[2] = n
  <2>1. its[n] = [row |-> d.lines[n].row, job |-> d.lines[n].job, shard |-> <<r, d.lines[n].shard>>]
    BY <1>7 DEF MergedLineOf, d
  <2>2. d.lines[n] = [row |-> t[n].row, job |-> t[n].job, shard |-> n] BY <1>8 DEF LineOf
  <2>3. d.lines[n].row = t[n].row /\ d.lines[n].job = t[n].job /\ d.lines[n].shard = n BY <2>2
  <2> QED BY <2>1, <2>3
<1>10. [n \in 1 .. Len(t) |-> t[n].row] = Expected(r)
  BY <1>1, <1>2, TabledIsExpected DEF IsWhole, d, t
<1>11. [n \in 1 .. Len(its) |-> its[n].row] = Expected(r)
  <2>1. Len(its) = Len(t) /\ \A n \in 1 .. Len(t) : its[n].row = t[n].row BY <1>6, <1>8, <1>9
  <2>2. [n \in 1 .. Len(its) |-> its[n].row] = [n \in 1 .. Len(t) |-> t[n].row] BY <2>1
  <2> QED BY <1>10, <2>2
<1>12. ASSUME NEW n \in 1 .. c
       PROVE  d.shards[its[n].shard[2]] = [row |-> its[n].row, job |-> its[n].job]
  <2>1. t[n] \in Content BY <1>2, <1>8
  <2>2. t[n] = [row |-> t[n].row, job |-> t[n].job] BY <2>1 DEF Content
  <2>3. d.shards[n] = t[n] BY <1>8
  <2> QED BY <1>9, <2>2, <2>3
<1> QED BY <1>6, <1>11, <1>12 DEF its, d

LEMMA MergeIsWhole ==
    ASSUME MapInv
    PROVE  MergedIsWhole
<1> SUFFICES ASSUME merged # None PROVE MergedIsWhole BY DEF MergedIsWhole
<1>1. merged \in Seq(MergedLine) /\ AllPublished(dir) /\ Gathered(dir, World, merged)
  BY DEF MapInv, MapShape, MergeInv
<1>2. PICK start \in [0 .. World -> 0 .. Len(merged)] : Starts(dir, start, World, merged)
  BY <1>1 DEF Gathered
<1>3. ASSUME NEW n \in 1 .. Len(merged), NEW m \in 1 .. Len(merged), n < m
      PROVE  merged[n].shard[1] <= merged[m].shard[1]
  <2> DEFINE q == merged[m].shard[1]
  <2>1. PICK p \in 0 .. World - 1 : start[p] < m /\ m <= start[p + 1] BY <1>2 DEF Starts
  <2>2. World \in Nat /\ p \in Nat /\ p \in 0 .. World /\ p + 1 \in 0 .. World BY RankNumbers
  <2>3. \A j \in 1 .. Len(merged), r \in 0 .. World : merged[j].shard[1] < r <=> j <= start[r]
    BY <1>1, <1>2, LinesOfRank
  <2>4. \A j \in 1 .. Len(merged) : merged[j].shard[1] \in Nat
    <3>1. \A j \in 1 .. Len(merged) : merged[j] \in MergedLine BY <1>1
    <3> QED BY <3>1 DEF MergedLine
  <2>5. start[p] \in Nat /\ start[p + 1] \in Nat /\ Len(merged) \in Nat
    BY <1>1, <2>2, LenProperties
  <2>6. q < p + 1 /\ ~(q < p) /\ q \in Nat
    <3>1. q \in Nat BY <2>4
    <3>2. q < p + 1 <=> m <= start[p + 1] BY <2>2, <2>3
    <3>3. q < p <=> m <= start[p] BY <2>2, <2>3
    <3>4. ~(m <= start[p]) BY <2>1, <2>5
    <3> QED BY <2>1, <3>1, <3>2, <3>3, <3>4
  <2>7. q = p BY <2>2, <2>6
  <2>8. n <= start[p + 1] BY <1>3, <2>1, <2>5
  <2>9. merged[n].shard[1] < p + 1 BY <2>2, <2>3, <2>8
  <2> QED BY <2>2, <2>4, <2>7, <2>9
<1> QED BY <1>1, <1>2, <1>3, RankIsWhole DEF MergedIsWhole

\* The merged artifact holds every row of every rank once, in the order of ranks and rows, and each
\* line resolves to the distribution it was written with: for any hosts, ranks, rows, limits and
\* launches, with main killed, interrupted or started anew anywhere, if no host is launched while
\* workers of its earlier launch are alive.
THEOREM MergedArtifactIsWhole ==
    ASSUME ~Overlap
    PROVE  MapSpec => []MergedIsWhole
<1>1. MapInit => MapInv BY StartShape
<1>2. MapInv /\ [MapNext]_mapVars => MapInv' BY MapKept
<1>3. MapInv => MergedIsWhole BY MergeIsWhole
<1> QED BY <1>1, <1>2, <1>3, PTL DEF MapSpec
=============================================================================
