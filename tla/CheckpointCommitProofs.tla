----------------------- MODULE CheckpointCommitProofs -----------------------
(***************************************************************************)
(* The safety of the committed_manifest checkpoint protocol, for every     *)
(* world size, every save_total_limit and every bound on steps and         *)
(* attempts.                                                               *)
(***************************************************************************)
EXTENDS CheckpointCommit, FiniteSetTheorems, TLAPS

\* The place of a gather in the sequence of phases.
Index(p) == CASE p = "barrier"   -> 1
              [] p = "begin"     -> 2
              [] p = "prepare"   -> 3
              [] p = "save"      -> 4
              [] p = "schedule"  -> 5
              [] p = "callback"  -> 6
              [] p = "preflight" -> 7
              [] p = "commit"    -> 8
              [] p = "rotate"    -> 9
              [] OTHER           -> 10

\* A rank has every peer's "ok" of the gathers it has left and has contributed
\* nothing to those ahead of it; the attempt it is in has a step and a number.
GathersOrdered ==
    \A r \in Ranks : pc[r] \in Gathers =>
        /\ global_step \in Steps
        /\ attempt \in 1 .. MaxAttempt
        /\ \A g \in Gathers : Index(g) < Index(pc[r]) =>
              \A q \in Ranks : vote[g][q] = "ok"
        /\ \A g \in Gathers : Index(g) > Index(pc[r]) => vote[g][r] = "none"

\* A rank contributes to a gather only after everybody's "ok" of those before it.
VotesOrdered ==
    \A g, h \in Gathers, q, r \in Ranks :
        vote[g][q] # "none" /\ Index(h) < Index(g) => vote[h][r] = "ok"

\* Between jobs no status is left over.
DownIsQuiet == (\A r \in Ranks : pc[r] = "down") => vote = NoVotes

\* A rank that reported its save has written its files, until rotation starts
\* to remove directories.
SavedIsWritten ==
    pc[0] \in Gathers /\ vote["rotate"][0] = "none" =>
        \A r \in Ranks : vote["save"][r] = "ok" =>
            \A a \in Owned(r) : disk[global_step].files[a] = attempt

\* Every manifest records whole files of one attempt.
WholeOrNone(m) == m = NoManifest \/ OneAttempt(m)
ManifestsWhole == \A s \in Steps : /\ WholeOrNone(disk[s].manifest)
                                   /\ WholeOrNone(stable[s].manifest)
                                   /\ \A d \in entry[s].former : WholeOrNone(d.manifest)

\* A multi-step file operation is under way only while rank 0 works on it.
IoOwned ==
    pc[0] # "dead" /\ io # "idle" => Working(0, "begin") \/ Working(0, "commit")

\* The progress of a commit: what is fsynced, and what is published.
CommitProgress ==
    Working(0, "commit") =>
        /\ io \in {"fsynced", "published"} =>
              Committable(disk[global_step]) /\ stable[global_step].files = disk[global_step].files
        /\ io = "published" => disk[global_step].manifest = disk[global_step].files

\* The attempt's directory is the most recently changed one by the time it is
\* committed.
CommitIsNewest ==
    /\ \A s \in Steps : mtime[s] <= attempt
    /\ pc[0] \in Gathers /\ (vote["commit"][0] = "ok" \/ (pc[0] = "commit" /\ io = "published"))
          => mtime[global_step] = attempt

\* Until its own commit returned, an attempt works on a later step than the one
\* reported.
BeyondReported ==
    /\ reported <= global_step
    /\ \A r \in Ranks : pc[r] \in Gathers =>
          /\ vote["commit"][0] = "ok" => reported = global_step
          /\ vote["commit"][0] # "ok" => reported < global_step

\* The inductive invariant behind ReportedSurvives.
DurableInv == /\ CommitTypeOK /\ GathersOrdered /\ VotesOrdered /\ IoOwned
              /\ CommitProgress /\ CommitIsNewest /\ BeyondReported /\ ReportedSurvives

\* The inductive invariant behind ValidIsOneAttempt.
WholeInv == CommitTypeOK /\ GathersOrdered /\ DownIsQuiet /\ SavedIsWritten /\ ManifestsWhole

-----------------------------------------------------------------------------
USE WorldAssumption, CommitBoundAssumption, LimitAssumption

\* Rank 0 exists, and the artifacts of each rank are artifacts.
LEMMA RankZero == 0 \in Ranks
  BY SMT DEF Ranks

LEMMA OwnedAreArtifacts ==
  ASSUME NEW r \in Ranks
  PROVE  Owned(r) \subseteq Artifacts
  BY RankZero DEF Owned, Artifacts, Model, TrainerState, Rng

\* A directory is typed whatever typed contents it is given.
LEMMA DirectoryType ==
  ASSUME NEW f \in [Artifacts -> Versions], NEW m \in [Artifacts -> Versions]
  PROVE  [files |-> f, manifest |-> m] \in Directory
  BY DEF Directory

LEMMA EmptyType == Empty \in [Artifacts -> Versions] /\ NoManifest \in [Artifacts -> Versions]
  BY SMT DEF Empty, NoManifest, Versions, Absent

LEMMA NothingType == Nothing \in Directory /\ Nothing.manifest = NoManifest
  BY EmptyType, DirectoryType DEF Nothing

\* A truncated write leaves typed directories.
LEMMA CutShortType ==
  ASSUME CommitTypeOK, NEW r \in Ranks, CutShort(r)
  PROVE  disk' \in [Steps -> Directory]
<1>1. PICK torn \in SUBSET InFlight(r) :
        disk' = [disk EXCEPT ![global_step].files =
                    [a \in Artifacts |-> IF a \in torn THEN Torn ELSE @[a]]]
  BY DEF CutShort
<1>2. Torn \in Versions
  BY SMT DEF Torn, Versions
<1>3. ASSUME global_step \in Steps
      PROVE  disk' \in [Steps -> Directory]
  BY <1>1, <1>2, <1>3, ZenonT(30) DEF CommitTypeOK, Directory
<1>4. ASSUME global_step \notin Steps
      PROVE  disk' \in [Steps -> Directory]
  BY <1>1, <1>4 DEF CommitTypeOK, Directory
<1>5. QED
  BY <1>3, <1>4

\* So do a removal that was cut short, and a rotation.
LEMMA PartlyRemovedType ==
  ASSUME CommitTypeOK, PartlyRemoved
  PROVE  disk' \in [Steps -> Directory]
<1>1. PICK s \in Victims, gone \in SUBSET Artifacts, keep \in BOOLEAN :
        disk' = [disk EXCEPT ![s] =
                    [files    |-> [a \in Artifacts |-> IF a \in gone THEN Absent
                                                       ELSE @.files[a]],
                     manifest |-> IF keep THEN @.manifest ELSE NoManifest]]
  BY DEF PartlyRemoved
<1>2. s \in Steps /\ disk[s] \in Directory
  BY DEF Victims, CommitTypeOK
<1>3. Absent \in Versions
  BY SMT DEF Absent, Versions
<1>4. [a \in Artifacts |-> IF a \in gone THEN Absent ELSE disk[s].files[a]]
        \in [Artifacts -> Versions]
  BY <1>2, <1>3 DEF Directory
<1>5. (IF keep THEN disk[s].manifest ELSE NoManifest) \in [Artifacts -> Versions]
  BY <1>2, EmptyType DEF Directory
<1>6. QED
  BY <1>1, <1>2, <1>4, <1>5, DirectoryType DEF CommitTypeOK

\* What a power loss leaves is of what was seen or of what was stable, and where these are
\* the same, it is that.
LEMMA RebootKeeps ==
  ASSUME NEW seen \in [Steps -> Directory], NEW sure \in [Steps -> Directory],
         Reboot(seen, sure)
  PROVE  /\ disk' \in [Steps -> Directory]
         /\ \A s \in Steps : /\ disk'[s].manifest \in {seen[s].manifest, sure[s].manifest}
                             /\ seen[s] = sure[s] => disk'[s] = seen[s]
<1> DEFINE Changed == {i \in Steps \X Artifacts :
                         seen[i[1]].files[i[2]] # sure[i[1]].files[i[2]]}
           Left(s, lost, torn) == [a \in Artifacts |-> IF <<s, a>> \in torn THEN Torn
                                     ELSE IF <<s, a>> \in lost THEN sure[s].files[a]
                                     ELSE seen[s].files[a]]
<1>1. PICK lost \in SUBSET Changed :
        \E torn \in SUBSET {i \in lost : seen[i[1]].files[i[2]] # Absent},
           undone \in SUBSET {s \in Steps : seen[s].manifest # sure[s].manifest} :
          disk' = [s \in Steps |->
              [files    |-> Left(s, lost, torn),
               manifest |-> IF s \in undone THEN sure[s].manifest ELSE seen[s].manifest]]
  BY ZenonT(30) DEF Reboot
<1>2. PICK torn \in SUBSET {i \in lost : seen[i[1]].files[i[2]] # Absent},
           undone \in SUBSET {s \in Steps : seen[s].manifest # sure[s].manifest} :
        disk' = [s \in Steps |->
              [files    |-> Left(s, lost, torn),
               manifest |-> IF s \in undone THEN sure[s].manifest ELSE seen[s].manifest]]
  BY <1>1
<1>3. Torn \in Versions
  BY SMT DEF Torn, Versions
<1>4. ASSUME NEW s \in Steps
      PROVE  /\ Left(s, lost, torn) \in [Artifacts -> Versions]
             /\ (IF s \in undone THEN sure[s].manifest ELSE seen[s].manifest)
                    \in [Artifacts -> Versions]
  BY <1>3, <1>4 DEF Directory
<1>5. ASSUME NEW s \in Steps
      PROVE  disk'[s] = [files    |-> Left(s, lost, torn),
                         manifest |-> IF s \in undone THEN sure[s].manifest ELSE seen[s].manifest]
  BY <1>2, <1>5
<1>6. disk' \in [Steps -> Directory]
  <2> HIDE DEF Left
  <2> QED
    BY <1>2, <1>4, DirectoryType
<1>7. ASSUME NEW s \in Steps, seen[s] = sure[s]
      PROVE  disk'[s] = seen[s]
  <2>1. s \notin undone /\ \A a \in Artifacts : <<s, a>> \notin torn /\ <<s, a>> \notin lost
    BY <1>1, <1>2, <1>7
  <2>2. seen[s] \in Directory
    OBVIOUS
  <2>3. Left(s, lost, torn) = [a \in Artifacts |-> seen[s].files[a]]
    BY <2>1
  <2>4. [a \in Artifacts |-> seen[s].files[a]] = seen[s].files
    BY <2>2 DEF Directory
  <2>5. disk'[s] = [files |-> seen[s].files, manifest |-> seen[s].manifest]
    <3>1. disk'[s] = [files    |-> Left(s, lost, torn),
                      manifest |-> IF s \in undone THEN sure[s].manifest ELSE seen[s].manifest]
      BY <1>5
    <3> HIDE DEF Left
    <3> QED
      BY <2>1, <2>3, <2>4, <3>1
  <2> QED
    BY <2>2, <2>5 DEF Directory
<1>8. ASSUME NEW s \in Steps
      PROVE  disk'[s].manifest \in {seen[s].manifest, sure[s].manifest}
  <2>1. disk'[s] = [files    |-> Left(s, lost, torn),
                    manifest |-> IF s \in undone THEN sure[s].manifest ELSE seen[s].manifest]
    BY <1>5
  <2> HIDE DEF Left
  <2>2. disk'[s].manifest = IF s \in undone THEN sure[s].manifest ELSE seen[s].manifest
    BY <2>1
  <2> QED
    BY <2>2
<1>9. QED
  BY <1>6, <1>7, <1>8

\* A power loss takes the names of some directories, none of which was certain, and leaves
\* what it leaves of the others.
LEMMA PowerLossViews ==
  ASSUME CommitTypeOK, PowerLoss
  PROVE  \E fallen \in SUBSET Steps : \E seen, sure \in [Steps -> Directory] :
           /\ Reboot(seen, sure)
           /\ \A s \in Steps :
                IF s \in fallen
                THEN seen[s] = Nothing /\ sure[s] \in entry[s].former \cup {Nothing}
                ELSE seen[s] = disk[s] /\ sure[s] = stable[s]
           /\ reported' = IF reported \in fallen THEN 0 ELSE reported
<1>1. PICK fallen \in SUBSET Unnamed : \E under \in [fallen -> Former] :
        /\ \A s \in fallen : under[s] \in entry[s].former \cup {Nothing}
        /\ Reboot([s \in Steps |-> IF s \in fallen THEN Nothing ELSE disk[s]],
                  [s \in Steps |-> IF s \in fallen THEN under[s] ELSE stable[s]])
        /\ reported' = IF reported \in fallen THEN 0 ELSE reported
  BY ZenonT(30) DEF PowerLoss
<1>2. PICK under \in [fallen -> Former] :
        /\ \A s \in fallen : under[s] \in entry[s].former \cup {Nothing}
        /\ Reboot([s \in Steps |-> IF s \in fallen THEN Nothing ELSE disk[s]],
                  [s \in Steps |-> IF s \in fallen THEN under[s] ELSE stable[s]])
        /\ reported' = IF reported \in fallen THEN 0 ELSE reported
  BY <1>1
<1> DEFINE Seen == [s \in Steps |-> IF s \in fallen THEN Nothing ELSE disk[s]]
           Sure == [s \in Steps |-> IF s \in fallen THEN under[s] ELSE stable[s]]
<1>3. fallen \in SUBSET Steps
  BY DEF Unnamed
<1>4. \A s \in fallen : under[s] \in Directory
  BY <1>2, <1>3, NothingType DEF CommitTypeOK, Entry
<1>5. Seen \in [Steps -> Directory] /\ Sure \in [Steps -> Directory]
  BY <1>4, NothingType DEF CommitTypeOK
<1>6. \A s \in Steps :
        IF s \in fallen THEN Seen[s] = Nothing /\ Sure[s] \in entry[s].former \cup {Nothing}
        ELSE Seen[s] = disk[s] /\ Sure[s] = stable[s]
  BY <1>2
<1>7. Reboot(Seen, Sure)
  BY <1>2
<1> HIDE DEF Seen, Sure
<1>8. QED
  BY <1>2, <1>3, <1>5, <1>6, <1>7

LEMMA PowerLossType ==
  ASSUME CommitTypeOK, PowerLoss
  PROVE  /\ disk' \in [Steps -> Directory] /\ stable' \in [Steps -> Directory]
         /\ entry' \in [Steps -> Entry] /\ reported' \in 0 .. MaxStep
<1>1. disk' \in [Steps -> Directory]
  BY PowerLossViews, RebootKeeps
<1>2. stable' = disk' /\ entry' \in [Steps -> Entry]
  BY DEF PowerLoss, Entry
<1>3. reported' \in {0, reported}
  BY PowerLossViews
<1>4. QED
  BY <1>1, <1>2, <1>3, SMT DEF CommitTypeOK

LEMMA PlainPhaseType ==
  ASSUME CommitTypeOK, NEW r \in Ranks, NEW p \in Gathers, PlainPhase(r, p, {"ok", "error"})
  PROVE  CommitTypeOK'
<1>1. vote' \in [Gathers -> [Ranks -> {"none", "ok", "error"}]]
  BY DEF PlainPhase, Contribute, CommitTypeOK
<1>2. QED
  BY <1>1 DEF PlainPhase, CommitTypeOK

\* EnterBarrier, FinishSave and the waiting ranks only ever report "ok".
LEMMA PlainOk ==
  ASSUME NEW r \in Ranks, NEW p \in Gathers, PlainPhase(r, p, {"ok"})
  PROVE  PlainPhase(r, p, {"ok", "error"})
  BY DEF PlainPhase

-----------------------------------------------------------------------------
\* Every step keeps the state well typed.
LEMMA TypeStep == CommitTypeOK /\ [CommitNext]_commitVars => CommitTypeOK'
<1> SUFFICES ASSUME CommitTypeOK, [CommitNext]_commitVars PROVE CommitTypeOK'
  OBVIOUS
<1> USE RankZero
<1>1. ASSUME NEW r \in Ranks, RankStep(r) PROVE CommitTypeOK'
  <2>1. CASE \/ EnterBarrier(r) \/ AwaitBegin(r) \/ PrepareSave(r) \/ FinishSave(r)
             \/ ShareSchedule(r) \/ RunCallback(r) \/ Preflight(r)
             \/ AwaitCommit(r) \/ AwaitRotate(r)
    <3>1. \E p \in Gathers : PlainPhase(r, p, {"ok"}) \/ PlainPhase(r, p, {"ok", "error"})
      BY <2>1 DEF EnterBarrier, AwaitBegin, PrepareSave, FinishSave, ShareSchedule,
                  RunCallback, Preflight, AwaitCommit, AwaitRotate, Gathers
    <3>2. QED
      BY <3>1, PlainOk, PlainPhaseType
  <2>2. ASSUME NEW a \in Owned(r), WriteArtifact(r, a) PROVE CommitTypeOK'
    <3>1. attempt \in Versions /\ a \in Artifacts
      BY OwnedAreArtifacts, SMT DEF CommitTypeOK, Versions
    <3>2. disk' \in [Steps -> Directory]
      BY <2>2, <3>1, ZenonT(30) DEF WriteArtifact, CommitTypeOK, Directory
    <3>3. mtime' \in [Steps -> 0 .. MaxAttempt]
      BY <2>2 DEF WriteArtifact, CommitTypeOK
    <3>4. QED
      BY <2>2, <3>2, <3>3 DEF WriteArtifact, CommitTypeOK
  <2>3. CASE FailSave(r)
    <3>1. disk' \in [Steps -> Directory]
      BY <2>3, CutShortType DEF FailSave
    <3>2. vote' \in [Gathers -> [Ranks -> {"none", "ok", "error"}]]
      BY <2>3 DEF FailSave, Contribute, CommitTypeOK
    <3>3. QED
      BY <2>3, <3>1, <3>2 DEF FailSave, CommitTypeOK
  <2>4. CASE Converge(r)
    <3>1. ASSUME NEW p \in Gathers PROVE NextPhase(p) \in Gathers \cup {"train"}
      BY DEF NextPhase, Gathers
    <3>2. pc' \in [Ranks -> Gathers \cup {"train", "raised", "dead", "down"}]
      BY <2>4, <3>1 DEF Converge, CommitTypeOK
    <3>3. QED
      BY <2>4, <3>2 DEF Converge, CommitTypeOK
  <2>5. QED
    BY <1>1, <2>1, <2>2, <2>3, <2>4 DEF RankStep
<1>2. ASSUME NEW r \in Ranks, Die(r) PROVE CommitTypeOK'
  <2>1. disk' \in [Steps -> Directory]
    BY <1>2, CutShortType, PartlyRemovedType DEF Die, CommitTypeOK
  <2>2. pc' \in [Ranks -> Gathers \cup {"train", "raised", "dead", "down"}]
    BY <1>2 DEF Die, CommitTypeOK
  <2>3. QED
    BY <1>2, <2>1, <2>2 DEF Die, CommitTypeOK
<1>3. CASE RankZeroStep
  <2> DEFINE Statuses == [Gathers -> [Ranks -> {"none", "ok", "error"}]]
  <2>1. CASE RevokeManifest
    <3>1. disk' \in [Steps -> Directory]
      BY <2>1, EmptyType, ZenonT(30) DEF RevokeManifest, CommitTypeOK, Directory
    <3>2. QED
      BY <2>1, <3>1 DEF RevokeManifest, CommitTypeOK
  <2>2. CASE FinishBegin
    <3>1. stable' \in [Steps -> Directory]
      BY <2>2, EmptyType, ZenonT(30) DEF FinishBegin, CommitTypeOK, Directory
    <3>2. vote' \in Statuses
      BY <2>2 DEF FinishBegin, Contribute, CommitTypeOK, Gathers
    <3>3. QED
      BY <2>2, <3>1, <3>2 DEF FinishBegin, CommitTypeOK
  <2>3. CASE FailBegin
    <3>1. vote' \in Statuses
      BY <2>3 DEF FailBegin, Contribute, CommitTypeOK, Gathers
    <3>2. QED
      BY <2>3, <3>1 DEF FailBegin, CommitTypeOK
  <2>4. CASE FsyncArtifacts
    <3>1. stable' \in [Steps -> Directory]
      BY <2>4 DEF FsyncArtifacts, CommitTypeOK, Directory
    <3>2. QED
      BY <2>4, <3>1 DEF FsyncArtifacts, CommitTypeOK
  <2>5. CASE PublishManifest
    <3>1. disk' \in [Steps -> Directory]
      BY <2>5, ZenonT(30) DEF PublishManifest, CommitTypeOK, Directory
    <3>2. QED
      BY <2>5, <3>1 DEF PublishManifest, CommitTypeOK
  <2>6. CASE FinishCommit
    <3>1. stable' \in [Steps -> Directory]
      BY <2>6 DEF FinishCommit, CommitTypeOK, Directory
    <3>2. vote' \in Statuses
      BY <2>6 DEF FinishCommit, Contribute, CommitTypeOK, Gathers
    <3>3. QED
      BY <2>6, <3>1, <3>2 DEF FinishCommit, CommitTypeOK
  <2>7. CASE FailCommit
    <3>1. vote' \in Statuses
      BY <2>7 DEF FailCommit, Contribute, CommitTypeOK, Gathers
    <3>2. QED
      BY <2>7, <3>1 DEF FailCommit, CommitTypeOK
  <2>8. CASE Rotate
    <3>1. disk' \in [Steps -> Directory] /\ stable' \in [Steps -> Directory]
      BY <2>8, NothingType DEF Rotate, CommitTypeOK
    <3>2. vote' \in Statuses
      BY <2>8 DEF Rotate, Contribute, CommitTypeOK, Gathers
    <3>3. \A s \in Steps : [synced |-> FALSE,
                              former |-> (entry[s].former \cup {stable[s]}) \ {Nothing}] \in Entry
      BY DEF CommitTypeOK, Entry
    <3>4. entry' \in [Steps -> Entry]
      BY <2>8, <3>3 DEF Rotate, CommitTypeOK
    <3>5. QED
      BY <2>8, <3>1, <3>2, <3>4 DEF Rotate, CommitTypeOK
  <2>9. CASE FailRotate
    <3>1. disk' \in [Steps -> Directory]
      BY <2>9, PartlyRemovedType DEF FailRotate, CommitTypeOK
    <3>2. vote' \in Statuses
      BY <2>9 DEF FailRotate, Contribute, CommitTypeOK, Gathers
    <3>3. QED
      BY <2>9, <3>1, <3>2 DEF FailRotate, CommitTypeOK
  <2>10. QED
    BY <1>3, <2>1, <2>2, <2>3, <2>4, <2>5, <2>6, <2>7, <2>8, <2>9 DEF RankZeroStep
<1>4. NoVotes \in [Gathers -> [Ranks -> {"none", "ok", "error"}]]
  BY DEF NoVotes
<1>5. CASE TrainToSave
  BY <1>4, <1>5, SMT DEF TrainToSave, CommitTypeOK, Gathers
<1>6. CASE Teardown
  BY <1>4, <1>6 DEF Teardown, CommitTypeOK
<1>7. CASE PowerLoss
  BY <1>7, PowerLossType DEF PowerLoss, CommitTypeOK
<1>8. CASE Restart
  <2>1. \A s \in Steps : s \in 0 .. MaxStep
    BY SMT DEF Steps
  <2>2. PICK s \in Steps \cup {0} : StartFrom(s) /\ reported' \in {s, 0, reported}
    BY <1>8 DEF Restart, ResumeRoot, ResumeExplicit, FreshStart, Valid
  <2>3. global_step' \in 0 .. MaxStep /\ reported' \in 0 .. MaxStep
    BY <2>1, <2>2, SMT DEF StartFrom, CommitTypeOK, Steps
  <2>4. QED
    BY <2>2, <2>3 DEF StartFrom, CommitTypeOK
<1>9. CASE UNCHANGED commitVars
  BY <1>9 DEF commitVars, CommitTypeOK
<1>10. QED
  BY <1>1, <1>2, <1>3, <1>5, <1>6, <1>7, <1>8, <1>9 DEF CommitNext

LEMMA TypeInit == CommitInit => CommitTypeOK
<1> SUFFICES ASSUME CommitInit PROVE CommitTypeOK
  OBVIOUS
<1>1. [synced |-> FALSE, former |-> {}] \in Entry
  BY DEF Entry
<1>2. entry \in [Steps -> Entry] /\ disk \in [Steps -> Directory] /\ stable \in [Steps -> Directory]
  BY <1>1, NothingType DEF CommitInit
<1>3. QED
  BY <1>2, SMT DEF CommitInit, CommitTypeOK, NoVotes, Gathers

\* Type correctness of the protocol.
THEOREM TypeCorrect == CommitSpec => []CommitTypeOK
<1>1. QED
  BY TypeInit, TypeStep, PTL DEF CommitSpec

-----------------------------------------------------------------------------
\* Only the owner writes an artifact.
LEMMA OwnersAreDisjoint ==
  ASSUME NEW r \in Ranks, NEW q \in Ranks, r # q
  PROVE  Owned(r) \cap Owned(q) = {}
  BY DEF Owned, Model, TrainerState, Rng

LEMMA OwnersCover == \A a \in Artifacts : \E r \in Ranks : a \in Owned(r)
  BY RankZero DEF Owned, Artifacts, Model, TrainerState, Rng

LEMMA ModelIsArtifact == Model \in Artifacts
  BY DEF Artifacts

\* A rank that has contributed to a gather does not contribute again.
LEMMA VotesAreFinal ==
  ASSUME CommitTypeOK, NEW r \in Ranks, NEW p \in Gathers, NEW status \in {"ok", "error"},
         Working(r, p), Contribute(r, p, status)
  PROVE  /\ \A g \in Gathers, q \in Ranks : vote[g][q] # "none" => vote'[g][q] = vote[g][q]
         /\ \A g \in Gathers, q \in Ranks : g # p \/ q # r => vote'[g][q] = vote[g][q]
         /\ vote'[p][r] = status
  BY DEF Working, Contribute, CommitTypeOK

-----------------------------------------------------------------------------
\* The gathers stay ordered.
LEMMA OrderedStep == CommitTypeOK /\ GathersOrdered /\ [CommitNext]_commitVars => GathersOrdered'
<1> SUFFICES ASSUME CommitTypeOK, GathersOrdered, [CommitNext]_commitVars PROVE GathersOrdered'
  OBVIOUS
<1> USE RankZero
\* A contribution keeps the statuses the order speaks of.
<1>1. ASSUME NEW r \in Ranks, NEW p \in Gathers, NEW status \in {"ok", "error"},
             Working(r, p), Contribute(r, p, status), UNCHANGED <<pc, global_step, attempt>>
      PROVE  GathersOrdered'
  <2>1. \A g \in Gathers, q \in Ranks : vote[g][q] = "ok" => vote'[g][q] = "ok"
    BY <1>1, VotesAreFinal
  <2>2. \A g \in Gathers, q \in Ranks : g # p \/ q # r => vote'[g][q] = vote[g][q]
    BY <1>1, VotesAreFinal
  <2>3. pc[r] = p /\ ~ (Index(p) > Index(p))
    BY <1>1, SMT DEF Working, Index, Gathers
  <2>4. \A g \in Gathers, q \in Ranks :
          pc[q] \in Gathers /\ Index(g) > Index(pc[q]) => vote'[g][q] = "none"
    BY <2>2, <2>3 DEF GathersOrdered
  <2>5. QED
    BY <1>1, <2>1, <2>4 DEF GathersOrdered
<1>2. ASSUME NEW r \in Ranks, NEW p \in Gathers,
             PlainPhase(r, p, {"ok"}) \/ PlainPhase(r, p, {"ok", "error"})
      PROVE  GathersOrdered'
  BY <1>1, <1>2 DEF PlainPhase
<1>3. ASSUME UNCHANGED <<vote, global_step, attempt>>,
             \A r \in Ranks : pc'[r] = pc[r] \/ pc'[r] \notin Gathers
      PROVE  GathersOrdered'
  BY <1>3 DEF GathersOrdered
<1>4. ASSUME \A r \in Ranks : pc'[r] \notin Gathers
      PROVE  GathersOrdered'
  BY <1>4 DEF GathersOrdered
<1>5. ASSUME NEW r \in Ranks, RankStep(r) PROVE GathersOrdered'
  <2>1. CASE \/ EnterBarrier(r) \/ AwaitBegin(r) \/ PrepareSave(r) \/ FinishSave(r)
             \/ ShareSchedule(r) \/ RunCallback(r) \/ Preflight(r)
             \/ AwaitCommit(r) \/ AwaitRotate(r)
    <3>1. \E p \in Gathers : PlainPhase(r, p, {"ok"}) \/ PlainPhase(r, p, {"ok", "error"})
      BY <2>1 DEF EnterBarrier, AwaitBegin, PrepareSave, FinishSave, ShareSchedule,
                  RunCallback, Preflight, AwaitCommit, AwaitRotate, Gathers
    <3>2. QED
      BY <3>1, <1>2
  <2>2. ASSUME NEW a \in Owned(r), WriteArtifact(r, a) PROVE GathersOrdered'
    BY <2>2, <1>3 DEF WriteArtifact
  <2>3. CASE FailSave(r)
    BY <2>3, <1>1 DEF FailSave, Gathers
  <2>4. CASE Converge(r)
    <3>1. pc[r] \in Gathers /\ UNCHANGED <<vote, global_step, attempt>>
      BY <2>4 DEF Converge
    <3>2. CASE \E q \in Ranks : vote[pc[r]][q] # "ok"
      BY <2>4, <3>2, <1>3 DEF Converge, CommitTypeOK, Gathers
    <3>3. CASE \A q \in Ranks : vote[pc[r]][q] = "ok"
      <4>1. pc' = [pc EXCEPT ![r] = NextPhase(pc[r])]
        BY <2>4, <3>3 DEF Converge
      <4>2. ASSUME NextPhase(pc[r]) \in Gathers, NEW g \in Gathers,
                   Index(g) < Index(NextPhase(pc[r]))
            PROVE  g = pc[r] \/ Index(g) < Index(pc[r])
        BY <3>1, <4>2, SMT DEF NextPhase, Index, Gathers
      <4>3. ASSUME NextPhase(pc[r]) \in Gathers, NEW g \in Gathers,
                   Index(g) < Index(NextPhase(pc[r])), NEW q \in Ranks
            PROVE  vote[g][q] = "ok"
        BY <3>1, <3>3, <4>2, <4>3 DEF GathersOrdered
      <4>4. ASSUME NextPhase(pc[r]) \in Gathers, NEW g \in Gathers,
                   Index(g) > Index(NextPhase(pc[r]))
            PROVE  Index(g) > Index(pc[r])
        BY <3>1, <4>4, SMT DEF NextPhase, Index, Gathers
      <4>5. QED
        BY <3>1, <4>1, <4>3, <4>4 DEF GathersOrdered, CommitTypeOK
    <3>4. QED
      BY <3>2, <3>3
  <2>5. QED
    BY <1>5, <2>1, <2>2, <2>3, <2>4 DEF RankStep
<1>6. ASSUME NEW r \in Ranks, Die(r) PROVE GathersOrdered'
  <2>1. \A q \in Ranks : pc'[q] = pc[q] \/ pc'[q] \notin Gathers
    BY <1>6 DEF Die, CommitTypeOK, Gathers
  <2>2. QED
    BY <1>6, <2>1, <1>3 DEF Die
<1>7. CASE RankZeroStep
  <2>1. CASE RevokeManifest \/ FsyncArtifacts \/ PublishManifest
    BY <2>1, <1>3 DEF RevokeManifest, FsyncArtifacts, PublishManifest
  <2>2. CASE FinishBegin \/ FailBegin \/ FinishCommit \/ FailCommit \/ Rotate \/ FailRotate
    BY <2>2, <1>1 DEF FinishBegin, FailBegin, FinishCommit, FailCommit, Rotate, FailRotate,
                      Gathers
  <2>3. QED
    BY <1>7, <2>1, <2>2 DEF RankZeroStep
<1>8. CASE TrainToSave
  <2>1. global_step' \in Steps /\ attempt' \in 1 .. MaxAttempt
    BY <1>8, SMT DEF TrainToSave, CommitTypeOK, Steps
  <2>2. \A r \in Ranks, g \in Gathers : /\ pc'[r] = "barrier" /\ ~ (Index(g) < Index(pc'[r]))
                                    /\ vote'[g][r] = "none"
    BY <1>8, SMT DEF TrainToSave, Index, Gathers, NoVotes
  <2>3. QED
    BY <2>1, <2>2 DEF GathersOrdered
<1>9. CASE Teardown \/ PowerLoss
  BY <1>9, <1>4 DEF Teardown, PowerLoss, Gathers
<1>10. CASE Restart
  <2>1. PICK s \in Steps \cup {0} : StartFrom(s)
    BY <1>10 DEF Restart, ResumeRoot, ResumeExplicit, FreshStart, Valid
  <2>2. QED
    BY <2>1, <1>4 DEF StartFrom, Gathers
<1>11. CASE UNCHANGED commitVars
  BY <1>11 DEF commitVars, GathersOrdered
<1>12. QED
  BY <1>5, <1>6, <1>7, <1>8, <1>9, <1>10, <1>11 DEF CommitNext

-----------------------------------------------------------------------------
\* A job that is down has no statuses left.
LEMMA QuietStep == CommitTypeOK /\ DownIsQuiet /\ [CommitNext]_commitVars => DownIsQuiet'
<1> SUFFICES ASSUME CommitTypeOK, DownIsQuiet, [CommitNext]_commitVars PROVE DownIsQuiet'
  OBVIOUS
<1> USE RankZero
\* As long as one rank is not down, there is nothing to show.
<1>1. ASSUME NEW r \in Ranks, pc'[r] # "down" PROVE DownIsQuiet'
  BY <1>1 DEF DownIsQuiet
<1>2. ASSUME NEW r \in Ranks, NEW p \in Gathers, Working(r, p), UNCHANGED pc
      PROVE  DownIsQuiet'
  BY <1>1, <1>2 DEF Working, Gathers
<1>3. ASSUME NEW r \in Ranks, RankStep(r) PROVE DownIsQuiet'
  <2>1. CASE \/ EnterBarrier(r) \/ AwaitBegin(r) \/ PrepareSave(r) \/ FinishSave(r)
             \/ ShareSchedule(r) \/ RunCallback(r) \/ Preflight(r)
             \/ AwaitCommit(r) \/ AwaitRotate(r)
    <3>1. \E p \in Gathers : PlainPhase(r, p, {"ok"}) \/ PlainPhase(r, p, {"ok", "error"})
      BY <2>1 DEF EnterBarrier, AwaitBegin, PrepareSave, FinishSave, ShareSchedule,
                  RunCallback, Preflight, AwaitCommit, AwaitRotate, Gathers
    <3>2. QED
      BY <3>1, <1>2 DEF PlainPhase
  <2>2. CASE (\E a \in Owned(r) : WriteArtifact(r, a)) \/ FailSave(r)
    BY <2>2, <1>2 DEF WriteArtifact, FailSave, Gathers
  <2>3. CASE Converge(r)
    BY <2>3, <1>1 DEF Converge, CommitTypeOK, NextPhase, Gathers
  <2>4. QED
    BY <1>3, <2>1, <2>2, <2>3 DEF RankStep
<1>4. ASSUME NEW r \in Ranks, Die(r) PROVE DownIsQuiet'
  BY <1>4, <1>1 DEF Die, CommitTypeOK
<1>5. CASE RankZeroStep
  BY <1>5, <1>2 DEF RankZeroStep, RevokeManifest, FinishBegin, FailBegin, FsyncArtifacts,
                    PublishManifest, FinishCommit, FailCommit, Rotate, FailRotate, Gathers
<1>6. CASE TrainToSave
  BY <1>6, <1>1 DEF TrainToSave
<1>7. CASE Teardown \/ PowerLoss
  BY <1>7 DEF Teardown, PowerLoss, DownIsQuiet
<1>8. CASE Restart
  <2>1. PICK s \in Steps \cup {0} : StartFrom(s)
    BY <1>8 DEF Restart, ResumeRoot, ResumeExplicit, FreshStart, Valid
  <2>2. QED
    BY <2>1, <1>1 DEF StartFrom
<1>9. CASE UNCHANGED commitVars
  BY <1>9 DEF commitVars, DownIsQuiet
<1>10. QED
  BY <1>3, <1>4, <1>5, <1>6, <1>7, <1>8, <1>9 DEF CommitNext

-----------------------------------------------------------------------------
\* A write that is cut short leaves the files of the other ranks, and those of a
\* rank that has reported its save, alone.
LEMMA CutShortKeeps ==
  ASSUME CommitTypeOK, global_step \in Steps, NEW r \in Ranks, Working(r, "save"), CutShort(r),
         NEW q \in Ranks, vote["save"][q] = "ok", NEW a \in Owned(q)
  PROVE  disk'[global_step].files[a] = disk[global_step].files[a]
<1>1. PICK torn \in SUBSET InFlight(r) :
        disk' = [disk EXCEPT ![global_step].files =
                    [b \in Artifacts |-> IF b \in torn THEN Torn ELSE @[b]]]
  BY DEF CutShort
<1>2. r # q
  BY DEF Working
<1>3. a \notin torn
  BY <1>1, <1>2, OwnersAreDisjoint DEF InFlight
<1>4. a \in Artifacts
  BY OwnedAreArtifacts
<1>5. disk'[global_step].files = [b \in Artifacts |-> IF b \in torn THEN Torn
                                               ELSE disk[global_step].files[b]]
  BY <1>1 DEF CommitTypeOK, Directory
<1>6. QED
  BY <1>3, <1>4, <1>5

LEMMA SavedStep ==
  CommitTypeOK /\ GathersOrdered /\ DownIsQuiet /\ SavedIsWritten /\ [CommitNext]_commitVars => SavedIsWritten'
<1> SUFFICES ASSUME CommitTypeOK, GathersOrdered, DownIsQuiet, SavedIsWritten, [CommitNext]_commitVars,
                    pc'[0] \in Gathers, vote'["rotate"][0] = "none",
                    NEW q \in Ranks, vote'["save"][q] = "ok", NEW b \in Owned(q)
             PROVE  disk'[global_step'].files[b] = attempt'
  BY DEF SavedIsWritten
<1> USE RankZero
<1> DEFINE Written(f) == f[global_step].files[b] = attempt
<1>1. ASSUME pc[0] \in Gathers, vote["rotate"][0] = "none", vote["save"][q] = "ok"
      PROVE  Written(disk)
  BY <1>1 DEF SavedIsWritten
<1>2. ASSUME UNCHANGED <<pc, global_step, attempt, disk>>, NEW r \in Ranks, NEW p \in Gathers,
             NEW status \in {"ok", "error"}, Working(r, p), Contribute(r, p, status),
             ~ (p = "save" /\ r = q)
      PROVE  disk'[global_step'].files[b] = attempt'
  <2>1. /\ \A g \in Gathers, u \in Ranks : vote[g][u] # "none" => vote'[g][u] = vote[g][u]
        /\ \A g \in Gathers, u \in Ranks : g # p \/ u # r => vote'[g][u] = vote[g][u]
    BY <1>2, VotesAreFinal, Zenon
  <2>2. "save" \in Gathers /\ "rotate" \in Gathers
    BY DEF Gathers
  <2>3. vote["save"][q] = "ok"
    BY <1>2, <2>1, <2>2
  <2>4. vote["rotate"][0] = "none"
    BY <2>1, <2>2
  <2>5. QED
    BY <1>1, <1>2, <2>3, <2>4
<1>3. ASSUME NEW r \in Ranks, RankStep(r) PROVE disk'[global_step'].files[b] = attempt'
  <2>1. CASE \/ EnterBarrier(r) \/ AwaitBegin(r) \/ PrepareSave(r)
             \/ ShareSchedule(r) \/ RunCallback(r) \/ Preflight(r)
             \/ AwaitCommit(r) \/ AwaitRotate(r)
    <3>1. \E p \in Gathers \ {"save"} :
             PlainPhase(r, p, {"ok"}) \/ PlainPhase(r, p, {"ok", "error"})
      BY <2>1 DEF EnterBarrier, AwaitBegin, PrepareSave, ShareSchedule,
                  RunCallback, Preflight, AwaitCommit, AwaitRotate, Gathers
    <3>2. QED
      BY <3>1, <1>2 DEF PlainPhase
  <2>2. CASE FinishSave(r)
    <3>1. CASE r = q
      BY <2>2, <3>1 DEF FinishSave, PlainPhase
    <3>2. CASE r # q
      <4>1. Working(r, "save") /\ Contribute(r, "save", "ok") /\ "save" \in Gathers
            /\ UNCHANGED <<pc, global_step, attempt, disk>>
        BY <2>2 DEF FinishSave, PlainPhase, Gathers
      <4>2. QED
        BY <3>2, <4>1, <1>2
    <3>3. QED
      BY <3>1, <3>2
  <2>3. ASSUME NEW a \in Owned(r), WriteArtifact(r, a)
        PROVE  disk'[global_step'].files[b] = attempt'
    <3>1. /\ pc[r] = "save" /\ UNCHANGED <<pc, vote, global_step, attempt>>
          /\ disk' = [disk EXCEPT ![global_step].files[a] = attempt]
      BY <2>3 DEF WriteArtifact, Working
    <3>2. global_step \in Steps
      BY <3>1 DEF GathersOrdered, Gathers
    <3>3. Written(disk)
      BY <3>1, <1>1
    <3>4. a \in Artifacts /\ b \in Artifacts
      BY OwnedAreArtifacts
    <3>5. QED
      BY <3>1, <3>2, <3>3, <3>4 DEF CommitTypeOK, Directory
  <2>4. CASE FailSave(r)
    <3>1. /\ Working(r, "save") /\ CutShort(r) /\ Contribute(r, "save", "error")
          /\ UNCHANGED <<pc, global_step, attempt>> /\ "save" \in Gathers /\ "rotate" \in Gathers
      BY <2>4 DEF FailSave, Gathers
    <3>2. global_step \in Steps
      BY <3>1 DEF GathersOrdered, Working
    <3>3. vote["save"][q] = "ok" /\ vote["rotate"][0] = "none"
      BY <3>1, VotesAreFinal
    <3>4. QED
      BY <3>1, <3>2, <3>3, <1>1, CutShortKeeps
  <2>5. CASE Converge(r)
    <3>1. pc[0] \in Gathers
      BY <2>5 DEF Converge, CommitTypeOK
    <3>2. QED
      BY <2>5, <3>1, <1>1 DEF Converge
  <2>6. QED
    BY <1>3, <2>1, <2>2, <2>3, <2>4, <2>5 DEF RankStep
<1>4. ASSUME NEW r \in Ranks, Die(r) PROVE disk'[global_step'].files[b] = attempt'
  <2>1. r # 0 /\ pc[0] \in Gathers
    BY <1>4 DEF Die, CommitTypeOK, Gathers
  <2>2. UNCHANGED <<vote, global_step, attempt>>
    BY <1>4 DEF Die
  <2>3. global_step \in Steps /\ Written(disk)
    BY <2>1, <2>2, <1>1 DEF GathersOrdered
  <2>4. CASE UNCHANGED disk
    BY <2>2, <2>3, <2>4
  <2>5. CASE Working(r, "save") /\ CutShort(r)
    BY <2>2, <2>3, <2>5, CutShortKeeps
  <2>6. QED
    BY <1>4, <2>1, <2>4, <2>5 DEF Die
<1>5. CASE RankZeroStep
  <2>1. CASE FinishBegin \/ FailBegin \/ FinishCommit \/ FailCommit
    BY <2>1, <1>2 DEF FinishBegin, FailBegin, FinishCommit, FailCommit, Gathers
  <2>2. CASE RevokeManifest \/ PublishManifest
    <3>1. /\ pc[0] \in Gathers /\ UNCHANGED <<pc, vote, global_step, attempt>>
          /\ \E m : disk' = [disk EXCEPT ![global_step].manifest = m]
      BY <2>2 DEF RevokeManifest, PublishManifest, Working, Gathers
    <3>2. global_step \in Steps /\ Written(disk)
      BY <3>1, <1>1 DEF GathersOrdered
    <3>3. disk'[global_step].files = disk[global_step].files
      BY <3>1, <3>2 DEF CommitTypeOK, Directory
    <3>4. QED
      BY <3>1, <3>2, <3>3
  <2>3. CASE FsyncArtifacts
    BY <2>3, <1>1 DEF FsyncArtifacts
  <2>4. CASE Rotate \/ FailRotate
    BY <2>4 DEF Rotate, FailRotate, Contribute, CommitTypeOK, Gathers
  <2>5. QED
    BY <1>5, <2>1, <2>2, <2>3, <2>4 DEF RankZeroStep
<1>6. CASE TrainToSave \/ Teardown \/ PowerLoss
  BY <1>6 DEF TrainToSave, Teardown, PowerLoss, NoVotes, Gathers
<1>7. CASE Restart
  <2>1. PICK s \in Steps \cup {0} : StartFrom(s)
    BY <1>7 DEF Restart, ResumeRoot, ResumeExplicit, FreshStart, Valid
  <2>2. QED
    BY <2>1 DEF StartFrom, Gathers
<1>8. CASE UNCHANGED commitVars
  BY <1>1, <1>8 DEF commitVars
<1>9. QED
  BY <1>3, <1>4, <1>5, <1>6, <1>7, <1>8 DEF CommitNext

-----------------------------------------------------------------------------
\* When rank 0 is about to publish, all the files are those of this attempt.
LEMMA PublishesWhole ==
  ASSUME CommitTypeOK, GathersOrdered, SavedIsWritten, Working(0, "commit")
  PROVE  OneAttempt(disk[global_step].files)
<1> USE RankZero
<1>1. pc[0] = "commit" /\ "commit" \in Gathers /\ "save" \in Gathers /\ "rotate" \in Gathers
  BY DEF Working, Gathers
<1>2. \A q \in Ranks : vote["save"][q] = "ok"
  BY <1>1, SMT DEF GathersOrdered, Index
<1>3. vote["rotate"][0] = "none"
  BY <1>1 DEF Working, GathersOrdered, Index
<1>4. \A a \in Artifacts : disk[global_step].files[a] = attempt
  BY <1>1, <1>2, <1>3, OwnersCover DEF SavedIsWritten
<1>5. QED
  BY <1>1, <1>4 DEF OneAttempt, GathersOrdered

\* No action makes a manifest that is not whole: one is published from whole
\* files, and everything else removes, copies or restores manifests.
LEMMA ManifestsStep ==
  CommitTypeOK /\ GathersOrdered /\ SavedIsWritten /\ ManifestsWhole /\ [CommitNext]_commitVars
    => ManifestsWhole'
<1> SUFFICES ASSUME CommitTypeOK, GathersOrdered, SavedIsWritten, ManifestsWhole, [CommitNext]_commitVars
             PROVE  ManifestsWhole'
  OBVIOUS
<1> USE RankZero
<1>1. ASSUME UNCHANGED entry,
             \A s \in Steps : disk'[s].manifest \in {disk[s].manifest, stable[s].manifest, NoManifest},
             \A s \in Steps : stable'[s].manifest \in {disk[s].manifest, stable[s].manifest, NoManifest}
      PROVE  ManifestsWhole'
  BY <1>1 DEF ManifestsWhole, WholeOrNone
<1>2. ASSUME UNCHANGED <<disk, stable, entry>> PROVE ManifestsWhole'
  BY <1>1, <1>2
<1>3. ASSUME NEW r \in Ranks, CutShort(r), UNCHANGED <<stable, entry>> PROVE ManifestsWhole'
  <2>1. \A s \in Steps : disk'[s].manifest = disk[s].manifest
    BY <1>3 DEF CutShort, CommitTypeOK, Directory
  <2>2. QED
    BY <1>1, <1>3, <2>1
<1>4. ASSUME PartlyRemoved, UNCHANGED <<stable, entry>> PROVE ManifestsWhole'
  <2>1. PICK s \in Victims, gone \in SUBSET Artifacts, keep \in BOOLEAN :
          disk' = [disk EXCEPT ![s] =
                    [files    |-> [a \in Artifacts |-> IF a \in gone THEN Absent
                                                       ELSE @.files[a]],
                     manifest |-> IF keep THEN @.manifest ELSE NoManifest]]
    BY <1>4 DEF PartlyRemoved
  <2>2. \A t \in Steps : disk'[t].manifest \in {disk[t].manifest, NoManifest}
    BY <2>1 DEF CommitTypeOK, Directory
  <2>3. QED
    BY <1>1, <1>4, <2>2
<1>5. ASSUME NEW r \in Ranks, RankStep(r) PROVE ManifestsWhole'
  <2>1. CASE \/ EnterBarrier(r) \/ AwaitBegin(r) \/ PrepareSave(r) \/ FinishSave(r)
             \/ ShareSchedule(r) \/ RunCallback(r) \/ Preflight(r)
             \/ AwaitCommit(r) \/ AwaitRotate(r) \/ Converge(r)
    BY <2>1, <1>2 DEF EnterBarrier, AwaitBegin, PrepareSave, FinishSave, ShareSchedule,
                  RunCallback, Preflight, AwaitCommit, AwaitRotate, Converge, PlainPhase
  <2>2. ASSUME NEW a \in Owned(r), WriteArtifact(r, a) PROVE ManifestsWhole'
    <3>1. \A s \in Steps : disk'[s].manifest = disk[s].manifest
      BY <2>2 DEF WriteArtifact, CommitTypeOK, Directory
    <3>2. QED
      BY <2>2, <3>1, <1>1 DEF WriteArtifact
  <2>3. CASE FailSave(r)
    BY <2>3, <1>3 DEF FailSave
  <2>4. QED
    BY <1>5, <2>1, <2>2, <2>3 DEF RankStep
<1>6. ASSUME NEW r \in Ranks, Die(r) PROVE ManifestsWhole'
  BY <1>6, <1>2, <1>3, <1>4 DEF Die
<1>7. CASE RankZeroStep
  <2>1. CASE RevokeManifest
    <3>1. \A s \in Steps : disk'[s].manifest \in {disk[s].manifest, NoManifest}
      BY <2>1 DEF RevokeManifest, CommitTypeOK, Directory
    <3>2. QED
      BY <2>1, <3>1, <1>1 DEF RevokeManifest
  <2>2. CASE FinishBegin
    <3>1. \A s \in Steps : stable'[s].manifest \in {stable[s].manifest, NoManifest}
      BY <2>2 DEF FinishBegin, CommitTypeOK, Directory
    <3>2. QED
      BY <2>2, <3>1, <1>1 DEF FinishBegin
  <2>3. CASE FailBegin \/ FailCommit
    BY <2>3, <1>2 DEF FailBegin, FailCommit
  <2>4. CASE FsyncArtifacts
    <3>1. \A s \in Steps : stable'[s].manifest = stable[s].manifest
      BY <2>4 DEF FsyncArtifacts, CommitTypeOK, Directory
    <3>2. QED
      BY <2>4, <3>1, <1>1 DEF FsyncArtifacts
  <2>5. CASE PublishManifest
    <3>1. OneAttempt(disk[global_step].files)
      BY <2>5, PublishesWhole DEF PublishManifest
    <3>2. \A s \in Steps : disk'[s].manifest \in {disk[s].manifest, disk[global_step].files}
                           /\ (disk'[s].manifest # disk[s].manifest =>
                                  disk'[s].manifest = disk[global_step].files)
      BY <2>5 DEF PublishManifest, CommitTypeOK, Directory
    <3>3. \A s \in Steps : WholeOrNone(disk'[s].manifest)
      BY <3>1, <3>2 DEF ManifestsWhole, WholeOrNone
    <3>4. QED
      BY <2>5, <3>3 DEF ManifestsWhole, PublishManifest
  <2>6. CASE FinishCommit
    <3>1. \A s \in Steps : stable'[s].manifest \in {stable[s].manifest, disk[s].manifest}
      BY <2>6 DEF FinishCommit, CommitTypeOK, Directory
    <3>2. QED
      BY <2>6, <3>1, <1>1 DEF FinishCommit
  <2>7. CASE Rotate
    <3>1. \A s \in Steps : /\ disk'[s].manifest \in {disk[s].manifest, NoManifest}
                           /\ stable'[s].manifest \in {stable[s].manifest, NoManifest}
      BY <2>7, NothingType DEF Rotate, CommitTypeOK
    <3>2. \A s \in Steps : entry'[s].former \subseteq entry[s].former \cup {stable[s]}
      BY <2>7 DEF Rotate, CommitTypeOK, Entry
    <3>3. QED
      BY <3>1, <3>2 DEF ManifestsWhole, WholeOrNone
  <2>8. CASE FailRotate
    BY <2>8, <1>2, <1>4 DEF FailRotate
  <2>9. QED
    BY <1>7, <2>1, <2>2, <2>3, <2>4, <2>5, <2>6, <2>7, <2>8 DEF RankZeroStep
<1>8. CASE TrainToSave \/ Teardown \/ UNCHANGED commitVars
  BY <1>8, <1>2 DEF TrainToSave, Teardown, commitVars
<1>9. CASE PowerLoss
  <2>1. PICK fallen \in SUBSET Steps : \E seen, sure \in [Steps -> Directory] :
           /\ Reboot(seen, sure)
           /\ \A s \in Steps :
                IF s \in fallen
                THEN seen[s] = Nothing /\ sure[s] \in entry[s].former \cup {Nothing}
                ELSE seen[s] = disk[s] /\ sure[s] = stable[s]
    BY <1>9, PowerLossViews
  <2>2. PICK seen \in [Steps -> Directory], sure \in [Steps -> Directory] :
           /\ Reboot(seen, sure)
           /\ \A s \in Steps :
                IF s \in fallen
                THEN seen[s] = Nothing /\ sure[s] \in entry[s].former \cup {Nothing}
                ELSE seen[s] = disk[s] /\ sure[s] = stable[s]
    BY <2>1
  <2>3. \A s \in Steps : WholeOrNone(seen[s].manifest) /\ WholeOrNone(sure[s].manifest)
    BY <2>2, NothingType DEF ManifestsWhole, WholeOrNone
  <2>4. \A s \in Steps : disk'[s].manifest \in {seen[s].manifest, sure[s].manifest}
    BY <2>2, RebootKeeps
  <2>5. \A s \in Steps : WholeOrNone(disk'[s].manifest)
    BY <2>3, <2>4
  <2>6. stable' = disk' /\ \A s \in Steps : entry'[s].former = {}
    BY <1>9 DEF PowerLoss
  <2>7. QED
    BY <2>5, <2>6 DEF ManifestsWhole, WholeOrNone
<1>10. CASE Restart
  BY <1>10, <1>2 DEF Restart, ResumeRoot, ResumeExplicit, FreshStart, StartFrom
<1>11. QED
  BY <1>5, <1>6, <1>7, <1>8, <1>9, <1>10 DEF CommitNext

LEMMA WholeInit == CommitInit => WholeInv
<1> SUFFICES ASSUME CommitInit PROVE WholeInv
  OBVIOUS
<1>1. GathersOrdered /\ DownIsQuiet /\ SavedIsWritten
  BY RankZero DEF CommitInit, GathersOrdered, DownIsQuiet, SavedIsWritten, Gathers
<1>2. ManifestsWhole
  BY NothingType DEF CommitInit, ManifestsWhole, WholeOrNone
<1>3. QED
  BY <1>1, <1>2, TypeInit DEF WholeInv

THEOREM WholeInvariant == CommitSpec => []WholeInv
<1>1. WholeInv /\ [CommitNext]_commitVars => WholeInv'
  BY TypeStep, OrderedStep, QuietStep, SavedStep, ManifestsStep DEF WholeInv
<1>2. QED
  BY <1>1, WholeInit, PTL DEF CommitSpec

\* A checkpoint that a resume would accept holds whole files of one save attempt:
\* torn files and files left by an earlier attempt at the same step never pass.
THEOREM ResumableIsOneAttempt == CommitSpec => []ValidIsOneAttempt
<1>1. WholeInv => ValidIsOneAttempt
  <2> SUFFICES ASSUME ManifestsWhole, NEW s \in Steps, Validates(disk[s])
               PROVE  OneAttempt(disk[s].files)
    BY DEF WholeInv, ValidIsOneAttempt
  <2>1. OneAttempt(disk[s].manifest)
    BY DEF ManifestsWhole, WholeOrNone, Validates
  <2>2. QED
    BY <2>1 DEF OneAttempt, Validates
<1>2. QED
  BY <1>1, WholeInvariant, PTL

-----------------------------------------------------------------------------
\* The contributions stay ordered.
LEMMA VotesStep == CommitTypeOK /\ GathersOrdered /\ VotesOrdered /\ [CommitNext]_commitVars => VotesOrdered'
<1> SUFFICES ASSUME CommitTypeOK, GathersOrdered, VotesOrdered, [CommitNext]_commitVars PROVE VotesOrdered'
  OBVIOUS
<1> USE RankZero
<1>1. ASSUME NEW r \in Ranks, NEW p \in Gathers, NEW status \in {"ok", "error"},
             Working(r, p), Contribute(r, p, status)
      PROVE  VotesOrdered'
  <2>1. ASSUME NEW h \in Gathers, NEW q \in Ranks, Index(h) < Index(p)
        PROVE  vote[h][q] = "ok"
    BY <1>1, <2>1 DEF GathersOrdered, Working
  <2>2. \A g \in Gathers, q \in Ranks : vote[g][q] # "none" => vote'[g][q] = vote[g][q]
    BY <1>1, VotesAreFinal
  <2>3. \A g \in Gathers, q \in Ranks : g # p \/ q # r => vote'[g][q] = vote[g][q]
    BY <1>1, VotesAreFinal
  <2>4. QED
    BY <2>1, <2>2, <2>3 DEF VotesOrdered
<1>2. ASSUME UNCHANGED vote \/ vote' = NoVotes PROVE VotesOrdered'
  BY <1>2 DEF VotesOrdered, NoVotes
<1>3. ASSUME NEW r \in Ranks, RankStep(r) PROVE VotesOrdered'
  <2>1. CASE \/ EnterBarrier(r) \/ AwaitBegin(r) \/ PrepareSave(r) \/ FinishSave(r)
             \/ ShareSchedule(r) \/ RunCallback(r) \/ Preflight(r)
             \/ AwaitCommit(r) \/ AwaitRotate(r)
    <3>1. \E p \in Gathers : PlainPhase(r, p, {"ok"}) \/ PlainPhase(r, p, {"ok", "error"})
      BY <2>1 DEF EnterBarrier, AwaitBegin, PrepareSave, FinishSave, ShareSchedule,
                  RunCallback, Preflight, AwaitCommit, AwaitRotate, Gathers
    <3>2. QED
      BY <3>1, <1>1 DEF PlainPhase
  <2>2. CASE (\E a \in Owned(r) : WriteArtifact(r, a)) \/ Converge(r)
    BY <2>2, <1>2 DEF WriteArtifact, Converge
  <2>3. CASE FailSave(r)
    BY <2>3, <1>1 DEF FailSave, Gathers
  <2>4. QED
    BY <1>3, <2>1, <2>2, <2>3 DEF RankStep
<1>4. ASSUME NEW r \in Ranks, Die(r) PROVE VotesOrdered'
  BY <1>4, <1>2 DEF Die
<1>5. CASE RankZeroStep
  <2>1. CASE RevokeManifest \/ FsyncArtifacts \/ PublishManifest
    BY <2>1, <1>2 DEF RevokeManifest, FsyncArtifacts, PublishManifest
  <2>2. CASE FinishBegin \/ FailBegin \/ FinishCommit \/ FailCommit \/ Rotate \/ FailRotate
    BY <2>2, <1>1 DEF FinishBegin, FailBegin, FinishCommit, FailCommit, Rotate, FailRotate,
                      Gathers
  <2>3. QED
    BY <1>5, <2>1, <2>2 DEF RankZeroStep
<1>6. CASE TrainToSave \/ Teardown \/ PowerLoss \/ Restart \/ UNCHANGED commitVars
  BY <1>6, <1>2 DEF TrainToSave, Teardown, PowerLoss, Restart, ResumeRoot, ResumeExplicit,
                    FreshStart, StartFrom, commitVars
<1>7. QED
  BY <1>3, <1>4, <1>5, <1>6 DEF CommitNext

-----------------------------------------------------------------------------
\* Once rank 0 commits or rotates, no rank is still writing.
LEMMA NobodySaves ==
  ASSUME GathersOrdered, pc[0] \in {"commit", "rotate"}, NEW r \in Ranks
  PROVE  ~ Working(r, "save")
<1> USE RankZero
<1>1. pc[0] \in Gathers /\ "save" \in Gathers /\ Index("save") < Index(pc[0])
  BY SMT DEF Gathers, Index
<1>2. vote["save"][r] = "ok"
  BY <1>1 DEF GathersOrdered
<1>3. QED
  BY <1>2 DEF Working

\* What rank 0 has contributed to commit, seen from where it is.
LEMMA CommitVote ==
  ASSUME GathersOrdered
  PROVE  /\ pc[0] = "rotate" => vote["commit"][0] = "ok"
         /\ pc[0] \in {"barrier", "begin", "prepare", "save", "schedule", "callback",
                       "preflight"} => vote["commit"][0] = "none"
<1> USE RankZero
<1>1. ASSUME pc[0] = "rotate" PROVE vote["commit"][0] = "ok"
  <2>1. pc[0] \in Gathers /\ "commit" \in Gathers /\ Index("commit") < Index(pc[0])
    BY <1>1, SMT DEF Gathers, Index
  <2>2. QED
    BY <2>1 DEF GathersOrdered
<1>2. ASSUME pc[0] \in {"barrier", "begin", "prepare", "save", "schedule", "callback",
                        "preflight"}
      PROVE  vote["commit"][0] = "none"
  <2>1. pc[0] \in Gathers /\ "commit" \in Gathers /\ Index("commit") > Index(pc[0])
    BY <1>2, SMT DEF Gathers, Index
  <2>2. QED
    BY <2>1 DEF GathersOrdered
<1>3. QED
  BY <1>1, <1>2

-----------------------------------------------------------------------------
\* io belongs to rank 0's begin and commit.
LEMMA IoStep == CommitTypeOK /\ IoOwned /\ [CommitNext]_commitVars => IoOwned'
<1> SUFFICES ASSUME CommitTypeOK, IoOwned, [CommitNext]_commitVars, pc'[0] # "dead", io' # "idle"
             PROVE  Working(0, "begin")' \/ Working(0, "commit")'
  BY DEF IoOwned
<1> USE RankZero
<1>1. ASSUME NEW r \in Ranks, NEW p \in Gathers, NEW status \in {"ok", "error"},
             Working(r, p), Contribute(r, p, status), UNCHANGED <<pc, io>>,
             r # 0 \/ p \notin {"begin", "commit"}
      PROVE  Working(0, "begin")' \/ Working(0, "commit")'
  <2>1. Working(0, "begin") \/ Working(0, "commit")
    BY <1>1 DEF IoOwned
  <2>2. vote'["begin"][0] = vote["begin"][0] /\ vote'["commit"][0] = vote["commit"][0]
    <3>1. \A g \in Gathers, q \in Ranks : g # p \/ q # r => vote'[g][q] = vote[g][q]
      BY <1>1, VotesAreFinal, Zenon
    <3>2. "begin" \in Gathers /\ "commit" \in Gathers
      BY DEF Gathers
    <3> QED
      BY <1>1, <3>1, <3>2
  <2>3. QED
    BY <1>1, <2>1, <2>2 DEF Working
<1>2. ASSUME UNCHANGED <<pc, io, vote>>
      PROVE  Working(0, "begin")' \/ Working(0, "commit")'
  BY <1>2 DEF IoOwned, Working
<1>3. ASSUME NEW r \in Ranks, RankStep(r) PROVE Working(0, "begin")' \/ Working(0, "commit")'
  <2>1. CASE \/ EnterBarrier(r) \/ PrepareSave(r) \/ FinishSave(r) \/ ShareSchedule(r)
             \/ RunCallback(r) \/ Preflight(r) \/ AwaitRotate(r)
    <3>1. \E p \in Gathers \ {"begin", "commit"} :
             PlainPhase(r, p, {"ok"}) \/ PlainPhase(r, p, {"ok", "error"})
      BY <2>1 DEF EnterBarrier, PrepareSave, FinishSave, ShareSchedule,
                  RunCallback, Preflight, AwaitRotate, Gathers
    <3>2. QED
      BY <3>1, <1>1 DEF PlainPhase
  <2>2. CASE AwaitBegin(r) \/ AwaitCommit(r)
    <3>1. r # 0 /\ \E p \in Gathers : PlainPhase(r, p, {"ok"})
      BY <2>2 DEF AwaitBegin, AwaitCommit, Gathers
    <3>2. QED
      BY <3>1, <1>1 DEF PlainPhase
  <2>3. CASE \E a \in Owned(r) : WriteArtifact(r, a)
    BY <2>3, <1>2 DEF WriteArtifact
  <2>4. CASE FailSave(r)
    BY <2>4, <1>1 DEF FailSave, Gathers
  <2>5. CASE Converge(r)
    <3>1. io # "idle" /\ UNCHANGED vote /\ pc[0] # "dead"
      BY <2>5 DEF Converge, CommitTypeOK, Gathers
    <3>2. Working(0, "begin") \/ Working(0, "commit")
      BY <3>1 DEF IoOwned
    <3>3. r # 0
      BY <2>5, <3>2 DEF Converge, Working
    <3>4. QED
      BY <2>5, <3>1, <3>2, <3>3 DEF Converge, Working, CommitTypeOK
  <2>6. QED
    BY <1>3, <2>1, <2>2, <2>3, <2>4, <2>5 DEF RankStep
<1>4. ASSUME NEW r \in Ranks, Die(r) PROVE Working(0, "begin")' \/ Working(0, "commit")'
  <2>1. pc'[0] = pc[0] /\ UNCHANGED <<io, vote>>
    BY <1>4 DEF Die, CommitTypeOK
  <2>2. QED
    BY <2>1 DEF IoOwned, Working
<1>5. CASE RankZeroStep
  <2>1. CASE RevokeManifest \/ FsyncArtifacts \/ PublishManifest
    BY <2>1 DEF RevokeManifest, FsyncArtifacts, PublishManifest, Working
  <2>2. CASE FinishBegin \/ FailBegin \/ FinishCommit \/ FailCommit
    BY <2>2 DEF FinishBegin, FailBegin, FinishCommit, FailCommit
  <2>3. CASE Rotate \/ FailRotate
    BY <2>3, <1>1 DEF Rotate, FailRotate, Gathers
  <2>4. QED
    BY <1>5, <2>1, <2>2, <2>3 DEF RankZeroStep
<1>6. CASE TrainToSave
  BY <1>6 DEF TrainToSave, IoOwned, Working
<1>7. CASE Teardown \/ PowerLoss
  BY <1>7, <1>2 DEF Teardown, PowerLoss
<1>8. CASE Restart
  BY <1>8 DEF Restart, ResumeRoot, ResumeExplicit, FreshStart, StartFrom, IoOwned, Working
<1>9. CASE UNCHANGED commitVars
  BY <1>2, <1>9 DEF commitVars
<1>10. QED
  BY <1>3, <1>4, <1>5, <1>6, <1>7, <1>8, <1>9 DEF CommitNext

-----------------------------------------------------------------------------
\* What commit has done stays done while it goes on.
LEMMA ProgressStep ==
  CommitTypeOK /\ GathersOrdered /\ IoOwned /\ CommitProgress /\ [CommitNext]_commitVars => CommitProgress'
<1> SUFFICES ASSUME CommitTypeOK, GathersOrdered, IoOwned, CommitProgress, [CommitNext]_commitVars,
                    Working(0, "commit")'
             PROVE  CommitProgress'
  BY DEF CommitProgress
<1> USE RankZero
<1>1. ASSUME pc[0] = "commit", vote["commit"][0] = "none", UNCHANGED <<io, global_step, disk, stable>>
      PROVE  CommitProgress'
  BY <1>1 DEF CommitProgress, Working, Committable
<1>2. ASSUME io' = "idle" PROVE CommitProgress'
  BY <1>2 DEF CommitProgress
<1>3. "commit" \in Gathers /\ pc'[0] = "commit" /\ vote'["commit"][0] = "none"
  BY DEF Working, Gathers
<1>4. ASSUME NEW r \in Ranks, RankStep(r) PROVE CommitProgress'
  <2>1. CASE \/ EnterBarrier(r) \/ AwaitBegin(r) \/ PrepareSave(r) \/ FinishSave(r)
             \/ ShareSchedule(r) \/ RunCallback(r) \/ Preflight(r)
             \/ AwaitCommit(r) \/ AwaitRotate(r)
    <3>1. PICK p \in Gathers : PlainPhase(r, p, {"ok"}) \/ PlainPhase(r, p, {"ok", "error"})
      BY <2>1 DEF EnterBarrier, AwaitBegin, PrepareSave, FinishSave, ShareSchedule,
                  RunCallback, Preflight, AwaitCommit, AwaitRotate, Gathers
    <3>2. vote["commit"][0] = "none"
      BY <3>1, <1>3, VotesAreFinal DEF PlainPhase
    <3>3. QED
      BY <3>1, <3>2, <1>1, <1>3 DEF PlainPhase
  <2>2. CASE (\E a \in Owned(r) : WriteArtifact(r, a)) \/ FailSave(r)
    BY <2>2, <1>3, NobodySaves DEF WriteArtifact, FailSave
  <2>3. CASE Converge(r)
    <3>1. CASE r = 0
      <4>1. pc[0] \in Gathers /\ vote[pc[0]][0] # "none" /\ io' = io
        BY <2>3, <3>1 DEF Converge
      <4>2. io = "idle"
        BY <4>1 DEF IoOwned, Working, Gathers
      <4>3. QED
        BY <4>1, <4>2, <1>2
    <3>2. CASE r # 0
      BY <2>3, <3>2, <1>1, <1>3 DEF Converge, CommitTypeOK
    <3>3. QED
      BY <3>1, <3>2
  <2>4. QED
    BY <1>4, <2>1, <2>2, <2>3 DEF RankStep
<1>5. ASSUME NEW r \in Ranks, Die(r) PROVE CommitProgress'
  <2>1. r # 0 /\ pc[0] = "commit" /\ UNCHANGED <<vote, io, global_step, stable>>
    BY <1>5, <1>3 DEF Die, CommitTypeOK
  <2>2. UNCHANGED disk
    BY <1>5, <2>1, NobodySaves DEF Die
  <2>3. QED
    BY <2>1, <2>2, <1>1, <1>3
<1>6. CASE RankZeroStep
  <2>1. CASE RevokeManifest \/ FinishBegin \/ FailBegin \/ Rotate \/ FailRotate
    BY <2>1, <1>3 DEF RevokeManifest, FinishBegin, FailBegin, Rotate, FailRotate, Working
  <2>2. CASE FinishCommit \/ FailCommit
    BY <2>2, <1>3 DEF FinishCommit, FailCommit, Contribute, CommitTypeOK
  <2>3. ASSUME FsyncArtifacts \/ PublishManifest PROVE global_step \in Steps
    BY <2>3 DEF FsyncArtifacts, PublishManifest, Working, GathersOrdered, Gathers
  <2>4. CASE FsyncArtifacts
    <3>1. /\ io' = "fsynced" /\ UNCHANGED <<global_step, disk>> /\ Committable(disk[global_step])
          /\ stable' = [stable EXCEPT ![global_step].files = disk[global_step].files]
      BY <2>4 DEF FsyncArtifacts
    <3>2. stable'[global_step].files = disk[global_step].files
      BY <2>3, <2>4, <3>1 DEF CommitTypeOK, Directory
    <3>3. QED
      BY <3>1, <3>2 DEF CommitProgress, Committable
  <2>5. CASE PublishManifest
    <3>1. /\ Working(0, "commit") /\ io = "fsynced" /\ UNCHANGED <<global_step, stable>>
          /\ disk' = [disk EXCEPT ![global_step].manifest = disk[global_step].files]
      BY <2>5 DEF PublishManifest
    <3>2. Committable(disk[global_step]) /\ stable[global_step].files = disk[global_step].files
      BY <3>1 DEF CommitProgress
    <3>3. disk'[global_step].files = disk[global_step].files /\ disk'[global_step].manifest = disk[global_step].files
      BY <2>5, <2>3, <3>1 DEF CommitTypeOK, Directory
    <3>4. QED
      BY <3>1, <3>2, <3>3 DEF CommitProgress, Committable
  <2>6. QED
    BY <1>6, <2>1, <2>2, <2>4, <2>5 DEF RankZeroStep
<1>7. CASE TrainToSave \/ Teardown \/ PowerLoss \/ Restart
  BY <1>7, <1>3 DEF TrainToSave, Teardown, PowerLoss, Restart, ResumeRoot, ResumeExplicit,
                    FreshStart, StartFrom
<1>8. CASE UNCHANGED commitVars
  BY <1>1, <1>3, <1>8 DEF commitVars
<1>9. QED
  BY <1>4, <1>5, <1>6, <1>7, <1>8 DEF CommitNext

-----------------------------------------------------------------------------
\* The directory of a committed attempt carries the newest modification time.
LEMMA NewestStep ==
  CommitTypeOK /\ GathersOrdered /\ IoOwned /\ CommitIsNewest /\ [CommitNext]_commitVars => CommitIsNewest'
<1> SUFFICES ASSUME CommitTypeOK, GathersOrdered, IoOwned, CommitIsNewest, [CommitNext]_commitVars
             PROVE  CommitIsNewest'
  OBVIOUS
<1> USE RankZero
<1> "commit" \in Gathers
  BY DEF Gathers
<1>1. ASSUME UNCHANGED <<pc, global_step, attempt, mtime, io>>, vote'["commit"][0] = vote["commit"][0]
      PROVE  CommitIsNewest'
  BY <1>1 DEF CommitIsNewest
<1>2. ASSUME UNCHANGED <<attempt, mtime>>, \A r \in Ranks : pc'[r] \notin Gathers
      PROVE  CommitIsNewest'
  BY <1>2 DEF CommitIsNewest
<1>3. ASSUME NEW r \in Ranks, RankStep(r) PROVE CommitIsNewest'
  <2>1. CASE \/ EnterBarrier(r) \/ PrepareSave(r) \/ FinishSave(r) \/ ShareSchedule(r)
             \/ RunCallback(r) \/ Preflight(r) \/ AwaitRotate(r)
    <3>1. PICK p \in Gathers \ {"commit"} :
             PlainPhase(r, p, {"ok"}) \/ PlainPhase(r, p, {"ok", "error"})
      BY <2>1 DEF EnterBarrier, PrepareSave, FinishSave, ShareSchedule,
                  RunCallback, Preflight, AwaitRotate, Gathers
    <3>2. vote'["commit"][0] = vote["commit"][0]
      BY <3>1, VotesAreFinal DEF PlainPhase
    <3>3. QED
      BY <3>1, <3>2, <1>1 DEF PlainPhase
  <2>2. CASE AwaitBegin(r) \/ AwaitCommit(r)
    <3>1. PICK p \in Gathers : r # 0 /\ PlainPhase(r, p, {"ok"})
      BY <2>2 DEF AwaitBegin, AwaitCommit, Gathers
    <3>2. vote'["commit"][0] = vote["commit"][0]
      BY <3>1, VotesAreFinal DEF PlainPhase
    <3>3. QED
      BY <3>1, <3>2, <1>1 DEF PlainPhase
  <2>3. ASSUME NEW a \in Owned(r), WriteArtifact(r, a) PROVE CommitIsNewest'
    <3>1. \A s \in Steps : mtime'[s] = mtime[s] \/ mtime'[s] = attempt
      BY <2>3 DEF WriteArtifact, CommitTypeOK
    <3>2. global_step \in Steps /\ mtime[global_step] = attempt => mtime'[global_step] = attempt
      BY <2>3 DEF WriteArtifact, CommitTypeOK
    <3>3. attempt \in Int /\ attempt <= attempt
      BY SMT DEF CommitTypeOK
    <3>4. pc[0] \in Gathers => global_step \in Steps
      BY DEF GathersOrdered
    <3>5. QED
      BY <2>3, <3>1, <3>2, <3>3, <3>4 DEF CommitIsNewest, WriteArtifact
  <2>4. CASE FailSave(r)
    <3>1. /\ Working(r, "save") /\ Contribute(r, "save", "error")
          /\ UNCHANGED <<pc, io, global_step, attempt, mtime>> /\ "save" \in Gathers
      BY <2>4 DEF FailSave, Gathers
    <3>2. vote'["commit"][0] = vote["commit"][0]
      BY <3>1, VotesAreFinal
    <3>3. QED
      BY <3>1, <3>2, <1>1
  <2>5. CASE Converge(r)
    <3>1. UNCHANGED <<vote, io, global_step, attempt, mtime>> /\ pc[r] \in Gathers
          /\ vote[pc[r]][r] # "none"
      BY <2>5 DEF Converge
    <3>2. CASE r # 0
      BY <2>5, <3>1, <3>2 DEF Converge, CommitIsNewest, CommitTypeOK
    <3>3. CASE r = 0
      <4>1. io = "idle"
        BY <3>1, <3>3 DEF IoOwned, Working, Gathers
      <4>2. QED
        BY <3>1, <3>3, <4>1 DEF CommitIsNewest
    <3>4. QED
      BY <3>2, <3>3
  <2>6. QED
    BY <1>3, <2>1, <2>2, <2>3, <2>4, <2>5 DEF RankStep
<1>4. ASSUME NEW r \in Ranks, Die(r) PROVE CommitIsNewest'
  <2>1. UNCHANGED <<vote, io, global_step, attempt, mtime>> /\ pc'[0] \in {pc[0], "dead"}
    BY <1>4 DEF Die, CommitTypeOK
  <2>2. QED
    BY <2>1 DEF CommitIsNewest, Gathers
<1>5. CASE RankZeroStep
  <2>1. CASE RevokeManifest
    <3>1. /\ pc[0] = "begin" /\ UNCHANGED <<pc, vote, global_step, attempt>>
          /\ mtime' = [mtime EXCEPT ![global_step] = attempt]
      BY <2>1 DEF RevokeManifest, Working
    <3>2. vote["commit"][0] = "none"
      BY <3>1, CommitVote
    <3>3. \A s \in Steps : mtime'[s] = mtime[s] \/ mtime'[s] = attempt
      BY <3>1 DEF CommitTypeOK
    <3>4. attempt <= attempt
      BY SMT DEF CommitTypeOK
    <3>5. QED
      BY <3>1, <3>2, <3>3, <3>4 DEF CommitIsNewest
  <2>2. CASE FinishBegin \/ FailBegin
    <3>1. /\ pc[0] = "begin" /\ UNCHANGED <<pc, global_step, attempt, mtime>>
          /\ \E status \in {"ok", "error"} :
                Working(0, "begin") /\ Contribute(0, "begin", status)
      BY <2>2 DEF FinishBegin, FailBegin, Working
    <3>2. "begin" \in Gathers
      BY DEF Gathers
    <3>3. vote'["commit"][0] = vote["commit"][0]
      BY <3>1, <3>2, VotesAreFinal
    <3>4. QED
      BY <3>1, <3>3 DEF CommitIsNewest
  <2>3. CASE FsyncArtifacts
    BY <2>3 DEF FsyncArtifacts, CommitIsNewest
  <2>4. CASE PublishManifest
    <3>1. /\ pc[0] = "commit" /\ UNCHANGED <<pc, global_step, attempt>>
          /\ mtime' = [mtime EXCEPT ![global_step] = attempt]
      BY <2>4 DEF PublishManifest, Working
    <3>2. global_step \in Steps
      BY <3>1 DEF GathersOrdered
    <3>3. mtime'[global_step] = attempt
          /\ \A s \in Steps : mtime'[s] = mtime[s] \/ mtime'[s] = attempt
      BY <3>1, <3>2 DEF CommitTypeOK
    <3>4. attempt <= attempt
      BY SMT DEF CommitTypeOK
    <3>5. QED
      BY <3>1, <3>3, <3>4 DEF CommitIsNewest
  <2>5. CASE FinishCommit
    BY <2>5 DEF FinishCommit, Working, CommitIsNewest
  <2>6. CASE FailCommit
    <3>1. vote'["commit"][0] = "error"
      BY <2>6 DEF FailCommit, Contribute, CommitTypeOK
    <3>2. QED
      BY <2>6, <3>1 DEF FailCommit, CommitIsNewest
  <2>7. CASE Rotate \/ FailRotate
    <3>1. /\ UNCHANGED <<pc, io, global_step, attempt, mtime>>
          /\ \E status \in {"ok", "error"} :
                Working(0, "rotate") /\ Contribute(0, "rotate", status)
      BY <2>7 DEF Rotate, FailRotate
    <3>2. "rotate" \in Gathers
      BY DEF Gathers
    <3>3. vote'["commit"][0] = vote["commit"][0]
      BY <3>1, <3>2, VotesAreFinal
    <3>4. QED
      BY <3>1, <3>3, <1>1
  <2>8. QED
    BY <1>5, <2>1, <2>2, <2>3, <2>4, <2>5, <2>6, <2>7 DEF RankZeroStep
<1>6. CASE TrainToSave
  <2>1. \A s \in Steps : mtime[s] <= attempt => mtime[s] <= attempt + 1
    BY SMT DEF CommitTypeOK
  <2>2. pc'[0] = "barrier" /\ vote'["commit"][0] = "none"
    BY <1>6 DEF TrainToSave, NoVotes
  <2>3. QED
    BY <1>6, <2>1, <2>2 DEF TrainToSave, CommitIsNewest
<1>7. CASE Teardown \/ PowerLoss
  BY <1>7, <1>2 DEF Teardown, PowerLoss, Gathers
<1>8. CASE Restart
  BY <1>8, <1>2 DEF Restart, ResumeRoot, ResumeExplicit, FreshStart, StartFrom, Gathers
<1>9. CASE UNCHANGED commitVars
  BY <1>1, <1>9 DEF commitVars
<1>10. QED
  BY <1>3, <1>4, <1>5, <1>6, <1>7, <1>8, <1>9 DEF CommitNext

-----------------------------------------------------------------------------
\* A resume from the output directory finds the reported checkpoint, if no
\* later one.
LEMMA ResumeReachesReported ==
  ASSUME CommitTypeOK, ReportedSurvives, ResumeRoot
  PROVE  global_step' >= reported
<1>1. PICK s \in Steps : StartFrom(s) /\ s \in Valid /\ \A t \in Valid : t <= s
  BY DEF ResumeRoot
<1>2. global_step' = s /\ s \in Int /\ s >= 0
  BY <1>1, SMT DEF StartFrom, Valid, Steps
<1>3. reported \in 0 .. MaxStep
  BY DEF CommitTypeOK
<1>4. CASE reported = 0
  BY <1>2, <1>4, SMT
<1>5. CASE reported # 0
  <2>1. reported \in Valid
    BY <1>3, <1>5, SMT DEF ReportedSurvives, Valid, Steps
  <2>2. QED
    BY <1>1, <1>2, <1>3, <2>1, SMT
<1>6. QED
  BY <1>4, <1>5

LEMMA BeyondStep ==
  CommitTypeOK /\ GathersOrdered /\ ReportedSurvives /\ BeyondReported /\ [CommitNext]_commitVars
    => BeyondReported'
<1> SUFFICES ASSUME CommitTypeOK, GathersOrdered, ReportedSurvives, BeyondReported, [CommitNext]_commitVars
             PROVE  BeyondReported'
  OBVIOUS
<1> USE RankZero
<1> "commit" \in Gathers
  BY DEF Gathers
<1>1. ASSUME UNCHANGED <<global_step, reported>>,
             \A r \in Ranks : pc'[r] \in Gathers => pc[r] \in Gathers,
             \/ vote'["commit"][0] = vote["commit"][0]
             \/ vote["commit"][0] # "ok" /\ vote'["commit"][0] # "ok"
      PROVE  BeyondReported'
  BY <1>1 DEF BeyondReported
<1>2. ASSUME reported' <= global_step', \A r \in Ranks : pc'[r] \notin Gathers
      PROVE  BeyondReported'
  BY <1>2 DEF BeyondReported
<1>3. ASSUME NEW r \in Ranks, RankStep(r) PROVE BeyondReported'
  <2>1. CASE \/ EnterBarrier(r) \/ PrepareSave(r) \/ FinishSave(r) \/ ShareSchedule(r)
             \/ RunCallback(r) \/ Preflight(r) \/ AwaitRotate(r)
    <3>1. PICK p \in Gathers \ {"commit"} :
             PlainPhase(r, p, {"ok"}) \/ PlainPhase(r, p, {"ok", "error"})
      BY <2>1 DEF EnterBarrier, PrepareSave, FinishSave, ShareSchedule,
                  RunCallback, Preflight, AwaitRotate, Gathers
    <3>2. vote'["commit"][0] = vote["commit"][0]
      BY <3>1, VotesAreFinal DEF PlainPhase
    <3>3. QED
      BY <3>1, <3>2, <1>1 DEF PlainPhase
  <2>2. CASE AwaitBegin(r) \/ AwaitCommit(r)
    <3>1. PICK p \in Gathers : r # 0 /\ PlainPhase(r, p, {"ok"})
      BY <2>2 DEF AwaitBegin, AwaitCommit, Gathers
    <3>2. vote'["commit"][0] = vote["commit"][0]
      BY <3>1, VotesAreFinal DEF PlainPhase
    <3>3. QED
      BY <3>1, <3>2, <1>1 DEF PlainPhase
  <2>3. CASE \E a \in Owned(r) : WriteArtifact(r, a)
    BY <2>3, <1>1 DEF WriteArtifact
  <2>4. CASE FailSave(r)
    <3>1. /\ Working(r, "save") /\ Contribute(r, "save", "error")
          /\ UNCHANGED <<pc, global_step, reported>> /\ "save" \in Gathers
      BY <2>4 DEF FailSave, Gathers
    <3>2. vote'["commit"][0] = vote["commit"][0]
      BY <3>1, VotesAreFinal
    <3>3. QED
      BY <3>1, <3>2, <1>1
  <2>5. CASE Converge(r)
    <3>1. UNCHANGED <<vote, global_step, reported>> /\ pc[r] \in Gathers
          /\ \A q \in Ranks : q # r => pc'[q] = pc[q]
      BY <2>5 DEF Converge, CommitTypeOK
    <3>2. QED
      BY <3>1, <1>1
  <2>6. QED
    BY <1>3, <2>1, <2>2, <2>3, <2>4, <2>5 DEF RankStep
<1>4. ASSUME NEW r \in Ranks, Die(r) PROVE BeyondReported'
  <2>1. UNCHANGED <<vote, global_step, reported>>
        /\ \A q \in Ranks : pc'[q] \in Gathers => pc[q] \in Gathers
    BY <1>4 DEF Die, CommitTypeOK, Gathers
  <2>2. QED
    BY <2>1, <1>1
<1>5. CASE RankZeroStep
  <2>1. CASE RevokeManifest \/ FsyncArtifacts \/ PublishManifest
    BY <2>1, <1>1 DEF RevokeManifest, FsyncArtifacts, PublishManifest
  <2>2. CASE FinishBegin \/ FailBegin \/ Rotate \/ FailRotate
    <3>1. PICK p \in {"begin", "rotate"}, status \in {"ok", "error"} :
             Working(0, p) /\ Contribute(0, p, status) /\ UNCHANGED <<pc, global_step, reported>>
      BY <2>2 DEF FinishBegin, FailBegin, Rotate, FailRotate
    <3>2. p \in Gathers /\ p # "commit"
      BY <3>1 DEF Gathers
    <3>3. vote'["commit"][0] = vote["commit"][0]
      BY <3>1, <3>2, VotesAreFinal
    <3>4. QED
      BY <3>1, <3>3, <1>1
  <2>3. CASE FinishCommit
    <3>1. vote'["commit"][0] = "ok" /\ global_step' = global_step /\ reported' = global_step
      BY <2>3 DEF FinishCommit, Contribute, CommitTypeOK
    <3>2. global_step <= global_step
      BY SMT DEF CommitTypeOK
    <3>3. QED
      BY <3>1, <3>2 DEF BeyondReported
  <2>4. CASE FailCommit
    <3>1. vote["commit"][0] = "none" /\ vote'["commit"][0] = "error"
          /\ UNCHANGED <<pc, global_step, reported>>
      BY <2>4 DEF FailCommit, Contribute, Working, CommitTypeOK
    <3>2. QED
      BY <3>1, <1>1
  <2>5. QED
    BY <1>5, <2>1, <2>2, <2>3, <2>4 DEF RankZeroStep
<1>6. CASE TrainToSave
  <2>1. reported < global_step + 1 /\ reported <= global_step + 1
    BY SMT DEF CommitTypeOK, BeyondReported
  <2>2. global_step' = global_step + 1 /\ reported' = reported /\ vote'["commit"][0] = "none"
    BY <1>6 DEF TrainToSave, NoVotes
  <2>3. QED
    BY <2>1, <2>2 DEF BeyondReported
<1>7. CASE Teardown \/ PowerLoss
  <2>1. global_step' = global_step /\ reported' \in {0, reported}
    BY <1>7, PowerLossViews DEF Teardown, PowerLoss
  <2>2. reported' <= global_step'
    BY <2>1, SMT DEF BeyondReported, CommitTypeOK
  <2>3. QED
    BY <1>7, <2>2, <1>2 DEF Teardown, PowerLoss, Gathers
<1>8. CASE Restart
  <2>1. reported' <= global_step'
    <3>1. CASE ResumeRoot
      <4>1. global_step' \in Int /\ reported' = reported
        BY <3>1, SMT DEF ResumeRoot, StartFrom, Valid, Steps
      <4>2. QED
        BY <3>1, <4>1, ResumeReachesReported, SMT DEF CommitTypeOK
    <3>2. CASE FreshStart
      BY <3>2, SMT DEF FreshStart, StartFrom
    <3>3. ASSUME NEW s \in Steps, ResumeExplicit(s) PROVE reported' <= global_step'
      BY <3>3, SMT DEF ResumeExplicit, StartFrom, Steps, CommitTypeOK
    <3>4. QED
      BY <1>8, <3>1, <3>2, <3>3 DEF Restart
  <2>2. QED
    BY <1>8, <2>1, <1>2 DEF Restart, ResumeRoot, ResumeExplicit, FreshStart, StartFrom, Gathers
<1>9. CASE UNCHANGED commitVars
  BY <1>1, <1>9 DEF commitVars
<1>10. QED
  BY <1>3, <1>4, <1>5, <1>6, <1>7, <1>8, <1>9 DEF CommitNext

-----------------------------------------------------------------------------
\* Rotation after a commit does not touch the directory it has just committed:
\* it is the newest of all, and at least one is kept.
LEMMA CommittedIsNoVictim ==
  ASSUME CommitTypeOK, GathersOrdered, CommitIsNewest, pc[0] = "rotate"
  PROVE  global_step \notin Victims
<1> USE RankZero
<1>1. global_step \in Steps /\ attempt \in Nat /\ pc[0] \in Gathers /\ vote["commit"][0] = "ok"
  BY CommitVote, SMT DEF GathersOrdered, Gathers
<1>2. mtime[global_step] = attempt
  BY <1>1 DEF CommitIsNewest
<1>3. ASSUME NEW t \in Steps PROVE ~ (mtime[t] > mtime[global_step])
  <2>1. mtime[t] <= attempt /\ mtime[t] \in Int
    BY SMT DEF CommitIsNewest, CommitTypeOK
  <2>2. QED
    BY <1>1, <1>2, <2>1, SMT
<1>4. Newer(global_step) = {}
  BY <1>3 DEF Newer
<1>5. Cardinality(Newer(global_step)) = 0
  BY <1>4, FS_EmptySet
<1>6. QED
  BY <1>5, SMT DEF Victims

\* The checkpoint that a commit completes: all of it is on disk, and durable.
LEMMA FinishedIsDurable ==
  ASSUME CommitTypeOK, GathersOrdered, CommitProgress, FinishCommit
  PROVE  /\ global_step \in Steps
         /\ Validates(disk[global_step])
         /\ stable' = [stable EXCEPT ![global_step] = disk[global_step]]
<1> USE RankZero
<1>1. Working(0, "commit") /\ io = "published"
      /\ stable' = [stable EXCEPT ![global_step].manifest = disk[global_step].manifest]
  BY DEF FinishCommit
<1>2. global_step \in Steps
  BY <1>1 DEF Working, GathersOrdered, Gathers
<1>3. /\ Committable(disk[global_step]) /\ stable[global_step].files = disk[global_step].files
      /\ disk[global_step].manifest = disk[global_step].files
  BY <1>1 DEF CommitProgress
<1>4. disk[global_step].manifest # NoManifest
  <2>1. disk[global_step].manifest[Model] # Absent
    BY <1>3, ModelIsArtifact DEF Committable
  <2>2. NoManifest[Model] = Absent
    BY ModelIsArtifact DEF NoManifest, Empty
  <2>3. QED
    BY <2>1, <2>2
<1>5. Validates(disk[global_step])
  BY <1>3, <1>4 DEF Validates, Committable
<1>6. [stable[global_step] EXCEPT !.manifest = disk[global_step].manifest] = disk[global_step]
  BY <1>2, <1>3 DEF CommitTypeOK, Directory
<1>7. stable' = [stable EXCEPT ![global_step] = disk[global_step]]
  BY <1>1, <1>6
<1>8. QED
  BY <1>2, <1>5, <1>7

\* A power loss that leaves the name of a directory none of whose changes are pending leaves
\* the directory; of the reported one, it leaves the name or reported is reset.
LEMMA PowerLossKeepsReported ==
  ASSUME CommitTypeOK, PowerLoss, reported' # 0, reported \in Steps,
         disk[reported] = stable[reported]
  PROVE  /\ reported' = reported
         /\ disk'[reported] = disk[reported] /\ stable'[reported] = disk[reported]
<1>1. PICK fallen \in SUBSET Steps : \E seen, sure \in [Steps -> Directory] :
           /\ Reboot(seen, sure)
           /\ \A s \in Steps :
                IF s \in fallen
                THEN seen[s] = Nothing /\ sure[s] \in entry[s].former \cup {Nothing}
                ELSE seen[s] = disk[s] /\ sure[s] = stable[s]
           /\ reported' = IF reported \in fallen THEN 0 ELSE reported
  BY PowerLossViews
<1>2. reported \notin fallen /\ reported' = reported
  BY <1>1
<1>3. PICK seen \in [Steps -> Directory], sure \in [Steps -> Directory] :
           /\ Reboot(seen, sure)
           /\ seen[reported] = disk[reported] /\ sure[reported] = stable[reported]
  BY <1>1, <1>2
<1>4. disk'[reported] = seen[reported]
  BY <1>3, RebootKeeps
<1>5. stable' = disk'
  BY DEF PowerLoss
<1>6. QED
  BY <1>2, <1>3, <1>4, <1>5

\* The reported checkpoint survives every step.
LEMMA SurvivesStep == DurableInv /\ [CommitNext]_commitVars => ReportedSurvives'
<1> SUFFICES ASSUME DurableInv, [CommitNext]_commitVars PROVE ReportedSurvives'
  OBVIOUS
<1> USE RankZero DEF DurableInv
<1> "save" \in Gathers /\ "commit" \in Gathers
  BY DEF Gathers
\* It is enough that its directory is not changed.
<1>1. ASSUME reported' = reported,
             reported \in Steps => disk'[reported] = disk[reported]
                                   /\ stable'[reported] = stable[reported]
      PROVE  ReportedSurvives'
  <2>1. reported # 0 => reported \in Steps
    BY SMT DEF CommitTypeOK, Steps
  <2>2. QED
    BY <1>1, <2>1 DEF ReportedSurvives, Validates
<1>2. ASSUME UNCHANGED <<reported, disk, stable>> PROVE ReportedSurvives'
  BY <1>1, <1>2
\* Until its own commit, an attempt changes another directory.
<1>3. ASSUME reported' = reported, NEW r \in Ranks, pc[r] \in Gathers,
             vote["commit"][0] # "ok",
             \A s \in Steps \ {global_step} : disk'[s] = disk[s] /\ stable'[s] = stable[s]
      PROVE  ReportedSurvives'
  <2>1. reported # global_step
    BY <1>3, SMT DEF BeyondReported, CommitTypeOK
  <2>2. QED
    BY <1>1, <1>3, <2>1
<1>4. ASSUME NEW r \in Ranks, Working(r, "save") PROVE vote["commit"][0] # "ok"
  <2>1. Index("save") < Index("commit")
    BY SMT DEF Index
  <2>2. QED
    BY <1>4, <2>1 DEF VotesOrdered, Working
<1>5. ASSUME NEW r \in Ranks, Working(r, "save"), CutShort(r), UNCHANGED <<reported, stable>>
      PROVE  ReportedSurvives'
  <2>1. \A s \in Steps \ {global_step} : disk'[s] = disk[s]
    BY <1>5 DEF CutShort, CommitTypeOK
  <2>2. QED
    BY <1>3, <1>4, <1>5, <2>1 DEF Working
\* In rotation the reported checkpoint is the one just committed.
<1>6. ASSUME pc[0] = "rotate", UNCHANGED reported,
             \A s \in Steps \ Victims : disk'[s] = disk[s] /\ stable'[s] = stable[s]
      PROVE  ReportedSurvives'
  <2>1. pc[0] \in Gathers /\ vote["commit"][0] = "ok"
    BY <1>6, CommitVote DEF Gathers
  <2>2. reported = global_step
    BY <2>1 DEF BeyondReported
  <2>3. QED
    BY <1>1, <1>6, <2>2, CommittedIsNoVictim
<1>7. ASSUME pc[0] = "rotate", PartlyRemoved, UNCHANGED <<reported, stable>>
      PROVE  ReportedSurvives'
  <2>1. \A s \in Steps \ Victims : disk'[s] = disk[s]
    BY <1>7 DEF PartlyRemoved, CommitTypeOK
  <2>2. QED
    BY <1>6, <1>7, <2>1
<1>8. ASSUME NEW r \in Ranks, RankStep(r) PROVE ReportedSurvives'
  <2>1. CASE \/ EnterBarrier(r) \/ AwaitBegin(r) \/ PrepareSave(r) \/ FinishSave(r)
             \/ ShareSchedule(r) \/ RunCallback(r) \/ Preflight(r)
             \/ AwaitCommit(r) \/ AwaitRotate(r) \/ Converge(r)
    BY <2>1, <1>2 DEF EnterBarrier, AwaitBegin, PrepareSave, FinishSave, ShareSchedule,
                  RunCallback, Preflight, AwaitCommit, AwaitRotate, Converge, PlainPhase
  <2>2. ASSUME NEW a \in Owned(r), WriteArtifact(r, a) PROVE ReportedSurvives'
    <3>1. \A s \in Steps \ {global_step} : disk'[s] = disk[s]
      BY <2>2 DEF WriteArtifact, CommitTypeOK
    <3>2. QED
      BY <2>2, <3>1, <1>3, <1>4 DEF WriteArtifact, Working
  <2>3. CASE FailSave(r)
    BY <2>3, <1>5 DEF FailSave
  <2>4. QED
    BY <1>8, <2>1, <2>2, <2>3 DEF RankStep
<1>9. ASSUME NEW r \in Ranks, Die(r) PROVE ReportedSurvives'
  <2>1. UNCHANGED <<reported, stable>>
    BY <1>9 DEF Die
  <2>2. CASE Working(r, "save") /\ CutShort(r)
    BY <2>1, <2>2, <1>5
  <2>3. CASE r = 0 /\ Working(r, "rotate") /\ PartlyRemoved
    BY <2>1, <2>3, <1>7 DEF Working
  <2>4. CASE UNCHANGED disk
    BY <2>1, <2>4, <1>2
  <2>5. QED
    BY <1>9, <2>2, <2>3, <2>4 DEF Die
<1>10. CASE RankZeroStep
  <2>1. CASE RevokeManifest \/ FinishBegin
    <3>1. pc[0] = "begin" /\ reported' = reported
      BY <2>1 DEF RevokeManifest, FinishBegin, Working
    <3>2. pc[0] \in Gathers /\ vote["commit"][0] # "ok"
      BY <3>1, CommitVote DEF Gathers
    <3>3. \A s \in Steps \ {global_step} : disk'[s] = disk[s] /\ stable'[s] = stable[s]
      BY <2>1 DEF RevokeManifest, FinishBegin, CommitTypeOK
    <3>4. QED
      BY <3>1, <3>2, <3>3, <1>3
  <2>2. CASE FailBegin \/ FailCommit
    BY <2>2, <1>2 DEF FailBegin, FailCommit
  <2>3. CASE FsyncArtifacts \/ PublishManifest
    <3>1. pc[0] \in Gathers /\ vote["commit"][0] # "ok" /\ reported' = reported
      BY <2>3 DEF FsyncArtifacts, PublishManifest, Working
    <3>2. \A s \in Steps \ {global_step} : disk'[s] = disk[s] /\ stable'[s] = stable[s]
      BY <2>3 DEF FsyncArtifacts, PublishManifest, CommitTypeOK
    <3>3. QED
      BY <3>1, <3>2, <1>3
  <2>4. CASE FinishCommit
    <3>1. global_step \in Steps /\ Validates(disk[global_step])
          /\ stable' = [stable EXCEPT ![global_step] = disk[global_step]]
      BY <2>4, FinishedIsDurable
    <3>2. reported' = global_step /\ disk' = disk /\ stable'[global_step] = disk[global_step]
      BY <2>4, <3>1 DEF FinishCommit, CommitTypeOK
    <3>3. QED
      BY <3>1, <3>2 DEF ReportedSurvives, Validates
  <2>5. CASE Rotate
    <3>1. \A s \in Steps \ Victims : disk'[s] = disk[s] /\ stable'[s] = stable[s]
      BY <2>5 DEF Rotate
    <3>2. QED
      BY <2>5, <3>1, <1>6 DEF Rotate, Working
  <2>6. CASE FailRotate
    BY <2>6, <1>2, <1>7 DEF FailRotate, Working
  <2>7. QED
    BY <1>10, <2>1, <2>2, <2>3, <2>4, <2>5, <2>6 DEF RankZeroStep
<1>11. CASE TrainToSave \/ Teardown \/ UNCHANGED commitVars
  BY <1>11, <1>2 DEF TrainToSave, Teardown, commitVars
<1>12. CASE PowerLoss
  <2>1. CASE reported' = 0
    BY <2>1 DEF ReportedSurvives
  <2>2. CASE reported' # 0
    <3>1. reported' \in {0, reported}
      BY <1>12, PowerLossViews
    <3>2. reported \in Steps /\ disk[reported] = stable[reported]
      BY <2>2, <3>1, SMT DEF ReportedSurvives, CommitTypeOK, Steps
    <3>3. QED
      BY <1>1, <1>12, <2>2, <3>2, PowerLossKeepsReported
  <2>3. QED
    BY <2>1, <2>2
<1>13. CASE Restart
  <2>1. CASE ResumeRoot
    BY <2>1, <1>2 DEF ResumeRoot, StartFrom
  <2>2. CASE FreshStart
    BY <2>2 DEF FreshStart, ReportedSurvives
  <2>3. ASSUME NEW s \in Steps, ResumeExplicit(s) PROVE ReportedSurvives'
    <3>1. Validates(disk[s]) /\ UNCHANGED <<disk, stable>>
      BY <2>3 DEF ResumeExplicit, Valid, StartFrom
    <3>2. CASE reported' = s /\ disk[s] = stable[s]
      BY <3>1, <3>2 DEF ReportedSurvives, Validates
    <3>3. CASE reported' = 0
      BY <3>3 DEF ReportedSurvives
    <3>4. CASE reported' = reported
      BY <3>1, <3>4, <1>2
    <3>5. QED
      BY <2>3, <3>2, <3>3, <3>4 DEF ResumeExplicit
  <2>4. QED
    BY <1>13, <2>1, <2>2, <2>3 DEF Restart
<1>14. QED
  BY <1>8, <1>9, <1>10, <1>11, <1>12, <1>13 DEF CommitNext

-----------------------------------------------------------------------------
LEMMA DurableInit == CommitInit => DurableInv
<1> SUFFICES ASSUME CommitInit PROVE DurableInv
  OBVIOUS
<1>1. GathersOrdered /\ IoOwned /\ CommitProgress
  BY RankZero DEF CommitInit, GathersOrdered, IoOwned, CommitProgress, Working, Gathers
<1>2. VotesOrdered /\ ReportedSurvives
  BY DEF CommitInit, NoVotes, VotesOrdered, ReportedSurvives
<1>3. CommitIsNewest /\ BeyondReported
  BY RankZero, SMT DEF CommitInit, CommitIsNewest, BeyondReported, Gathers
<1>4. QED
  BY <1>1, <1>2, <1>3, TypeInit DEF DurableInv

THEOREM DurableInvariant == CommitSpec => []DurableInv
<1>1. DurableInv /\ [CommitNext]_commitVars => DurableInv'
  BY TypeStep, OrderedStep, VotesStep, IoStep, ProgressStep, NewestStep, BeyondStep,
     SurvivesStep DEF DurableInv
<1>2. QED
  BY <1>1, DurableInit, PTL DEF CommitSpec

\* A checkpoint whose commit returned stays whole, and all of it durable, through kills,
\* failures, rewriting and rotation, until the next commit returns.  A power loss takes it
\* away with its entry in the output directory, which no commit fsyncs, or leaves it whole;
\* one that a power loss has left is not taken by another.
THEOREM ReportedIsDurable == CommitSpec => []ReportedSurvives
<1>1. DurableInv => ReportedSurvives
  BY DEF DurableInv
<1>2. QED
  BY <1>1, DurableInvariant, PTL

\* A resume from the output directory starts no earlier than the last commit that returned
\* and whose directory no power loss has taken.
THEOREM ResumeKeepsProgress == CommitSpec => ResumeLosesNothing
<1>1. DurableInv /\ [CommitNext]_commitVars => [ResumeRoot => global_step' >= reported]_commitVars
  BY ResumeReachesReported DEF DurableInv
<1>2. QED
  BY <1>1, DurableInvariant, PTL DEF CommitSpec, ResumeLosesNothing

-----------------------------------------------------------------------------
(***************************************************************************)
(* Agreement of the ranks.                                                 *)
(***************************************************************************)
\* A rank raises because of an error some rank reported; a rank trains on when
\* everybody reported none, or when there is no attempt.
AllOk == \A g \in Gathers, r \in Ranks : vote[g][r] = "ok"
RaisedForError == \A p \in Ranks : pc[p] = "raised" =>
                    \E g \in Gathers, q \in Ranks : vote[g][q] = "error"
TrainsWhenOk == \A p \in Ranks : pc[p] = "train" =>
                    AllOk \/ \A r \in Ranks : pc[r] \in {"train", "dead"}
AgreementInv == CommitTypeOK /\ GathersOrdered /\ RaisedForError /\ TrainsWhenOk

\* A rank that leaves its last gather has seen only "ok" in all of them.
LEMMA LeavesRotate ==
  ASSUME GathersOrdered, NEW r \in Ranks, pc[r] = "rotate",
         \A q \in Ranks : vote["rotate"][q] = "ok"
  PROVE  AllOk
<1>1. ASSUME NEW g \in Gathers, NEW q \in Ranks, g # "rotate" PROVE vote[g][q] = "ok"
  <2>1. "rotate" \in Gathers /\ Index(g) < Index("rotate")
    BY <1>1, SMT DEF Gathers, Index
  <2>2. QED
    BY <2>1 DEF GathersOrdered
<1>2. QED
  BY <1>1 DEF AllOk

LEMMA AgreementStep == AgreementInv /\ [CommitNext]_commitVars => RaisedForError' /\ TrainsWhenOk'
<1> SUFFICES ASSUME AgreementInv, [CommitNext]_commitVars PROVE RaisedForError' /\ TrainsWhenOk'
  OBVIOUS
<1> USE RankZero DEF AgreementInv
<1>1. ASSUME NEW r \in Ranks, NEW p \in Gathers, NEW status \in {"ok", "error"},
             Working(r, p), Contribute(r, p, status), UNCHANGED pc
      PROVE  RaisedForError' /\ TrainsWhenOk'
  <2>1. \A g \in Gathers, q \in Ranks : vote[g][q] # "none" => vote'[g][q] = vote[g][q]
    BY <1>1, VotesAreFinal
  <2>2. \A q \in Ranks : pc[q] # "train"
    BY <1>1 DEF TrainsWhenOk, AllOk, Working, Gathers
  <2>3. QED
    BY <1>1, <2>1, <2>2 DEF RaisedForError, TrainsWhenOk
<1>2. ASSUME UNCHANGED <<pc, vote>> PROVE RaisedForError' /\ TrainsWhenOk'
  BY <1>2 DEF RaisedForError, TrainsWhenOk, AllOk
<1>3. ASSUME NEW r \in Ranks, RankStep(r) PROVE RaisedForError' /\ TrainsWhenOk'
  <2>1. CASE \/ EnterBarrier(r) \/ AwaitBegin(r) \/ PrepareSave(r) \/ FinishSave(r)
             \/ ShareSchedule(r) \/ RunCallback(r) \/ Preflight(r)
             \/ AwaitCommit(r) \/ AwaitRotate(r)
    <3>1. \E p \in Gathers : PlainPhase(r, p, {"ok"}) \/ PlainPhase(r, p, {"ok", "error"})
      BY <2>1 DEF EnterBarrier, AwaitBegin, PrepareSave, FinishSave, ShareSchedule,
                  RunCallback, Preflight, AwaitCommit, AwaitRotate, Gathers
    <3>2. QED
      BY <3>1, <1>1 DEF PlainPhase
  <2>2. CASE \E a \in Owned(r) : WriteArtifact(r, a)
    BY <2>2, <1>2 DEF WriteArtifact
  <2>3. CASE FailSave(r)
    BY <2>3, <1>1 DEF FailSave, Gathers
  <2>4. CASE Converge(r)
    <3>1. /\ UNCHANGED vote /\ pc[r] \in Gathers
          /\ \A q \in Ranks : vote[pc[r]][q] # "none"
          /\ pc' = [pc EXCEPT ![r] = IF \A q \in Ranks : vote[pc[r]][q] = "ok"
                                     THEN NextPhase(pc[r]) ELSE "raised"]
      BY <2>4 DEF Converge
    <3>2. CASE \E q \in Ranks : vote[pc[r]][q] # "ok"
      <4>1. \E q \in Ranks : vote[pc[r]][q] = "error"
        BY <3>1, <3>2 DEF CommitTypeOK
      <4>2. RaisedForError'
        BY <3>1, <3>2, <4>1 DEF RaisedForError, CommitTypeOK
      <4>3. \A p \in Ranks : pc[p] # "train"
        BY <3>1, <3>2 DEF TrainsWhenOk, AllOk, Gathers
      <4>4. QED
        BY <3>1, <3>2, <4>2, <4>3 DEF TrainsWhenOk, CommitTypeOK
    <3>3. CASE \A q \in Ranks : vote[pc[r]][q] = "ok"
      <4>1. pc' = [pc EXCEPT ![r] = NextPhase(pc[r])]
        BY <3>1, <3>3
      <4>2. NextPhase(pc[r]) # "raised" /\ (NextPhase(pc[r]) = "train" => pc[r] = "rotate")
        BY <3>1 DEF NextPhase, Gathers
      <4>3. RaisedForError'
        BY <3>1, <4>1, <4>2 DEF RaisedForError, CommitTypeOK
      <4>4. ASSUME NEW p \in Ranks, pc'[p] = "train" PROVE AllOk'
        <5>1. CASE p = r
          BY <3>1, <3>3, <4>1, <4>2, <4>4, <5>1, LeavesRotate DEF AllOk, CommitTypeOK
        <5>2. CASE p # r
          BY <3>1, <4>1, <4>4, <5>2 DEF TrainsWhenOk, AllOk, CommitTypeOK, Gathers
        <5>3. QED
          BY <5>1, <5>2
      <4>5. QED
        BY <4>3, <4>4 DEF TrainsWhenOk
    <3>4. QED
      BY <3>2, <3>3
  <2>5. QED
    BY <1>3, <2>1, <2>2, <2>3, <2>4 DEF RankStep
<1>4. ASSUME NEW r \in Ranks, Die(r) PROVE RaisedForError' /\ TrainsWhenOk'
  <2>1. UNCHANGED vote /\ pc' = [pc EXCEPT ![r] = "dead"]
    BY <1>4 DEF Die
  <2>2. QED
    BY <2>1 DEF RaisedForError, TrainsWhenOk, AllOk, CommitTypeOK
<1>5. CASE RankZeroStep
  <2>1. CASE RevokeManifest \/ FsyncArtifacts \/ PublishManifest
    BY <2>1, <1>2 DEF RevokeManifest, FsyncArtifacts, PublishManifest
  <2>2. CASE FinishBegin \/ FailBegin \/ FinishCommit \/ FailCommit \/ Rotate \/ FailRotate
    BY <2>2, <1>1 DEF FinishBegin, FailBegin, FinishCommit, FailCommit, Rotate, FailRotate,
                      Gathers
  <2>3. QED
    BY <1>5, <2>1, <2>2 DEF RankZeroStep
<1>6. CASE TrainToSave \/ Teardown \/ PowerLoss
  BY <1>6 DEF TrainToSave, Teardown, PowerLoss, RaisedForError, TrainsWhenOk
<1>7. CASE Restart
  BY <1>7 DEF Restart, ResumeRoot, ResumeExplicit, FreshStart, StartFrom, RaisedForError,
              TrainsWhenOk
<1>8. CASE UNCHANGED commitVars
  BY <1>2, <1>8 DEF commitVars
<1>9. QED
  BY <1>3, <1>4, <1>5, <1>6, <1>7, <1>8 DEF CommitNext

\* The ranks leave a save together: none trains on after one raised.
THEOREM RanksRaiseTogether == CommitSpec => []RaiseTogether
<1>1. CommitInit => AgreementInv
  BY TypeInit, RankZero DEF CommitInit, AgreementInv, GathersOrdered, RaisedForError, TrainsWhenOk,
                            Gathers
<1>2. AgreementInv /\ [CommitNext]_commitVars => AgreementInv'
  BY TypeStep, OrderedStep, AgreementStep DEF AgreementInv
<1>3. AgreementInv => RaiseTogether
  BY DEF AgreementInv, RaisedForError, TrainsWhenOk, AllOk, RaiseTogether
<1>4. QED
  BY <1>1, <1>2, <1>3, PTL DEF CommitSpec

-----------------------------------------------------------------------------
\* What the action property PublishOnlyConverged says of a step.
PublishStep ==
    \A s \in Steps :
        disk[s].manifest = NoManifest /\ disk'[s].manifest # NoManifest =>
            \/ \A r \in Ranks : pc'[r] = "down"
            \/ \A r \in Ranks, p \in {"prepare", "save", "schedule", "callback", "preflight"} :
                  vote[p][r] = "ok"

LEMMA PublishesConverged == CommitTypeOK /\ GathersOrdered /\ [CommitNext]_commitVars => PublishStep
<1> SUFFICES ASSUME CommitTypeOK, GathersOrdered, [CommitNext]_commitVars, NEW s \in Steps,
                    disk[s].manifest = NoManifest, disk'[s].manifest # NoManifest
             PROVE  \/ \A r \in Ranks : pc'[r] = "down"
                    \/ \A r \in Ranks, p \in {"prepare", "save", "schedule", "callback",
                                              "preflight"} : vote[p][r] = "ok"
  BY DEF PublishStep
<1> USE RankZero
<1>1. disk' # disk
  OBVIOUS
<1>2. ASSUME NEW r \in Ranks, CutShort(r) PROVE FALSE
  BY <1>2 DEF CutShort, CommitTypeOK, Directory
<1>3. ASSUME PartlyRemoved PROVE FALSE
  <2>1. PICK t \in Victims, gone \in SUBSET Artifacts, keep \in BOOLEAN :
          disk' = [disk EXCEPT ![t] =
                    [files    |-> [a \in Artifacts |-> IF a \in gone THEN Absent
                                                       ELSE @.files[a]],
                     manifest |-> IF keep THEN @.manifest ELSE NoManifest]]
    BY <1>3 DEF PartlyRemoved
  <2>2. disk'[s].manifest \in {disk[s].manifest, NoManifest}
    BY <2>1 DEF CommitTypeOK, Directory
  <2>3. QED
    BY <2>2
<1>4. ASSUME NEW r \in Ranks, RankStep(r) PROVE FALSE
  <2>1. CASE \E a \in Owned(r) : WriteArtifact(r, a)
    BY <2>1 DEF WriteArtifact, CommitTypeOK, Directory
  <2>2. CASE FailSave(r)
    BY <2>2, <1>2 DEF FailSave
  <2>3. QED
    BY <1>1, <1>4, <2>1, <2>2
       DEF RankStep, EnterBarrier, AwaitBegin, PrepareSave, FinishSave, ShareSchedule,
           RunCallback, Preflight, AwaitCommit, AwaitRotate, Converge, PlainPhase
<1>5. ASSUME NEW r \in Ranks, Die(r) PROVE FALSE
  BY <1>1, <1>2, <1>3, <1>5 DEF Die
<1>6. ASSUME RankZeroStep
      PROVE  \A r \in Ranks, p \in {"prepare", "save", "schedule", "callback", "preflight"} :
                vote[p][r] = "ok"
  <2>1. CASE RevokeManifest
    BY <2>1 DEF RevokeManifest, CommitTypeOK, Directory
  <2>2. CASE FinishBegin \/ FailBegin \/ FsyncArtifacts \/ FinishCommit \/ FailCommit
    BY <1>1, <2>2 DEF FinishBegin, FailBegin, FsyncArtifacts, FinishCommit, FailCommit
  <2>3. CASE PublishManifest
    <3>1. pc[0] = "commit" /\ "commit" \in Gathers
      BY <2>3 DEF PublishManifest, Working, Gathers
    <3>2. \A p \in {"prepare", "save", "schedule", "callback", "preflight"} :
             p \in Gathers /\ Index(p) < Index("commit")
      BY SMT DEF Gathers, Index
    <3>3. QED
      BY <3>1, <3>2 DEF GathersOrdered
  <2>4. CASE Rotate
    BY <2>4, NothingType DEF Rotate
  <2>5. CASE FailRotate
    BY <1>1, <1>3, <2>5 DEF FailRotate
  <2>6. QED
    BY <1>6, <2>1, <2>2, <2>3, <2>4, <2>5 DEF RankZeroStep
<1>7. CASE PowerLoss
  BY <1>7 DEF PowerLoss
<1>8. CASE TrainToSave \/ Teardown \/ Restart \/ UNCHANGED commitVars
  BY <1>1, <1>8 DEF TrainToSave, Teardown, Restart, ResumeRoot, ResumeExplicit, FreshStart,
                    StartFrom, commitVars
<1>9. QED
  BY <1>4, <1>5, <1>6, <1>7, <1>8 DEF CommitNext

\* A manifest is published only after every rank saved and ran every callback.
THEOREM PublishedWhenConverged == CommitSpec => PublishOnlyConverged
<1>1. WholeInv /\ [CommitNext]_commitVars => [PublishStep]_commitVars
  BY PublishesConverged DEF WholeInv
<1>2. QED
  BY <1>1, WholeInvariant, PTL DEF CommitSpec, PublishOnlyConverged, PublishStep
=============================================================================
