---------------------------- MODULE TrainerProofs ----------------------------
(***************************************************************************)
(* The histories of the two telemetries, each for any ranks, steps and     *)
(* jobs: the trainer's (EfficiencyTelemetry), with any failing file        *)
(* operation and any kill, and then OPD's (OPDTelemetry).  Then what the   *)
(* sinks of the progress manager get from any threads (ProgressManager),   *)
(* what is reported of the losses over resumes (LossReporting) and what an *)
(* OPD window weighs its tokens by (LossWindow).                           *)
(***************************************************************************)
EXTENDS Histories, LossWindow, LossReporting, ProgressManager, FoldLemmas, SequenceTheorems,
        FiniteSetTheorems, FunctionTheorems, TLAPS

Phases == {"down", "train", "begin", "reporting", "prepare", "prepared", "save", "validate",
           "revoke", "write", "manifest", "recheck", "commit", "undo"}

\* Phases the ranks may be in at the same time, if no marker publishes the save.
Early == {"begin", "reporting", "prepared"}

\* The histories h are those of the last steps of lineage l, since one step for all ranks.
HistoryOf(h, l) ==
    \A r \in Ranks :
        /\ h[r].frames = SubSeq(l, h[r].initial + 1, Len(l))
        /\ h[r].initial <= Len(l)
        /\ h[r].initial = h[0].initial /\ h[r].generation = h[0].generation

\* Between preparing and committing the transaction hides the snapshots.
Hidden ==
    \/ pc[0] = "prepare" /\ vote[0] = "ok"
    \/ pc[0] = "prepared" /\ vote[0] # "failed"
    \/ pc[0] \in {"save", "validate", "revoke", "write", "manifest", "recheck", "undo"}
    \/ pc[0] = "commit" /\ vote[0] # "ok"

ModelWritten ==
    \/ pc[0] = "save" /\ vote[0] = "ok"
    \/ pc[0] \in {"validate", "write", "manifest", "recheck", "commit"}
    \/ pc[0] = "revoke" /\ Persists

Written(r) ==
    \/ pc[0] = "write" /\ vote[r] = "ok"
    \/ pc[0] \in {"manifest", "recheck", "commit"}

Shape ==
    /\ TypeOK
    /\ pc \in [Ranks -> Phases]
    /\ pc[0] # "down" => job \in 1 .. MaxJobs
    /\ pc[0] \notin {"down", "train"} => step \in Steps
    /\ pc[0] \in {"validate", "write", "manifest", "recheck", "commit"} => Persists

Aligned ==
    /\ WithMarker \/ (\E r \in Ranks : pc[r] \notin Early) => \A q, r \in Ranks : pc[q] = pc[r]
    /\ \A r \in Peers : pc[r] = "commit" => vote[r] # "failed"
    /\ \A r \in Ranks : pc[r] \in {"down", "train"} => vote[r] = "none"

\* What a committed transaction promises, whatever is running.
CommittedIsTrained ==
    /\ \A s \in Steps : model[s] # <<>> => Len(model[s]) = s
    /\ \A s \in Steps : txn[s].state = "committed" =>
           Len(model[s]) = s /\ HistoryOf(snaps[s], model[s])

SaveInOrder ==
    /\ Hidden => txn[step].state # "committed"
    /\ ModelWritten => model[step] = lineage
    /\ \A r \in Ranks : Written(r) => snaps[step][r] = history[r]

MonitorIsTrained == mode # "off" => HistoryOf(history, lineage)

TelemetryInv ==
    /\ Shape /\ Aligned /\ MonitorIsTrained
    /\ CommittedIsTrained /\ SaveInOrder

-----------------------------------------------------------------------------
USE TelemetryAssumption

LEMMA InitInv ==
    ASSUME Init
    PROVE  TelemetryInv
<1>1. <<>> \in Seq(1 .. MaxJobs) /\ Len(<<>>) = 0 BY EmptySeq
<1>2. None \in Snapshot BY <1>1 DEF None, Snapshot
<1>3. Shape
  <2>1. /\ lineage \in Seq(1 .. MaxJobs) /\ step <= MaxStep
        /\ model \in [Steps -> Seq(1 .. MaxJobs)]
    BY <1>1 DEF Init, step
  <2>2. history \in [Ranks -> Snapshot] /\ snaps \in [Steps -> [Ranks -> Snapshot]]
    BY <1>2 DEF Init, All
  <2>3. txn \in [Steps -> [state : {"none", "pending", "committed", "revoked"},
                           generation : 0 .. MaxJobs]]
    BY DEF Init, Transaction
  <2>4. /\ job \in 0 .. MaxJobs /\ mode \in {"on", "unsaved", "off"}
        /\ vote \in [Ranks -> {"none", "ok", "failed"}]
        /\ set \in [Steps -> 0 .. MaxJobs]
    BY DEF Init, All
  <2>5. pc \in [Ranks -> Phases] /\ pc[0] = "down"
    BY DEF Init, All, Phases, Ranks
  <2> QED BY <2>1, <2>2, <2>3, <2>4, <2>5 DEF Shape, TypeOK
<1>4. Aligned BY DEF Init, Aligned, All, Early, Ranks
<1>5. MonitorIsTrained BY DEF Init, MonitorIsTrained
<1>6. CommittedIsTrained BY DEF Init, CommittedIsTrained, Transaction
<1>7. SaveInOrder BY DEF Init, SaveInOrder, Hidden, ModelWritten, Written, All, Ranks
<1> QED BY <1>3, <1>4, <1>5, <1>6, <1>7 DEF TelemetryInv

\* What a rank's vote in its phase leaves of the ranks' alignment.
LEMMA VoteAligned ==
    ASSUME TelemetryInv, NEW r \in Ranks, NEW p, NEW v \in {"ok", "failed"}, Votes(r, p, v),
           p \notin {"down", "train"},
           r # 0 /\ p = "commit" => v = "ok"
    PROVE  /\ Aligned' /\ vote' \in [Ranks -> {"none", "ok", "failed"}]
           /\ \A q \in Ranks \ {r} : vote'[q] = vote[q]
           /\ vote'[r] = v /\ pc[r] = p /\ vote[r] = "none" /\ pc[0] \in Phases
           /\ p \notin Early => pc[0] = p
           /\ p \in Early => pc[0] \in Early
           /\ UNCHANGED <<job, mode, lineage, history, pc, step>>
<1>1. /\ vote' = [vote EXCEPT ![r] = v] /\ pc[r] = p /\ vote[r] = "none"
      /\ UNCHANGED <<job, mode, lineage, history, pc>>
  BY DEF Votes
<1>2. /\ vote \in [Ranks -> {"none", "ok", "failed"}] /\ 0 \in Ranks
      /\ pc \in [Ranks -> Phases]
  BY DEF TelemetryInv, Shape, TypeOK, Ranks
<1>3. Aligned' BY <1>1, <1>2 DEF TelemetryInv, Aligned, Ranks
<1>4. (p \notin Early => pc[0] = p) /\ (p \in Early => pc[0] \in Early)
  BY <1>1, <1>2 DEF TelemetryInv, Aligned
<1> QED BY <1>1, <1>2, <1>3, <1>4 DEF step

\* A vote that changes no file, and whose phase promises nothing by it.
LEMMA VoteKeeps ==
    ASSUME TelemetryInv, NEW r \in Ranks, NEW p, NEW v \in {"ok", "failed"}, Votes(r, p, v),
           UNCHANGED disk,
           p \notin {"down", "train", "write"},
           r # 0 /\ p = "commit" => v = "ok",
           p = "prepared" => v = "ok",
           r = 0 => p \in {"begin", "reporting", "prepared", "validate", "recheck"}
    PROVE  TelemetryInv'
<1>1. /\ Aligned' /\ vote' \in [Ranks -> {"none", "ok", "failed"}]
      /\ \A q \in Ranks \ {r} : vote'[q] = vote[q]
      /\ vote'[r] = v /\ pc[r] = p /\ vote[r] = "none" /\ pc[0] \in Phases
      /\ p \notin Early => pc[0] = p
      /\ p \in Early => pc[0] \in Early
      /\ UNCHANGED <<job, mode, lineage, history, pc, step>>
  BY VoteAligned
<1>2. UNCHANGED <<model, txn, set, snaps>> BY DEF disk
<1>3. Shape' BY <1>1, <1>2 DEF TelemetryInv, Shape, TypeOK, Persists
<1>4. MonitorIsTrained' BY <1>1 DEF TelemetryInv, MonitorIsTrained, HistoryOf
<1>5. CommittedIsTrained' BY <1>2 DEF TelemetryInv, CommittedIsTrained, HistoryOf
<1>6. SaveInOrder'
  <2>1. pc[0] # "write" BY <1>1 DEF Early
  <2>2. Hidden' = Hidden /\ ModelWritten' = ModelWritten
    <3>1. CASE r = 0
      BY <1>1, <3>1 DEF Hidden, ModelWritten, Persists
    <3>2. CASE r # 0
      <4>1. vote'[0] = vote[0] /\ pc'[0] = pc[0] /\ mode' = mode BY <1>1, <3>2 DEF Ranks
      <4> QED BY <4>1 DEF Hidden, ModelWritten, Persists
    <3> QED BY <3>1, <3>2
  <2>3. \A q \in Ranks : Written(q)' = Written(q) BY <1>1, <2>1 DEF Written
  <2> QED BY <1>1, <1>2, <2>2, <2>3 DEF TelemetryInv, SaveInOrder
<1> QED BY <1>1, <1>3, <1>4, <1>5, <1>6 DEF TelemetryInv

\* Between jobs, while a model trains and while a save begins no checkpoint is touched.
LEMMA OutsideSave ==
    ASSUME TelemetryInv, UNCHANGED disk,
           pc'[0] \in {"down", "train", "begin", "reporting"}
    PROVE  CommittedIsTrained' /\ SaveInOrder'
<1>1. CommittedIsTrained' BY DEF disk, TelemetryInv, CommittedIsTrained, HistoryOf
<1>2. SaveInOrder' BY DEF SaveInOrder, Hidden, ModelWritten, Written
<1> QED BY <1>1, <1>2

\* A history under a new generation has no frames, and the model no steps since it began.
LEMMA FreshIsTrained ==
    ASSUME NEW s \in 0 .. MaxStep, NEW l \in Seq(1 .. MaxJobs), Len(l) = s,
           job' \in 0 .. MaxJobs
    PROVE  All(Fresh(s)) \in [Ranks -> Snapshot] /\ HistoryOf(All(Fresh(s)), l)
<1>1. <<>> \in Seq(1 .. MaxJobs) BY EmptySeq
<1>2. Fresh(s) \in Snapshot BY <1>1 DEF Fresh, Snapshot
<1>3. SubSeq(l, s + 1, s) = <<>>
  <2>1. Len(SubSeq(l, s + 1, s)) = 0 /\ SubSeq(l, s + 1, s) \in Seq(1 .. MaxJobs)
    BY SubSeqProperties
  <2> QED BY <2>1, EmptySeq
<1>4. HistoryOf(All(Fresh(s)), l)
  <2> DEFINE h == All(Fresh(s))
  <2>1. \A r \in Ranks : h[r].frames = <<>> /\ h[r].initial = s /\ h[r].generation = job'
    BY DEF All, Fresh
  <2>2. 0 \in Ranks /\ s <= Len(l) BY DEF Ranks
  <2> HIDE DEF h
  <2>3. HistoryOf(h, l) BY <1>3, <2>1, <2>2 DEF HistoryOf
  <2> QED BY <2>3 DEF h
<1> QED BY <1>2, <1>4 DEF All

\* A job takes up the history that is the model's own, or begins a new one.
LEMMA StartKeeps ==
    ASSUME TelemetryInv, NEW m \in {"on", "unsaved", "off"}, NEW s \in 0 .. MaxStep,
           NEW blind \in SUBSET Ranks, StartJob(m, s, blind)
    PROVE  TelemetryInv'
<1>1. /\ job' = job + 1 /\ mode' = m /\ pc' = All("train") /\ vote' = All("none")
      /\ UNCHANGED disk /\ UNCHANGED <<model, txn, set, snaps>>
      /\ lineage' = IF s = 0 THEN <<>> ELSE model[s]
      /\ history' = CASE m = "off" -> All(None)
                      [] m # "off" /\ s = 0 -> All(Fresh(0))
                      [] OTHER -> Restore(s, blind)
  BY DEF StartJob, disk
<1>2. job' \in 1 .. MaxJobs BY DEF StartJob, TelemetryInv, Shape, TypeOK
<1>3. pc'[0] = "train" /\ pc' \in [Ranks -> Phases] BY <1>1 DEF All, Ranks, Phases
<1>4. lineage' \in Seq(1 .. MaxJobs) /\ Len(lineage') = s
  <2>1. <<>> \in Seq(1 .. MaxJobs) /\ Len(<<>>) = 0 BY EmptySeq
  <2>2. CASE s = 0 BY <1>1, <2>1, <2>2
  <2>3. CASE s > 0
    <3>1. s \in Steps /\ model[s] # <<>> BY <2>3 DEF StartJob, Steps
    <3>2. model[s] \in Seq(1 .. MaxJobs) /\ Len(model[s]) = s
      BY <3>1 DEF TelemetryInv, Shape, TypeOK, CommittedIsTrained
    <3> QED BY <1>1, <2>3, <3>2
  <2> QED BY <2>2, <2>3
<1>5. All(Fresh(s)) \in [Ranks -> Snapshot] /\ HistoryOf(All(Fresh(s)), lineage')
  BY <1>2, <1>4, FreshIsTrained
<1>6. history' \in [Ranks -> Snapshot] /\ (m # "off" => HistoryOf(history', lineage'))
  <2>1. CASE m = "off"
    <3>1. <<>> \in Seq(1 .. MaxJobs) BY EmptySeq
    <3> QED BY <1>1, <2>1, <3>1 DEF All, None, Snapshot
  <2>2. CASE m # "off" /\ s = 0
    <3>1. history' = All(Fresh(s)) BY <1>1, <2>2
    <3> QED BY <1>5, <3>1
  <2>3. CASE m # "off" /\ s > 0
    <3>1. history' = Restore(s, blind) BY <1>1, <2>3
    <3>2. CASE history' = All(Fresh(s)) BY <1>5, <3>2
    <3>3. CASE history' # All(Fresh(s))
      <4>1. /\ history' = snaps[s]
            /\ \A r \in Ranks : r \notin blind /\ Readable(r, s)
        BY <3>1, <3>3 DEF Restore
      <4>2. s \in Steps /\ 0 \in Ranks BY <2>3 DEF Steps, Ranks
      <4>3. txn[s].state = "committed" BY <4>1, <4>2 DEF Readable
      <4>4. HistoryOf(snaps[s], model[s]) BY <4>2, <4>3 DEF TelemetryInv, CommittedIsTrained
      <4>5. lineage' = model[s] BY <1>1, <2>3
      <4>6. snaps[s] \in [Ranks -> Snapshot] BY <4>2 DEF TelemetryInv, Shape, TypeOK
      <4> QED BY <4>1, <4>4, <4>5, <4>6
    <3> QED BY <3>2, <3>3
  <2> QED BY <2>1, <2>2, <2>3
<1>7. Shape'
  <2>1. mode' \in {"on", "unsaved", "off"} /\ vote' \in [Ranks -> {"none", "ok", "failed"}]
    BY <1>1 DEF All
  <2>2. step' <= MaxStep BY <1>4 DEF step
  <2> QED BY <1>1, <1>2, <1>3, <1>4, <1>6, <2>1, <2>2 DEF TelemetryInv, Shape, TypeOK
<1>8. Aligned' BY <1>1 DEF Aligned, All, Early, Ranks
<1>9. MonitorIsTrained' BY <1>1, <1>6 DEF MonitorIsTrained, HistoryOf
<1> QED BY <1>1, <1>3, <1>7, <1>8, <1>9, OutsideSave DEF TelemetryInv

LEMMA AppendToSuffix ==
    ASSUME NEW S, NEW l \in Seq(S), NEW e \in S, NEW i \in Nat, i <= Len(l)
    PROVE  SubSeq(Append(l, e), i + 1, Len(l) + 1) = Append(SubSeq(l, i + 1, Len(l)), e)
<1> DEFINE a == SubSeq(Append(l, e), i + 1, Len(l) + 1)
           b == Append(SubSeq(l, i + 1, Len(l)), e)
<1>1. /\ Append(l, e) \in Seq(S) /\ Len(Append(l, e)) = Len(l) + 1
      /\ \A k \in 1 .. Len(l) : Append(l, e)[k] = l[k]
      /\ Append(l, e)[Len(l) + 1] = e
  BY AppendProperties
<1>2. /\ a \in Seq(S) /\ Len(a) = Len(l) + 1 - i
      /\ \A k \in 1 .. Len(l) + 1 - i : a[k] = Append(l, e)[i + k]
  BY <1>1, SubSeqProperties
<1>3. /\ SubSeq(l, i + 1, Len(l)) \in Seq(S) /\ Len(SubSeq(l, i + 1, Len(l))) = Len(l) - i
      /\ \A k \in 1 .. Len(l) - i : SubSeq(l, i + 1, Len(l))[k] = l[i + k]
  BY SubSeqProperties
<1>4. /\ b \in Seq(S) /\ Len(b) = Len(l) - i + 1
      /\ \A k \in 1 .. Len(l) - i : b[k] = l[i + k]
      /\ b[Len(l) - i + 1] = e
  BY <1>3, AppendProperties
<1>5. \A k \in 1 .. Len(a) : a[k] = b[k]
  <2> SUFFICES ASSUME NEW k \in 1 .. Len(l) + 1 - i PROVE a[k] = b[k] BY <1>2
  <2>1. CASE k <= Len(l) - i
    <3>1. i + k \in 1 .. Len(l) /\ k \in 1 .. Len(l) - i BY <2>1
    <3> QED BY <1>1, <1>2, <1>4, <3>1
  <2>2. CASE k = Len(l) + 1 - i
    <3>1. i + k = Len(l) + 1 /\ k = Len(l) - i + 1 BY <2>2
    <3> QED BY <1>1, <1>2, <1>4, <3>1
  <2>3. k <= Len(l) - i \/ k = Len(l) + 1 - i
    <3>1. k \in Int /\ Len(l) \in Int /\ k <= Len(l) + 1 - i OBVIOUS
    <3> QED BY <3>1
  <2> HIDE DEF a, b
  <2> QED BY <2>1, <2>2, <2>3
<1>6. Len(a) = Len(b) BY <1>2, <1>4
<1>7. a = b
  <2> HIDE DEF a, b
  <2> QED BY <1>2, <1>4, <1>5, <1>6, SeqEqual
<1> QED BY <1>7

\* The step is added to the model's lineage and to every monitor that keeps a history.
LEMMA TrainKeeps ==
    ASSUME TelemetryInv, NEW saving \in BOOLEAN, Train(saving)
    PROVE  TelemetryInv'
<1>1. /\ 0 \in Ranks /\ pc[0] = "train" /\ step < MaxStep
      /\ lineage' = Append(lineage, job)
      /\ UNCHANGED <<job, mode, vote>> /\ UNCHANGED disk /\ UNCHANGED <<model, txn, set, snaps>>
      /\ pc' = All("begin") \/ pc' = All("train")
  <2>1. pc = All("train")
    BY DEF Train, At, TelemetryInv, Shape, All
  <2> QED BY <2>1 DEF Train, disk, Ranks, All
<1>2. /\ job \in 1 .. MaxJobs /\ lineage \in Seq(1 .. MaxJobs) /\ Len(lineage) \in Nat
      /\ history \in [Ranks -> Snapshot]
  BY <1>1 DEF TelemetryInv, Shape, TypeOK
<1>3. lineage' \in Seq(1 .. MaxJobs) /\ Len(lineage') = Len(lineage) + 1
  BY <1>1, <1>2, AppendProperties
<1>4. step' \in Steps /\ step' <= MaxStep BY <1>1, <1>2, <1>3 DEF step, Steps
<1>5. pc'[0] \in {"train", "begin"} /\ pc' \in [Ranks -> Phases]
  BY <1>1 DEF All, Ranks, Phases
<1>6. history' \in [Ranks -> Snapshot]
  <2>1. CASE mode = "off" BY <1>2, <2>1 DEF Train
  <2>2. CASE mode # "off"
    <3>1. history' = [r \in Ranks |-> [history[r] EXCEPT !.frames = Append(@, job)]]
      BY <2>2 DEF Train
    <3>2. \A h \in Snapshot : [h EXCEPT !.frames = Append(@, job)] \in Snapshot
      <4> SUFFICES ASSUME NEW h \in Snapshot
                   PROVE  [h EXCEPT !.frames = Append(@, job)] \in Snapshot
        OBVIOUS
      <4>1. Append(h.frames, job) \in Seq(1 .. MaxJobs)
        BY <1>2, AppendProperties DEF Snapshot
      <4> QED BY <4>1 DEF Snapshot
    <3> QED BY <1>2, <3>1, <3>2
  <2> QED BY <2>1, <2>2
<1>7. MonitorIsTrained'
  <2> SUFFICES ASSUME mode # "off", NEW r \in Ranks
               PROVE  /\ history'[r].frames = SubSeq(lineage', history'[r].initial + 1, Len(lineage'))
                      /\ history'[r].initial <= Len(lineage')
                      /\ history'[r].initial = history'[0].initial
                      /\ history'[r].generation = history'[0].generation
    BY <1>1 DEF MonitorIsTrained, HistoryOf
  <2>1. \A q \in Ranks : /\ history'[q].frames = Append(history[q].frames, job)
                         /\ history'[q].initial = history[q].initial
                         /\ history'[q].generation = history[q].generation
    <3>1. history' = [q \in Ranks |-> [history[q] EXCEPT !.frames = Append(@, job)]]
      BY DEF Train
    <3> QED BY <1>2, <3>1 DEF Snapshot
  <2>2. /\ history[r].frames = SubSeq(lineage, history[r].initial + 1, Len(lineage))
        /\ history[r].initial <= Len(lineage) /\ history[r].initial \in Nat
        /\ history[r].initial = history[0].initial
        /\ history[r].generation = history[0].generation
    BY <1>2 DEF TelemetryInv, MonitorIsTrained, HistoryOf, Snapshot
  <2>3. SubSeq(Append(lineage, job), history[r].initial + 1, Len(lineage) + 1)
            = Append(SubSeq(lineage, history[r].initial + 1, Len(lineage)), job)
    <3>1. lineage \in Seq(1 .. MaxJobs) /\ job \in 1 .. MaxJobs BY <1>2
    <3> QED BY <3>1, <2>2, AppendToSuffix, Zenon
  <2>4. history'[r].initial = history[r].initial /\ history'[0].initial = history[0].initial
        /\ history'[0].generation = history[0].generation
    <3>1. 0 \in Ranks BY DEF Ranks
    <3> QED BY <2>1, <3>1
  <2>5. history'[r].frames = SubSeq(lineage', history'[r].initial + 1, Len(lineage'))
    BY <1>1, <1>3, <2>1, <2>2, <2>3
  <2>6. history'[r].initial <= Len(lineage') BY <1>2, <1>3, <2>2, <2>4
  <2> QED BY <2>1, <2>2, <2>4, <2>5, <2>6
<1>8. Shape'
  BY <1>1, <1>2, <1>3, <1>4, <1>5, <1>6 DEF TelemetryInv, Shape, TypeOK
<1>9. Aligned' BY <1>1 DEF TelemetryInv, Aligned, All, Early, Ranks
<1> QED BY <1>1, <1>5, <1>7, <1>8, <1>9, OutsideSave DEF TelemetryInv

LEMMA StopKeeps ==
    ASSUME TelemetryInv, Stop
    PROVE  TelemetryInv'
<1>1. /\ pc' = All("down") /\ vote' = All("none") /\ UNCHANGED <<job, mode, lineage, history>>
      /\ UNCHANGED disk /\ UNCHANGED <<model, txn, set, snaps>>
  BY DEF Stop, disk
<1>2. pc'[0] = "down" /\ pc' \in [Ranks -> Phases] /\ vote' \in [Ranks -> {"none", "ok", "failed"}]
  BY <1>1 DEF All, Ranks, Phases
<1>3. Shape' BY <1>1, <1>2 DEF TelemetryInv, Shape, TypeOK, step
<1>4. Aligned' BY <1>1 DEF Aligned, All, Early, Ranks
<1>5. MonitorIsTrained' BY <1>1 DEF TelemetryInv, MonitorIsTrained, HistoryOf
<1> QED BY <1>1, <1>2, <1>3, <1>4, <1>5, OutsideSave DEF TelemetryInv

-----------------------------------------------------------------------------
(* The phases of a save *)

LEMMA BeginKeeps ==
    ASSUME TelemetryInv, NEW r \in Ranks, NEW v \in {"ok", "failed"}, Begin(r, v)
    PROVE  TelemetryInv'
<1>1. CASE WithMarker
  <2>1. Votes(r, "begin", v) /\ UNCHANGED disk BY <1>1 DEF Begin
  <2> QED BY <2>1, VoteKeeps
<1>2. CASE ~WithMarker
  <2>1. /\ pc[r] = "begin"
        /\ pc' = [pc EXCEPT ![r] = IF v = "ok" THEN "reporting" ELSE "prepared"]
        /\ vote' = [vote EXCEPT ![r] = IF v = "ok" THEN "none" ELSE v]
        /\ UNCHANGED <<job, mode, lineage, history, model, txn, set, snaps>>
    BY <1>2 DEF Begin, disk
  <2>2. /\ pc \in [Ranks -> Phases] /\ vote \in [Ranks -> {"none", "ok", "failed"}]
        /\ 0 \in Ranks
    BY DEF TelemetryInv, Shape, TypeOK, Ranks
  <2>3. \A q \in Ranks : pc[q] \in Early /\ pc'[q] \in Early
    BY <2>1, <2>2 DEF TelemetryInv, Aligned, Early
  <2>4. pc' \in [Ranks -> Phases] /\ vote' \in [Ranks -> {"none", "ok", "failed"}]
    BY <2>1, <2>2 DEF Phases
  <2>5. Shape'
    BY <2>1, <2>2, <2>3, <2>4 DEF TelemetryInv, Shape, TypeOK, step, Early
  <2>6. Aligned'
    <3>1. \A q \in Ranks : pc'[q] \notin {"down", "train", "commit"} BY <2>3 DEF Early
    <3> QED BY <1>2, <2>3, <3>1 DEF Aligned, Ranks
  <2>7. MonitorIsTrained' BY <2>1 DEF TelemetryInv, MonitorIsTrained, HistoryOf
  <2>8. CommittedIsTrained' BY <2>1 DEF TelemetryInv, CommittedIsTrained, HistoryOf
  <2>9. SaveInOrder'
    <3>1. Hidden' => Hidden
      <4>1. CASE r = 0 BY <2>1, <2>2, <4>1 DEF Hidden
      <4>2. CASE r # 0
        <5>1. pc'[0] = pc[0] /\ vote'[0] = vote[0] BY <2>1, <2>2, <4>2
        <5> QED BY <5>1 DEF Hidden
      <4> QED BY <4>1, <4>2
    <3>2. ~ModelWritten' /\ \A q \in Ranks : ~Written(q)'
      BY <2>2, <2>3 DEF ModelWritten, Written, Early
    <3> QED BY <2>1, <3>1, <3>2 DEF TelemetryInv, SaveInOrder, step
  <2> QED BY <2>5, <2>6, <2>7, <2>8, <2>9 DEF TelemetryInv
<1> QED BY <1>1, <1>2

LEMMA PrepareKeeps ==
    ASSUME TelemetryInv, NEW v \in {"ok", "failed"}, PrepareTransaction(v)
    PROVE  TelemetryInv'
<1>1. 0 \in Ranks /\ Votes(0, "prepare", v) BY DEF PrepareTransaction, Ranks
<1>2. /\ Aligned' /\ vote' \in [Ranks -> {"none", "ok", "failed"}]
      /\ vote'[0] = v /\ pc[0] = "prepare"
      /\ UNCHANGED <<job, mode, lineage, history, pc, step>>
  BY <1>1, VoteAligned DEF Early
<1>3. /\ UNCHANGED <<model, set, snaps>> /\ step \in Steps
      /\ txn' = IF v = "failed" THEN txn
                ELSE [txn EXCEPT ![step] = IF Persists
                          THEN Transaction("pending", history[0].generation)
                          ELSE Transaction("revoked", 0)]
  BY <1>2 DEF PrepareTransaction, TelemetryInv, Shape
<1>4. txn \in [Steps -> [state : {"none", "pending", "committed", "revoked"},
                        generation : 0 .. MaxJobs]]
  BY DEF TelemetryInv, Shape, TypeOK
<1>5. /\ txn' \in [Steps -> [state : {"none", "pending", "committed", "revoked"},
                             generation : 0 .. MaxJobs]]
      /\ v = "ok" => txn'[step].state # "committed"
      /\ \A s \in Steps : txn'[s].state = "committed" => txn[s].state = "committed"
  <2>1. history[0].generation \in 0 .. MaxJobs
    BY <1>1 DEF TelemetryInv, Shape, TypeOK, Snapshot
  <2> QED BY <1>3, <1>4, <2>1 DEF Transaction
<1>6. Shape' BY <1>2, <1>3, <1>5 DEF TelemetryInv, Shape, TypeOK, Persists
<1>7. MonitorIsTrained' BY <1>2 DEF TelemetryInv, MonitorIsTrained, HistoryOf
<1>8. CommittedIsTrained' BY <1>3, <1>5 DEF TelemetryInv, CommittedIsTrained, HistoryOf
<1>9. SaveInOrder' BY <1>2, <1>5 DEF SaveInOrder, Hidden, ModelWritten, Written
<1> QED BY <1>2, <1>6, <1>7, <1>8, <1>9 DEF TelemetryInv

\* While a save is hidden, what changes in its directory is no committed history's.
LEMMA HiddenKeeps ==
    ASSUME TelemetryInv, Hidden, step \in Steps,
           UNCHANGED <<lineage, txn>>,
           \A s \in Steps \ {step} : model'[s] = model[s] /\ snaps'[s] = snaps[s],
           model'[step] = <<>> \/ Len(model'[step]) = step
    PROVE  CommittedIsTrained' /\ txn'[step].state # "committed"
<1>1. txn[step].state # "committed" BY DEF TelemetryInv, SaveInOrder
<1>2. \A s \in Steps : model'[s] # <<>> => Len(model'[s]) = s
  BY DEF TelemetryInv, CommittedIsTrained
<1>3. \A s \in Steps : txn'[s].state = "committed" =>
           Len(model'[s]) = s /\ HistoryOf(snaps'[s], model'[s])
  BY <1>1 DEF TelemetryInv, CommittedIsTrained
<1>4. CommittedIsTrained' BY <1>2, <1>3 DEF CommittedIsTrained, HistoryOf
<1> QED BY <1>1, <1>4

LEMMA OpenKeeps ==
    ASSUME TelemetryInv, OpenModel
    PROVE  TelemetryInv'
<1>1. /\ pc[0] = "save" /\ vote[0] = "none"
      /\ model' = [model EXCEPT ![step] = <<>>]
      /\ UNCHANGED <<job, mode, lineage, history, pc, vote, txn, set, snaps, step>>
  BY DEF OpenModel, step
<1>2. step \in Steps /\ Hidden BY <1>1 DEF TelemetryInv, Shape, Hidden
<1>3. /\ model' \in [Steps -> Seq(1 .. MaxJobs)] /\ model'[step] = <<>>
      /\ \A s \in Steps \ {step} : model'[s] = model[s]
  <2>1. <<>> \in Seq(1 .. MaxJobs) BY EmptySeq
  <2>2. model \in [Steps -> Seq(1 .. MaxJobs)] BY DEF TelemetryInv, Shape, TypeOK
  <2> QED BY <1>1, <1>2, <2>1, <2>2
<1>4. Shape' BY <1>1, <1>3 DEF TelemetryInv, Shape, TypeOK, Persists
<1>5. Aligned' BY <1>1 DEF TelemetryInv, Aligned
<1>6. MonitorIsTrained' BY <1>1 DEF TelemetryInv, MonitorIsTrained, HistoryOf
<1>7. CommittedIsTrained' /\ txn'[step].state # "committed"
  BY <1>1, <1>2, <1>3, HiddenKeeps
<1>8. SaveInOrder' BY <1>1, <1>7 DEF SaveInOrder, Hidden, ModelWritten, Written
<1> QED BY <1>4, <1>5, <1>6, <1>7, <1>8 DEF TelemetryInv

LEMMA SaveModelKeeps ==
    ASSUME TelemetryInv, NEW v \in {"ok", "failed"}, SaveModel(v)
    PROVE  TelemetryInv'
<1>1. 0 \in Ranks /\ Votes(0, "save", v) BY DEF SaveModel, Ranks
<1>2. /\ Aligned' /\ vote' \in [Ranks -> {"none", "ok", "failed"}]
      /\ vote'[0] = v /\ pc[0] = "save"
      /\ UNCHANGED <<job, mode, lineage, history, pc, step>>
  BY <1>1, VoteAligned DEF Early
<1>3. step \in Steps /\ Hidden BY <1>2 DEF TelemetryInv, Shape, Hidden
<1>4. /\ UNCHANGED <<txn, set, snaps>> /\ model[step] = <<>>
      /\ model' = IF v = "ok" THEN [model EXCEPT ![step] = lineage] ELSE model
  BY DEF SaveModel
<1>5. /\ model' \in [Steps -> Seq(1 .. MaxJobs)]
      /\ v = "ok" => model'[step] = lineage
      /\ \A s \in Steps \ {step} : model'[s] = model[s]
      /\ model'[step] = <<>> \/ Len(model'[step]) = step
  <2>1. model \in [Steps -> Seq(1 .. MaxJobs)] /\ lineage \in Seq(1 .. MaxJobs)
    BY DEF TelemetryInv, Shape, TypeOK
  <2> QED BY <1>3, <1>4, <2>1 DEF step
<1>6. Shape' BY <1>2, <1>4, <1>5 DEF TelemetryInv, Shape, TypeOK, Persists
<1>7. MonitorIsTrained' BY <1>2 DEF TelemetryInv, MonitorIsTrained, HistoryOf
<1>8. CommittedIsTrained' /\ txn'[step].state # "committed"
  BY <1>2, <1>3, <1>4, <1>5, HiddenKeeps
<1>9. SaveInOrder' BY <1>2, <1>5, <1>8 DEF SaveInOrder, Hidden, ModelWritten, Written
<1> QED BY <1>2, <1>6, <1>7, <1>8, <1>9 DEF TelemetryInv

LEMMA UnlinkKeeps ==
    ASSUME TelemetryInv, NEW r \in Ranks, Unlink(r)
    PROVE  TelemetryInv'
<1>1. /\ pc[0] \in {"revoke", "undo"}
      /\ snaps' = [snaps EXCEPT ![step][r] = None]
      /\ UNCHANGED <<job, mode, lineage, history, pc, vote, model, txn, set, step>>
  BY DEF Unlink, step
<1>2. step \in Steps /\ Hidden BY <1>1 DEF TelemetryInv, Shape, Hidden
<1>3. /\ snaps' \in [Steps -> [Ranks -> Snapshot]]
      /\ \A s \in Steps \ {step} : snaps'[s] = snaps[s]
  <2>1. <<>> \in Seq(1 .. MaxJobs) BY EmptySeq
  <2>2. None \in Snapshot BY <2>1 DEF None, Snapshot
  <2>3. snaps \in [Steps -> [Ranks -> Snapshot]] BY DEF TelemetryInv, Shape, TypeOK
  <2> QED BY <1>1, <1>2, <2>2, <2>3
<1>4. Shape' BY <1>1, <1>3 DEF TelemetryInv, Shape, TypeOK, Persists
<1>5. Aligned' BY <1>1 DEF TelemetryInv, Aligned
<1>6. MonitorIsTrained' BY <1>1 DEF TelemetryInv, MonitorIsTrained, HistoryOf
<1>7. CommittedIsTrained' /\ txn'[step].state # "committed"
  <2>1. model[step] = <<>> \/ Len(model[step]) = step
    BY <1>2 DEF TelemetryInv, CommittedIsTrained
  <2> QED BY <1>1, <1>2, <1>3, <2>1, HiddenKeeps
<1>8. SaveInOrder'
  <2>1. ModelWritten' = ModelWritten BY <1>1 DEF ModelWritten, Persists
  <2> QED BY <1>1, <1>7, <2>1 DEF TelemetryInv, SaveInOrder, Written
<1> QED BY <1>4, <1>5, <1>6, <1>7, <1>8 DEF TelemetryInv

LEMMA WriteSnapshotKeeps ==
    ASSUME TelemetryInv, NEW r \in Ranks, NEW v \in {"ok", "failed"}, WriteSnapshot(r, v)
    PROVE  TelemetryInv'
<1>1. Votes(r, "write", v) BY DEF WriteSnapshot
<1>2. /\ Aligned' /\ vote' \in [Ranks -> {"none", "ok", "failed"}]
      /\ \A q \in Ranks \ {r} : vote'[q] = vote[q]
      /\ vote'[r] = v /\ pc[0] = "write"
      /\ UNCHANGED <<job, mode, lineage, history, pc, step>>
  BY <1>1, VoteAligned DEF Early
<1>3. step \in Steps /\ Hidden BY <1>2 DEF TelemetryInv, Shape, Hidden
<1>4. /\ UNCHANGED <<model, txn, set>>
      /\ snaps' = IF v = "ok" THEN [snaps EXCEPT ![step][r] = history[r]] ELSE snaps
  BY DEF WriteSnapshot
<1>5. /\ snaps' \in [Steps -> [Ranks -> Snapshot]]
      /\ v = "ok" => snaps'[step][r] = history[r]
      /\ \A q \in Ranks \ {r} : snaps'[step][q] = snaps[step][q]
      /\ \A s \in Steps \ {step} : snaps'[s] = snaps[s]
  <2>1. snaps \in [Steps -> [Ranks -> Snapshot]] /\ history \in [Ranks -> Snapshot]
    BY DEF TelemetryInv, Shape, TypeOK
  <2> QED BY <1>3, <1>4, <2>1
<1>6. Shape' BY <1>2, <1>4, <1>5 DEF TelemetryInv, Shape, TypeOK, Persists
<1>7. MonitorIsTrained' BY <1>2 DEF TelemetryInv, MonitorIsTrained, HistoryOf
<1>8. CommittedIsTrained' /\ txn'[step].state # "committed"
  <2>1. model[step] = <<>> \/ Len(model[step]) = step
    BY <1>3 DEF TelemetryInv, CommittedIsTrained
  <2> QED BY <1>2, <1>3, <1>4, <1>5, <2>1, HiddenKeeps
<1>9. SaveInOrder'
  <2>1. model'[step'] = lineage' BY <1>2, <1>4 DEF TelemetryInv, SaveInOrder, ModelWritten
  <2>2. \A q \in Ranks : Written(q)' => snaps'[step'][q] = history'[q]
    <3> SUFFICES ASSUME NEW q \in Ranks, Written(q)' PROVE snaps'[step'][q] = history'[q]
      OBVIOUS
    <3>1. vote'[q] = "ok" BY <1>2 DEF Written
    <3>2. CASE q = r BY <1>2, <1>5, <3>1, <3>2
    <3>3. CASE q # r
      <4>1. Written(q) BY <1>2, <3>1, <3>3 DEF Written
      <4> QED BY <1>2, <1>5, <3>3, <4>1 DEF TelemetryInv, SaveInOrder
    <3> QED BY <3>2, <3>3
  <2> QED BY <1>2, <1>8, <2>1, <2>2 DEF SaveInOrder
<1> QED BY <1>2, <1>6, <1>7, <1>8, <1>9 DEF TelemetryInv

\* Once a set or its removal is a rank's only change, nothing promised depends on it.
LEMMA SetKeeps ==
    ASSUME TelemetryInv, NEW p \in {"revoke", "undo", "manifest"}, NEW v \in {"ok", "failed"},
           Votes(0, p, v), UNCHANGED <<model, txn, snaps>>, set' \in [Steps -> 0 .. MaxJobs]
    PROVE  TelemetryInv'
<1>1. 0 \in Ranks BY DEF Ranks
<1>2. /\ Aligned' /\ vote' \in [Ranks -> {"none", "ok", "failed"}]
      /\ vote'[0] = v /\ pc[0] = p
      /\ UNCHANGED <<job, mode, lineage, history, pc, step>>
  BY <1>1, VoteAligned DEF Early
<1>3. Shape' BY <1>2 DEF TelemetryInv, Shape, TypeOK, Persists
<1>4. MonitorIsTrained' BY <1>2 DEF TelemetryInv, MonitorIsTrained, HistoryOf
<1>5. CommittedIsTrained' BY DEF TelemetryInv, CommittedIsTrained, HistoryOf
<1>6. SaveInOrder'
  <2>1. Hidden /\ ModelWritten' = ModelWritten
    BY <1>2 DEF Hidden, ModelWritten, Persists
  <2>2. \A q \in Ranks : Written(q)' = Written(q) BY <1>2 DEF Written
  <2> QED BY <1>2, <2>1, <2>2 DEF TelemetryInv, SaveInOrder
<1> QED BY <1>2, <1>3, <1>4, <1>5, <1>6 DEF TelemetryInv

LEMMA RevokeKeeps ==
    ASSUME TelemetryInv, NEW v \in {"ok", "failed"}, Revoke(v)
    PROVE  TelemetryInv'
<1>1. UNCHANGED <<model, txn, snaps>> BY DEF Revoke
<1>2. set' \in [Steps -> 0 .. MaxJobs]
  <2>1. set \in [Steps -> 0 .. MaxJobs] BY DEF TelemetryInv, Shape, TypeOK
  <2>2. set' = IF v = "ok" THEN [set EXCEPT ![step] = 0] ELSE set BY DEF Revoke
  <2>3. 0 \in 0 .. MaxJobs OBVIOUS
  <2> QED BY <2>1, <2>2, <2>3
<1>3. Votes(0, "revoke", v) \/ Votes(0, "undo", v) BY DEF Revoke
<1> QED BY <1>1, <1>2, <1>3, SetKeeps

LEMMA ManifestKeeps ==
    ASSUME TelemetryInv, NEW v \in {"ok", "failed"}, WriteManifest(v)
    PROVE  TelemetryInv'
<1>1. Votes(0, "manifest", v) /\ UNCHANGED <<model, txn, snaps>> BY DEF WriteManifest
<1>2. 0 \in Ranks BY DEF Ranks
<1>3. set' \in [Steps -> 0 .. MaxJobs]
  <2>1. set \in [Steps -> 0 .. MaxJobs] /\ history[0].generation \in 0 .. MaxJobs
    BY <1>2 DEF TelemetryInv, Shape, TypeOK, Snapshot
  <2>2. set' = IF v = "ok" THEN [set EXCEPT ![step] = history[0].generation] ELSE set
    BY DEF WriteManifest
  <2> QED BY <2>1, <2>2
<1> QED BY <1>1, <1>3, SetKeeps

\* The snapshots are the ranks' own, the model is the one they belong to.
LEMMA CommitKeeps ==
    ASSUME TelemetryInv, NEW v \in {"ok", "failed"}, Commit(v)
    PROVE  TelemetryInv'
<1>1. 0 \in Ranks /\ Votes(0, "commit", v) BY DEF Commit, Ranks
<1>2. /\ Aligned' /\ vote' \in [Ranks -> {"none", "ok", "failed"}]
      /\ vote'[0] = v /\ pc[0] = "commit" /\ vote[0] = "none"
      /\ UNCHANGED <<job, mode, lineage, history, pc, step>>
  BY <1>1, VoteAligned DEF Early
<1>3. /\ step \in Steps /\ mode = "on" /\ Hidden
      /\ model[step] = lineage /\ \A r \in Ranks : snaps[step][r] = history[r]
  BY <1>2 DEF TelemetryInv, Shape, SaveInOrder, ModelWritten, Written, Persists, Hidden
<1>4. /\ UNCHANGED <<model, set, snaps>>
      /\ txn' = IF v = "ok" THEN [txn EXCEPT ![step] =
                                    Transaction("committed", history[0].generation)]
                ELSE txn
  BY DEF Commit
<1>5. txn \in [Steps -> [state : {"none", "pending", "committed", "revoked"},
                        generation : 0 .. MaxJobs]]
  BY DEF TelemetryInv, Shape, TypeOK
<1>6. /\ txn' \in [Steps -> [state : {"none", "pending", "committed", "revoked"},
                             generation : 0 .. MaxJobs]]
      /\ \A s \in Steps \ {step} : txn'[s] = txn[s]
      /\ v = "failed" => txn' = txn
  <2>1. history[0].generation \in 0 .. MaxJobs
    BY <1>1 DEF TelemetryInv, Shape, TypeOK, Snapshot
  <2> QED BY <1>3, <1>4, <1>5, <2>1 DEF Transaction
<1>7. Shape' BY <1>2, <1>4, <1>6 DEF TelemetryInv, Shape, TypeOK, Persists
<1>8. MonitorIsTrained' BY <1>2 DEF TelemetryInv, MonitorIsTrained, HistoryOf
<1>9. Len(model[step]) = step /\ HistoryOf(snaps[step], model[step])
  BY <1>1, <1>3 DEF TelemetryInv, MonitorIsTrained, HistoryOf, step
<1>10. CommittedIsTrained'
  BY <1>4, <1>6, <1>9, ZenonT(30) DEF TelemetryInv, CommittedIsTrained, HistoryOf
<1>11. SaveInOrder'
  <2>1. Hidden' => txn'[step'].state # "committed"
    BY <1>2, <1>3, <1>6 DEF Hidden, TelemetryInv, SaveInOrder
  <2> QED BY <1>2, <1>3, <1>4, <2>1 DEF SaveInOrder
<1> QED BY <1>2, <1>7, <1>8, <1>10, <1>11 DEF TelemetryInv

-----------------------------------------------------------------------------
(* The collective *)

LEMMA ConvergeShape ==
    ASSUME TelemetryInv, Converge
    PROVE  /\ Shape' /\ Aligned'
           /\ UNCHANGED <<job, mode, lineage, history, model, txn, set, snaps, step>>
           /\ \A r \in Ranks : vote'[r] = "none" /\ pc'[r] = pc'[0]
           /\ \A r \in Ranks : pc[r] = pc[0] /\ vote[r] # "none"
           /\ 0 \in Ranks /\ pc[0] \in Phases \ {"down", "train"}
           /\ pc'[0] = IF \A r \in Ranks : vote[r] = "ok" THEN Following(pc[0])
                       ELSE IF pc[0] \in {"write", "manifest", "recheck", "commit"} THEN "undo"
                       ELSE "down"
<1> DEFINE next == IF \A r \in Ranks : vote[r] = "ok" THEN Following(pc[0])
                   ELSE IF pc[0] \in {"write", "manifest", "recheck", "commit"} THEN "undo"
                   ELSE "down"
<1>1. /\ \A r \in Ranks : pc[r] = pc[0] /\ vote[r] # "none"
      /\ pc' = All(next) /\ vote' = All("none")
      /\ UNCHANGED <<job, mode, lineage, history, model, txn, set, snaps, step>>
      /\ 0 \in Ranks
  BY DEF Converge, disk, step, Ranks
<1>2. pc[0] \in Phases \ {"down", "train"}
  BY <1>1 DEF TelemetryInv, Shape, Aligned
<1>3. next \in Phases
  BY <1>2 DEF Phases, Following
<1>4. next \in {"validate", "write", "manifest", "recheck", "commit"} => Persists
  <2>1. pc[0] \in {"validate", "write", "manifest", "recheck", "commit"} => Persists
    BY DEF TelemetryInv, Shape
  <2> QED BY <1>2, <2>1 DEF Phases, Following
<1> HIDE DEF next
<1>5. /\ \A r \in Ranks : vote'[r] = "none" /\ pc'[r] = next
      /\ pc' \in [Ranks -> Phases] /\ vote' \in [Ranks -> {"none", "ok", "failed"}]
  BY <1>1, <1>3 DEF All
<1>6. Shape'
  <2>1. TypeOK' BY <1>1, <1>5 DEF TelemetryInv, Shape, TypeOK
  <2>2. job \in 1 .. MaxJobs /\ step \in Steps BY <1>2 DEF TelemetryInv, Shape
  <2> QED BY <1>1, <1>4, <1>5, <2>1, <2>2 DEF Shape, Persists
<1>7. Aligned' BY <1>5 DEF Aligned, Ranks
<1> QED BY <1>1, <1>2, <1>5, <1>6, <1>7 DEF next

LEMMA ConvergeKeeps ==
    ASSUME TelemetryInv, Converge
    PROVE  TelemetryInv'
<1>1. /\ Shape' /\ Aligned'
      /\ UNCHANGED <<job, mode, lineage, history, model, txn, set, snaps, step>>
      /\ \A r \in Ranks : vote'[r] = "none" /\ pc'[r] = pc'[0]
      /\ \A r \in Ranks : pc[r] = pc[0] /\ vote[r] # "none"
      /\ 0 \in Ranks /\ pc[0] \in Phases \ {"down", "train"}
      /\ pc'[0] = IF \A r \in Ranks : vote[r] = "ok" THEN Following(pc[0])
                  ELSE IF pc[0] \in {"write", "manifest", "recheck", "commit"} THEN "undo"
                  ELSE "down"
  BY ConvergeShape
<1>2. MonitorIsTrained' BY <1>1 DEF TelemetryInv, MonitorIsTrained, HistoryOf
<1>3. CommittedIsTrained' BY <1>1 DEF TelemetryInv, CommittedIsTrained, HistoryOf
<1>4. Persists' = Persists BY <1>1 DEF Persists
<1>5. CASE \A r \in Ranks : vote[r] = "ok"
  <2>1. pc'[0] = Following(pc[0]) /\ vote[0] = "ok" /\ vote'[0] = "none" BY <1>1, <1>5
  <2>2. Hidden' => Hidden BY <1>1, <2>1 DEF Hidden, Following, Phases
  <2>3. ModelWritten' => ModelWritten
    BY <1>1, <1>4, <2>1 DEF ModelWritten, Following, Phases
  <2>4. \A r \in Ranks : Written(r)' => Written(r)
    BY <1>1, <1>5, <2>1 DEF Written, Following, Phases
  <2>5. SaveInOrder' BY <1>1, <2>2, <2>3, <2>4 DEF TelemetryInv, SaveInOrder
  <2> QED BY <1>1, <1>2, <1>3, <2>5 DEF TelemetryInv
<1>6. CASE ~\A r \in Ranks : vote[r] = "ok"
  <2>1. pc'[0] \in {"down", "undo"} /\ vote'[0] = "none" BY <1>1, <1>6
  <2>2. ~ModelWritten' /\ \A r \in Ranks : ~Written(r)'
    BY <2>1 DEF ModelWritten, Written
  <2>3. Hidden' => Hidden
    <3>1. CASE pc[0] = "commit"
      <4>1. \A r \in Peers : vote[r] # "failed"
        BY <1>1, <3>1 DEF TelemetryInv, Aligned, Ranks
      <4>2. vote[0] # "ok"
        <5>1. vote \in [Ranks -> {"none", "ok", "failed"}] BY DEF TelemetryInv, Shape, TypeOK
        <5> QED BY <1>1, <1>6, <4>1, <5>1 DEF Ranks
      <4> QED BY <3>1, <4>2 DEF Hidden
    <3>2. CASE pc[0] # "commit"
      BY <1>1, <1>6, <2>1, <3>2 DEF Hidden
    <3> QED BY <3>1, <3>2
  <2>4. SaveInOrder' BY <1>1, <2>2, <2>3 DEF TelemetryInv, SaveInOrder
  <2> QED BY <1>1, <1>2, <1>3, <2>4 DEF TelemetryInv
<1> QED BY <1>5, <1>6

LEMMA WorkKeeps ==
    ASSUME TelemetryInv, NEW v \in {"ok", "failed"}, Work(v)
    PROVE  TelemetryInv'
<1>1. CASE PrepareTransaction(v) BY <1>1, PrepareKeeps
<1>2. CASE SaveModel(v) BY <1>2, SaveModelKeeps
<1>3. CASE Revoke(v) BY <1>3, RevokeKeeps
<1>4. CASE WriteManifest(v) BY <1>4, ManifestKeeps
<1>5. CASE Commit(v) BY <1>5, CommitKeeps
<1>6. CASE \E r \in Ranks : Begin(r, v) BY <1>6, BeginKeeps
<1>7. CASE \E r \in Ranks : Report(r, v)
  <2>1. PICK r \in Ranks : Votes(r, "reporting", v) /\ UNCHANGED disk BY <1>7 DEF Report
  <2> QED BY <2>1, VoteKeeps
<1>8. CASE \E r \in Ranks : Validate(r, v)
  <2>1. PICK r \in Ranks : Validate(r, v) BY <1>8
  <2>2. UNCHANGED disk BY <2>1 DEF Validate
  <2>3. CASE Votes(r, "validate", v) BY <2>2, <2>3, VoteKeeps
  <2>4. CASE Votes(r, "recheck", v) BY <2>2, <2>4, VoteKeeps
  <2> QED BY <2>1, <2>3, <2>4 DEF Validate
<1>9. CASE \E r \in Ranks : WriteSnapshot(r, v) BY <1>9, WriteSnapshotKeeps
<1> QED BY <1>1, <1>2, <1>3, <1>4, <1>5, <1>6, <1>7, <1>8, <1>9 DEF Work

LEMMA StepKeeps ==
    ASSUME TelemetryInv, [Next]_vars
    PROVE  TelemetryInv'
<1>1. CASE UNCHANGED vars
  <2>1. UNCHANGED <<job, mode, lineage, history, pc, vote, model, txn, set, snaps, step>>
    BY <1>1 DEF vars, disk, step
  <2>2. Shape' BY <2>1 DEF TelemetryInv, Shape, TypeOK, Persists
  <2>3. Aligned' BY <2>1 DEF TelemetryInv, Aligned
  <2>4. MonitorIsTrained' BY <2>1 DEF TelemetryInv, MonitorIsTrained, HistoryOf
  <2>5. CommittedIsTrained' BY <2>1 DEF TelemetryInv, CommittedIsTrained, HistoryOf
  <2>6. SaveInOrder'
    BY <2>1 DEF TelemetryInv, SaveInOrder, Hidden, ModelWritten, Written, Persists
  <2> QED BY <2>2, <2>3, <2>4, <2>5, <2>6 DEF TelemetryInv
<1>2. CASE \E m \in {"on", "unsaved", "off"}, s \in 0 .. MaxStep, blind \in SUBSET Ranks :
               StartJob(m, s, blind)
  BY <1>2, StartKeeps
<1>3. CASE \E saving \in BOOLEAN : Train(saving) BY <1>3, TrainKeeps
<1>4. CASE \E v \in {"ok", "failed"} : Work(v) BY <1>4, WorkKeeps
<1>5. CASE OpenModel BY <1>5, OpenKeeps
<1>6. CASE \E r \in Ranks : Unlink(r) BY <1>6, UnlinkKeeps
<1>7. CASE \E r \in Ranks : Idle(r)
  <2>1. PICK r \in Ranks : /\ UNCHANGED disk
                          /\ \/ r # 0 /\ \E p \in RootPhases : Votes(r, p, "ok")
                             \/ Votes(r, "prepared", "ok")
    BY <1>7 DEF Idle
  <2>2. CASE Votes(r, "prepared", "ok") BY <2>1, <2>2, VoteKeeps
  <2>3. CASE r # 0 /\ \E p \in RootPhases : Votes(r, p, "ok")
    <3>1. PICK p \in RootPhases : Votes(r, p, "ok") BY <2>3
    <3>2. p \notin {"down", "train", "write"} BY DEF RootPhases
    <3> QED BY <2>1, <2>3, <3>1, <3>2, VoteKeeps
  <2> QED BY <2>1, <2>2, <2>3
<1>8. CASE Converge BY <1>8, ConvergeKeeps
<1>9. CASE Stop BY <1>9, StopKeeps
<1> QED BY <1>1, <1>2, <1>3, <1>4, <1>5, <1>6, <1>7, <1>8, <1>9 DEF Next

-----------------------------------------------------------------------------
\* The frames a monitor holds are those of the very steps its model took, each once and
\* from the same step on all ranks, though two jobs that resume one checkpoint write into
\* the same directories under one generation (restore_checkpoint and the save's telemetry
\* transaction): for any ranks, steps, jobs, failing file operations and kills.
THEOREM TelemetryHistoryIsTrained == Spec => []HistoryIsTrained
<1>1. Init => TelemetryInv BY InitInv
<1>2. TelemetryInv /\ [Next]_vars => TelemetryInv' BY StepKeeps
<1>3. TelemetryInv => HistoryIsTrained
  BY DEF TelemetryInv, MonitorIsTrained, HistoryIsTrained, HistoryOf, step
<1> QED BY <1>1, <1>2, <1>3, PTL DEF Spec

\* When a marker publishes the save, no two ranks are ever in two different collectives of
\* it, whichever rank's work fails (save_checkpoint's begin, prepare and commit phases).
THEOREM TelemetryCollectivesMatch ==
    ASSUME WithMarker
    PROVE  Spec => []CollectivesMatch
<1>1. Init => TelemetryInv BY InitInv
<1>2. TelemetryInv /\ [Next]_vars => TelemetryInv' BY StepKeeps
<1>3. TelemetryInv => CollectivesMatch
  BY DEF TelemetryInv, Aligned, CollectivesMatch
<1> QED BY <1>1, <1>2, <1>3, PTL DEF Spec

-----------------------------------------------------------------------------
(***************************************************************************)
(* The histories of OPD's telemetry, whatever each job is set to.          *)
(***************************************************************************)
OpdShape ==
    /\ settings \in Seq(Settings)
    /\ opd \in {"down", "train", "begin", "write", "done"}
    /\ taken \in Seq(1 .. opdJob) /\ opdStep <= MaxOpdStep
    /\ opd # "down" => settings # <<>>
    /\ frames \in [Students -> Seq(Nat)]
    /\ opdModel \in [OpdSteps -> Seq(1 .. opdJob)]
    /\ manifest \in [OpdSteps -> BOOLEAN]
    /\ opdSnaps \in [OpdSteps -> [Students -> Seq(Nat)]]
    /\ \A p \in summary : p[1] \in Seq(1 .. opdJob)
    /\ refused \in SUBSET Seq(1 .. opdJob)

\* The snapshots under a manifest are those of the model it names, if its jobs persisted
\* what they measured.
PublishedIsTrained ==
    \A s \in OpdSteps : manifest[s] =>
        /\ Len(opdModel[s]) = s
        /\ Persisted(opdModel[s]) => opdSnaps[s] = Alike(opdModel[s])

\* A save hides the checkpoint until every rank has written, and saves a step of its own job.
SaveHides ==
    /\ opd \in {"begin", "write"} => opdStep \in OpdSteps /\ taken[opdStep] = opdJob
    /\ opd = "write" =>
           /\ ~manifest[opdStep] /\ opdModel[opdStep] = taken
           /\ Persisted(taken) => \A r \in wrote : opdSnaps[opdStep][r] = taken

PersistInv ==
    /\ OpdShape
    /\ MeasuredIsTrained /\ RefusedUnpersisted
    /\ PublishedIsTrained /\ SaveHides

-----------------------------------------------------------------------------
LEMMA InitPersists ==
    ASSUME MaxOpdStep \in Nat, OpdInit
    PROVE  PersistInv
<1>1. \A S : <<>> \in Seq(S) /\ Len(<<>>) = 0 BY EmptySeq
<1>2. OpdShape
  <2>1. opdModel \in [OpdSteps -> Seq(1 .. opdJob)] BY <1>1 DEF OpdInit
  <2>2. opdSnaps \in [OpdSteps -> [Students -> Seq(Nat)]] BY <1>1 DEF OpdInit, Alike
  <2>3. taken \in Seq(1 .. opdJob) /\ opdStep <= MaxOpdStep /\ frames \in [Students -> Seq(Nat)]
    BY <1>1 DEF OpdInit, Alike, opdStep
  <2>4. settings \in Seq(Settings) BY <1>1 DEF OpdInit
  <2> QED BY <2>1, <2>2, <2>3, <2>4 DEF OpdInit, OpdShape
<1> QED BY <1>2 DEF OpdInit, PersistInv, MeasuredIsTrained, RefusedUnpersisted,
                    PublishedIsTrained, SaveHides

LEMMA ElementsOf ==
    ASSUME NEW S, NEW l \in Seq(S)
    PROVE  \A i \in DOMAIN l : l[i] \in S
OBVIOUS

LEMMA WiderSeq ==
    ASSUME NEW S, NEW T, S \subseteq T, NEW l \in Seq(S)
    PROVE  l \in Seq(T)
OBVIOUS

\* Another job changes nothing of what the jobs before it were set to.
LEMMA SettingsGrow ==
    ASSUME settings \in Seq(Settings), NEW m \in Settings, settings' = Append(settings, m)
    PROVE  /\ opdJob \in Nat /\ opdJob' = opdJob + 1 /\ setting' = m
           /\ \A i \in 1 .. opdJob : settings'[i] = settings[i]
           /\ settings' \in Seq(Settings) /\ settings' # <<>>
<1>1. Len(settings) \in Nat /\ Len(settings') = Len(settings) + 1 /\ settings' \in Seq(Settings)
  OBVIOUS
<1>2. settings' # <<>> BY <1>1, EmptySeq
<1>3. settings'[Len(settings')] = m /\ \A i \in 1 .. Len(settings) : settings'[i] = settings[i]
  BY <1>1
<1> QED BY <1>1, <1>2, <1>3 DEF opdJob, setting

\* A lineage whose jobs are known stays as persisted as it was.
LEMMA PersistedStays ==
    ASSUME settings \in Seq(Settings), NEW m \in Settings, settings' = Append(settings, m),
           NEW l \in Seq(1 .. opdJob)
    PROVE  (\A i \in DOMAIN l : settings'[l[i]] = "on") <=> Persisted(l)
<1>1. \A i \in DOMAIN l : l[i] \in 1 .. opdJob BY ElementsOf
<1>2. \A i \in 1 .. opdJob : settings'[i] = settings[i] BY SettingsGrow
<1> QED BY <1>1, <1>2 DEF Persisted

\* A checkpoint with a manifest gives the new job its model's own history, or is refused
\* because some job did not persist its part.
LEMMA StartPersists ==
    ASSUME MaxOpdStep \in Nat, PersistInv, NEW m \in Settings, NEW s \in 0 .. MaxOpdStep,
           StartOpd(m, s)
    PROVE  PersistInv'
<1> DEFINE strict == m # "off" /\ s > 0
<1>1. /\ settings \in Seq(Settings) /\ settings' = Append(settings, m)
      /\ UNCHANGED <<wrote, opdModel, manifest, opdSnaps, summary>>
      /\ taken' = IF s = 0 THEN <<>> ELSE opdModel[s]
      /\ opd' \in {"down", "train"}
      /\ frames' = IF strict THEN opdSnaps[s] ELSE Alike(<<>>)
  BY DEF StartOpd, PersistInv, OpdShape, opdSaved
<1>2. refused' = IF strict /\ ~Restorable(s) THEN refused \cup {opdModel[s]} ELSE refused
  BY DEF StartOpd
<1>3. /\ opdJob \in Nat /\ opdJob' = opdJob + 1 /\ setting' = m
      /\ \A i \in 1 .. opdJob : settings'[i] = settings[i]
      /\ settings' \in Seq(Settings) /\ settings' # <<>>
  BY <1>1, SettingsGrow
<1>4. s > 0 => s \in OpdSteps /\ manifest[s] BY DEF StartOpd, OpdSteps
<1>5. s > 0 => /\ opdModel[s] \in Seq(1 .. opdJob) /\ Len(opdModel[s]) = s
               /\ Persisted(opdModel[s]) => opdSnaps[s] = Alike(opdModel[s])
  BY <1>4 DEF PersistInv, PublishedIsTrained, OpdShape
<1>6. \A l \in Seq(1 .. opdJob) : l \in Seq(1 .. opdJob')
  <2>1. 1 .. opdJob \subseteq 1 .. opdJob' BY <1>3
  <2> QED BY <2>1, WiderSeq
<1>7. \A l \in Seq(1 .. opdJob) :
          (\A i \in DOMAIN l : settings'[l[i]] = "on") <=> Persisted(l)
  BY <1>1, PersistedStays
<1>8. <<>> \in Seq(1 .. opdJob) /\ <<>> \in Seq(Nat) /\ Len(<<>>) = 0 BY EmptySeq
<1>9. taken' \in Seq(1 .. opdJob) /\ Len(taken') = s
  <2>1. CASE s = 0 BY <1>1, <1>8, <2>1
  <2>2. CASE s > 0 BY <1>1, <1>5, <2>2
  <2> QED BY <2>1, <2>2
<1>10. OpdShape'
  <2>1. frames' \in [Students -> Seq(Nat)]
    BY <1>1, <1>4, <1>8 DEF Alike, PersistInv, OpdShape
  <2>2. taken' \in Seq(1 .. opdJob') /\ opdStep' <= MaxOpdStep BY <1>6, <1>9 DEF opdStep
  <2>3. opdModel' \in [OpdSteps -> Seq(1 .. opdJob')]
    <3>1. opdModel \in [OpdSteps -> Seq(1 .. opdJob)] BY DEF PersistInv, OpdShape
    <3> QED BY <1>1, <1>6, <3>1
  <2>4. \A p \in summary' : p[1] \in Seq(1 .. opdJob')
    BY <1>1, <1>6 DEF PersistInv, OpdShape
  <2>5. refused' \in SUBSET Seq(1 .. opdJob')
    <3>1. refused \in SUBSET Seq(1 .. opdJob) BY DEF PersistInv, OpdShape
    <3> QED BY <1>2, <1>5, <1>6, <3>1
  <2>6. manifest' \in [OpdSteps -> BOOLEAN] /\ opdSnaps' \in [OpdSteps -> [Students -> Seq(Nat)]]
    BY <1>1 DEF PersistInv, OpdShape
  <2> QED BY <1>1, <1>3, <2>1, <2>2, <2>3, <2>4, <2>5, <2>6 DEF OpdShape
<1>11. MeasuredIsTrained'
  <2>1. ASSUME Measured' PROVE frames' = Alike(taken')
    <3>1. CASE s = 0 BY <1>1, <3>1 DEF Alike
    <3>2. CASE s > 0
      <4>1. taken' = opdModel[s] /\ m # "off" /\ frames' = opdSnaps[s]
        BY <1>1, <1>3, <2>1, <3>2 DEF Measured, Enabled
      <4>2. \A i \in DOMAIN taken' : taken'[i] \in 1 .. opdJob /\ taken'[i] # opdJob'
        <5>1. \A i \in DOMAIN taken' : taken'[i] \in 1 .. opdJob BY <1>9, ElementsOf
        <5> QED BY <1>3, <5>1
      <4>3. \A i \in DOMAIN taken' : settings'[taken'[i]] = "on"
        BY <2>1, <4>2 DEF Measured
      <4>4. Persisted(opdModel[s]) BY <1>5, <1>7, <3>2, <4>1, <4>3
      <4> QED BY <1>5, <3>2, <4>1, <4>4
    <3> QED BY <3>1, <3>2
  <2>2. \A p \in summary : (\A i \in DOMAIN p[1] : settings'[p[1][i]] = "on") => p[2] = Alike(p[1])
    <3>1. \A p \in summary : p[1] \in Seq(1 .. opdJob) /\ (Persisted(p[1]) => p[2] = Alike(p[1]))
      BY DEF PersistInv, OpdShape, MeasuredIsTrained
    <3> QED BY <1>7, <3>1
  <2> QED BY <1>1, <2>1, <2>2 DEF MeasuredIsTrained, Persisted, Alike
<1>12. RefusedUnpersisted'
  <2>1. strict /\ ~Restorable(s) => ~Persisted(opdModel[s])
    BY <1>5 DEF Restorable, ReadableAt, Alike
  <2>2. \A l \in refused' : l \in Seq(1 .. opdJob) /\ ~Persisted(l)
    <3>1. \A l \in refused : l \in Seq(1 .. opdJob) /\ ~Persisted(l)
      BY DEF PersistInv, OpdShape, RefusedUnpersisted
    <3> QED BY <1>2, <1>5, <2>1, <3>1
  <2>3. \A l \in refused' : ~(\A i \in DOMAIN l : settings'[l[i]] = "on") BY <1>7, <2>2
  <2> QED BY <2>3 DEF RefusedUnpersisted, Persisted
<1>13. PublishedIsTrained'
  <2> SUFFICES ASSUME NEW t \in OpdSteps, manifest[t]
               PROVE  /\ Len(opdModel[t]) = t
                      /\ (\A i \in DOMAIN opdModel[t] : settings'[opdModel[t][i]] = "on")
                             => opdSnaps[t] = Alike(opdModel[t])
    BY <1>1 DEF PublishedIsTrained, Persisted, Alike
  <2>1. opdModel[t] \in Seq(1 .. opdJob) BY DEF PersistInv, OpdShape
  <2>2. Len(opdModel[t]) = t /\ (Persisted(opdModel[t]) => opdSnaps[t] = Alike(opdModel[t]))
    BY DEF PersistInv, PublishedIsTrained
  <2> QED BY <1>7, <2>1, <2>2
<1>14. SaveHides' BY <1>1 DEF SaveHides
<1> QED BY <1>10, <1>11, <1>12, <1>13, <1>14 DEF PersistInv

\* A step is added to the model's lineage and to every history that is measured.
LEMMA TrainPersists ==
    ASSUME MaxOpdStep \in Nat, PersistInv, NEW saving \in BOOLEAN, TrainOpd(saving)
    PROVE  PersistInv'
<1>1. /\ opd = "train" /\ opdStep < MaxOpdStep /\ taken' = Append(taken, opdJob)
      /\ frames' = IF Enabled THEN [r \in Students |-> Append(frames[r], opdJob)] ELSE frames
      /\ opd' \in {"train", "begin"}
      /\ UNCHANGED <<settings, wrote, opdModel, manifest, opdSnaps, summary, refused>>
  BY DEF TrainOpd, opdSaved
<1>2. /\ settings \in Seq(Settings) /\ settings # <<>> /\ taken \in Seq(1 .. opdJob)
      /\ opdJob \in Nat /\ opdJob \in 1 .. opdJob /\ opdJob' = opdJob
  <2>1. settings \in Seq(Settings) /\ settings # <<>> /\ taken \in Seq(1 .. opdJob)
    BY <1>1 DEF PersistInv, OpdShape
  <2>2. Len(settings) \in Nat /\ Len(settings) # 0 BY <2>1, EmptySeq
  <2> QED BY <1>1, <2>1, <2>2 DEF opdJob
<1>3. /\ taken' \in Seq(1 .. opdJob) /\ Len(taken') = Len(taken) + 1 /\ Len(taken) \in Nat
      /\ \A i \in DOMAIN taken : taken'[i] = taken[i] /\ i \in DOMAIN taken'
      /\ taken'[Len(taken')] = opdJob
  <2> HIDE DEF opdJob
  <2> QED BY <1>1, <1>2
<1>4. opdStep' \in OpdSteps /\ opdStep' <= MaxOpdStep BY <1>1, <1>3 DEF opdStep, OpdSteps
<1>5. OpdShape'
  <2>1. frames' \in [Students -> Seq(Nat)] BY <1>1, <1>2 DEF PersistInv, OpdShape
  <2> QED BY <1>1, <1>2, <1>3, <1>4, <2>1 DEF PersistInv, OpdShape
<1>6. MeasuredIsTrained'
  <2>1. ASSUME Measured' PROVE frames' = Alike(taken')
    <3>1. Enabled BY <1>1, <2>1 DEF Measured, Enabled, setting, opdJob
    <3>2. Measured BY <1>1, <1>2, <1>3, <2>1, <3>1 DEF Measured
    <3>3. frames = Alike(taken) BY <1>1, <3>2 DEF PersistInv, MeasuredIsTrained
    <3> QED BY <1>1, <3>1, <3>3 DEF Alike
  <2> QED BY <1>1, <2>1 DEF PersistInv, MeasuredIsTrained, Persisted, Alike
<1>7. RefusedUnpersisted' BY <1>1 DEF PersistInv, RefusedUnpersisted, Persisted
<1>8. PublishedIsTrained' BY <1>1 DEF PersistInv, PublishedIsTrained, Persisted, Alike
<1>9. SaveHides' BY <1>1, <1>2, <1>3, <1>4 DEF SaveHides, opdStep
<1> QED BY <1>5, <1>6, <1>7, <1>8, <1>9 DEF PersistInv

LEMMA BeginPersists ==
    ASSUME MaxOpdStep \in Nat, PersistInv, BeginSave
    PROVE  PersistInv'
<1>1. /\ opd = "begin" /\ opd' = "write" /\ wrote' = {}
      /\ manifest' = [manifest EXCEPT ![opdStep] = FALSE]
      /\ opdModel' = [opdModel EXCEPT ![opdStep] = taken]
      /\ UNCHANGED <<settings, taken, frames, opdSnaps, summary, refused>>
  BY DEF BeginSave
<1>2. opdStep \in OpdSteps /\ taken[opdStep] = opdJob BY <1>1 DEF PersistInv, SaveHides
<1>3. opdJob' = opdJob /\ opdStep' = opdStep /\ setting' = setting
  BY <1>1 DEF opdJob, opdStep, setting
<1>4. OpdShape' BY <1>1, <1>2, <1>3 DEF PersistInv, OpdShape
<1>5. MeasuredIsTrained'
  BY <1>1, <1>3 DEF PersistInv, MeasuredIsTrained, Measured, Enabled, Persisted, Alike
<1>6. RefusedUnpersisted' BY <1>1 DEF PersistInv, RefusedUnpersisted, Persisted
<1>7. PublishedIsTrained'
  <2>1. /\ manifest \in [OpdSteps -> BOOLEAN] /\ opdModel \in [OpdSteps -> Seq(1 .. opdJob)]
    BY DEF PersistInv, OpdShape
  <2>2. ASSUME NEW s \in OpdSteps, manifest'[s]
        PROVE  s # opdStep /\ manifest[s] /\ opdModel'[s] = opdModel[s]
    BY <1>1, <1>2, <2>1, <2>2
  <2>3. ASSUME NEW s \in OpdSteps, manifest'[s]
        PROVE  /\ Len(opdModel[s]) = s
               /\ Persisted(opdModel[s]) => opdSnaps[s] = Alike(opdModel[s])
    BY <2>2, <2>3 DEF PersistInv, PublishedIsTrained
  <2>4. ASSUME NEW s \in OpdSteps, manifest'[s],
               \A i \in DOMAIN opdModel'[s] : settings'[opdModel'[s][i]] = "on"
        PROVE  opdSnaps'[s] = [r \in Students |-> opdModel'[s]]
    <3>1. opdModel'[s] = opdModel[s] BY <2>2, <2>4
    <3>2. Persisted(opdModel[s]) BY <1>1, <2>4, <3>1 DEF Persisted
    <3>3. opdSnaps[s] = Alike(opdModel[s]) BY <2>3, <2>4, <3>2
    <3> QED BY <1>1, <3>1, <3>3 DEF Alike
  <2>5. ASSUME NEW s \in OpdSteps, manifest'[s] PROVE Len(opdModel'[s]) = s
    BY <2>2, <2>3, <2>5
  <2> QED BY <2>4, <2>5 DEF PublishedIsTrained, Persisted, Alike
<1>8. SaveHides' BY <1>1, <1>2, <1>3 DEF PersistInv, SaveHides, OpdShape
<1> QED BY <1>4, <1>5, <1>6, <1>7, <1>8 DEF PersistInv

\* A rank whose own job persists writes what it measured, and the save is of its own job.
LEMMA WritePersists ==
    ASSUME MaxOpdStep \in Nat, PersistInv, NEW r \in Students, WriteFrames(r)
    PROVE  PersistInv'
<1>1. /\ opd = "write" /\ wrote' = wrote \cup {r}
      /\ opdSnaps' = IF setting = "on" THEN [opdSnaps EXCEPT ![opdStep][r] = frames[r]]
                     ELSE opdSnaps
      /\ UNCHANGED <<settings, opd, taken, frames, opdModel, manifest, summary, refused>>
  BY DEF WriteFrames
<1>2. /\ opdStep \in OpdSteps /\ taken[opdStep] = opdJob
      /\ ~manifest[opdStep] /\ opdModel[opdStep] = taken
      /\ Persisted(taken) => \A q \in wrote : opdSnaps[opdStep][q] = taken
  BY <1>1 DEF PersistInv, SaveHides
<1>3. opdJob' = opdJob /\ opdStep' = opdStep /\ setting' = setting
  BY <1>1 DEF opdJob, opdStep, setting
<1>4. Persisted(taken) => setting = "on" /\ frames = Alike(taken)
  <2>1. opdStep \in DOMAIN taken /\ settings # <<>>
    <3>1. taken \in Seq(1 .. opdJob) BY DEF PersistInv, OpdShape
    <3>2. opdStep \in 1 .. Len(taken) BY <1>2, <3>1 DEF opdStep, OpdSteps
    <3>3. DOMAIN taken = 1 .. Len(taken) BY <3>1
    <3> QED BY <1>1, <3>2, <3>3 DEF PersistInv, OpdShape
  <2>2. Persisted(taken) => setting = "on" BY <1>2, <2>1 DEF Persisted, setting
  <2>3. Persisted(taken) => Measured BY <2>2 DEF Measured, Enabled, Persisted
  <2> QED BY <1>1, <2>2, <2>3 DEF PersistInv, MeasuredIsTrained
<1>5. OpdShape' BY <1>1, <1>2, <1>3 DEF PersistInv, OpdShape
<1>6. MeasuredIsTrained'
  BY <1>1, <1>3 DEF PersistInv, MeasuredIsTrained, Measured, Enabled, Persisted, Alike
<1>7. RefusedUnpersisted' BY <1>1 DEF PersistInv, RefusedUnpersisted, Persisted
<1>8. PublishedIsTrained'
  <2>1. \A s \in OpdSteps : s # opdStep => opdSnaps'[s] = opdSnaps[s]
    BY <1>1 DEF PersistInv, OpdShape
  <2>2. ASSUME NEW s \in OpdSteps, manifest[s]
        PROVE  /\ Len(opdModel[s]) = s /\ opdSnaps'[s] = opdSnaps[s]
               /\ Persisted(opdModel[s]) => opdSnaps[s] = Alike(opdModel[s])
    BY <1>2, <2>1, <2>2 DEF PersistInv, PublishedIsTrained
  <2> QED BY <1>1, <2>2 DEF PublishedIsTrained, Persisted, Alike
<1>9. SaveHides'
  <2>1. Persisted(taken) => \A q \in wrote' : opdSnaps'[opdStep][q] = taken
    <3> SUFFICES ASSUME Persisted(taken), NEW q \in wrote'
                 PROVE  opdSnaps'[opdStep][q] = taken
      OBVIOUS
    <3>1. opdSnaps' = [opdSnaps EXCEPT ![opdStep][r] = taken] BY <1>1, <1>4 DEF Alike
    <3>2. opdSnaps \in [OpdSteps -> [Students -> Seq(Nat)]] BY DEF PersistInv, OpdShape
    <3>3. CASE q = r BY <1>2, <3>1, <3>2, <3>3
    <3>4. CASE q # r
      <4>1. q \in wrote BY <1>1, <3>4
      <4>2. opdSnaps'[opdStep][q] = opdSnaps[opdStep][q] BY <1>2, <3>1, <3>2, <3>4
      <4> QED BY <1>2, <4>1, <4>2
    <3> QED BY <3>3, <3>4
  <2>2. Persisted(taken)' <=> Persisted(taken) BY <1>1 DEF Persisted
  <2> QED BY <1>1, <1>2, <1>3, <2>1, <2>2 DEF SaveHides
<1> QED BY <1>5, <1>6, <1>7, <1>8, <1>9 DEF PersistInv

LEMMA PublishPersists ==
    ASSUME MaxOpdStep \in Nat, PersistInv, Publish
    PROVE  PersistInv'
<1>1. /\ opd = "write" /\ wrote = Students /\ opd' = "train"
      /\ manifest' = [manifest EXCEPT ![opdStep] = TRUE]
      /\ UNCHANGED <<settings, taken, frames, wrote, opdModel, opdSnaps, summary, refused>>
  BY DEF Publish
<1>2. /\ opdStep \in OpdSteps /\ opdModel[opdStep] = taken
      /\ Persisted(taken) => opdSnaps[opdStep] = Alike(taken)
  BY <1>1 DEF PersistInv, SaveHides, OpdShape, Alike
<1>3. opdJob' = opdJob /\ opdStep' = opdStep /\ setting' = setting
  BY <1>1 DEF opdJob, opdStep, setting
<1>4. OpdShape' BY <1>1, <1>2, <1>3 DEF PersistInv, OpdShape
<1>5. MeasuredIsTrained'
  BY <1>1, <1>3 DEF PersistInv, MeasuredIsTrained, Measured, Enabled, Persisted, Alike
<1>6. RefusedUnpersisted' BY <1>1 DEF PersistInv, RefusedUnpersisted, Persisted
<1>7. PublishedIsTrained'
  <2>1. Len(opdModel[opdStep]) = opdStep BY <1>2 DEF opdStep
  <2>2. \A s \in OpdSteps : manifest'[s] =>
            /\ Len(opdModel[s]) = s
            /\ Persisted(opdModel[s]) => opdSnaps[s] = Alike(opdModel[s])
    <3> SUFFICES ASSUME NEW s \in OpdSteps, manifest'[s]
                 PROVE  /\ Len(opdModel[s]) = s
                        /\ Persisted(opdModel[s]) => opdSnaps[s] = Alike(opdModel[s])
      OBVIOUS
    <3>1. CASE s = opdStep BY <1>2, <2>1, <3>1
    <3>2. CASE s # opdStep
      <4>1. manifest[s] BY <1>1, <3>2 DEF PersistInv, OpdShape
      <4> QED BY <4>1 DEF PersistInv, PublishedIsTrained
    <3> QED BY <3>1, <3>2
  <2> QED BY <1>1, <2>2 DEF PublishedIsTrained, Persisted, Alike
<1>8. SaveHides' BY <1>1 DEF SaveHides
<1> QED BY <1>4, <1>5, <1>6, <1>7, <1>8 DEF PersistInv

\* A job that persists publishes its report, of its own lineage.
LEMMA FinalizePersists ==
    ASSUME MaxOpdStep \in Nat, PersistInv, Finalize
    PROVE  PersistInv'
<1>1. /\ opd = "train" /\ opd' = "done"
      /\ summary' = IF setting = "on" THEN summary \cup {<<taken, frames>>} ELSE summary
      /\ UNCHANGED <<settings, taken, frames, wrote, opdModel, manifest, opdSnaps, refused>>
  BY DEF Finalize, opdSaved
<1>2. opdJob' = opdJob /\ opdStep' = opdStep /\ setting' = setting
  BY <1>1 DEF opdJob, opdStep, setting
<1>3. \A p \in summary' :
          p \in summary \/ (setting = "on" /\ p[1] = taken /\ p[2] = frames)
  <2> SUFFICES ASSUME NEW p \in summary', p \notin summary
               PROVE  setting = "on" /\ p[1] = taken /\ p[2] = frames
    OBVIOUS
  <2>1. summary' = IF setting = "on" THEN summary \cup {<<taken, frames>>} ELSE summary
    BY <1>1
  <2>2. setting = "on" BY <2>1
  <2>3. p \in summary \cup {<<taken, frames>>} BY <2>1, <2>2
  <2>4. p = <<taken, frames>> BY <2>3
  <2> QED BY <2>2, <2>4
<1>4. OpdShape'
  <2>1. \A p \in summary' : p[1] \in Seq(1 .. opdJob)
    BY <1>3 DEF PersistInv, OpdShape
  <2> QED BY <1>1, <1>2, <2>1 DEF PersistInv, OpdShape
<1>5. MeasuredIsTrained'
  <2>1. Measured => frames = Alike(taken) BY <1>1 DEF PersistInv, MeasuredIsTrained
  <2>2. Persisted(taken) /\ setting = "on" => Measured BY DEF Persisted, Measured, Enabled
  <2>3. \A p \in summary' : Persisted(p[1]) => p[2] = Alike(p[1])
    BY <1>3, <2>1, <2>2 DEF PersistInv, MeasuredIsTrained
  <2>4. Measured' <=> Measured BY <1>1, <1>2 DEF Measured, Enabled
  <2> QED BY <1>1, <2>1, <2>3, <2>4 DEF MeasuredIsTrained, Persisted, Alike
<1>6. RefusedUnpersisted' BY <1>1 DEF PersistInv, RefusedUnpersisted, Persisted
<1>7. PublishedIsTrained' BY <1>1 DEF PersistInv, PublishedIsTrained, Persisted, Alike
<1>8. SaveHides' BY <1>1 DEF SaveHides
<1> QED BY <1>4, <1>5, <1>6, <1>7, <1>8 DEF PersistInv

LEMMA StepPersists ==
    ASSUME MaxOpdStep \in Nat, PersistInv, [OpdNext]_opdVars
    PROVE  PersistInv'
<1>1. CASE UNCHANGED opdVars
  <2>1. UNCHANGED <<settings, opd, taken, frames, wrote, opdModel, manifest, opdSnaps, summary,
                    refused>>
    BY <1>1 DEF opdVars, opdSaved
  <2>2. opdJob' = opdJob /\ opdStep' = opdStep /\ setting' = setting
    BY <2>1 DEF opdJob, opdStep, setting
  <2>3. OpdShape' BY <2>1, <2>2 DEF PersistInv, OpdShape
  <2>4. MeasuredIsTrained'
    BY <2>1, <2>2 DEF PersistInv, MeasuredIsTrained, Measured, Enabled, Persisted, Alike
  <2>5. RefusedUnpersisted' BY <2>1 DEF PersistInv, RefusedUnpersisted, Persisted
  <2>6. PublishedIsTrained' BY <2>1 DEF PersistInv, PublishedIsTrained, Persisted, Alike
  <2>7. SaveHides' BY <2>1, <2>2 DEF PersistInv, SaveHides, Persisted
  <2> QED BY <2>3, <2>4, <2>5, <2>6, <2>7 DEF PersistInv
<1>2. CASE \E m \in Settings, s \in 0 .. MaxOpdStep : StartOpd(m, s)
  BY <1>2, StartPersists
<1>3. CASE \E saving \in BOOLEAN : TrainOpd(saving) BY <1>3, TrainPersists
<1>4. CASE BeginSave BY <1>4, BeginPersists
<1>5. CASE \E r \in Students : WriteFrames(r) BY <1>5, WritePersists
<1>6. CASE Publish BY <1>6, PublishPersists
<1>7. CASE Finalize BY <1>7, FinalizePersists
<1>8. CASE StopOpd
  <2>1. /\ opd' = "down"
        /\ UNCHANGED <<settings, taken, frames, wrote, opdModel, manifest, opdSnaps, summary,
                       refused>>
    BY <1>8 DEF StopOpd, opdSaved
  <2>2. opdJob' = opdJob /\ opdStep' = opdStep BY <2>1 DEF opdJob, opdStep
  <2>3. OpdShape' BY <2>1, <2>2 DEF PersistInv, OpdShape
  <2>4. MeasuredIsTrained' BY <2>1 DEF PersistInv, MeasuredIsTrained, Persisted, Alike
  <2>5. RefusedUnpersisted' BY <2>1 DEF PersistInv, RefusedUnpersisted, Persisted
  <2>6. PublishedIsTrained' BY <2>1 DEF PersistInv, PublishedIsTrained, Persisted, Alike
  <2>7. SaveHides' BY <2>1 DEF SaveHides
  <2> QED BY <2>3, <2>4, <2>5, <2>6, <2>7 DEF PersistInv
<1> QED BY <1>1, <1>2, <1>3, <1>4, <1>5, <1>6, <1>7, <1>8 DEF OpdNext

-----------------------------------------------------------------------------
\* While the jobs before the current one persisted their telemetry, each rank's monitor holds
\* the frames of the very steps the model took; so does every published report of a lineage
\* that was persisted throughout; and only a checkpoint some of whose steps were not persisted
\* is turned away (OPDTelemetryMonitor.from_checkpoint and finalize): for any ranks, steps,
\* jobs, settings of each job, and interleaving of saves, kills and resumes.
THEOREM OPDHistoryIsTrained ==
    ASSUME MaxOpdStep \in Nat
    PROVE  OpdSpec => [](MeasuredIsTrained /\ RefusedUnpersisted)
<1>1. OpdInit => PersistInv BY InitPersists
<1>2. PersistInv /\ [OpdNext]_opdVars => PersistInv' BY StepPersists
<1>3. PersistInv => MeasuredIsTrained /\ RefusedUnpersisted BY DEF PersistInv
<1> QED BY <1>1, <1>2, <1>3, PTL DEF OpdSpec

\* The frames of a monitor are those of the steps its model has taken, with either telemetry,
\* and OPD's refuses no resume of a lineage that was persisted, whatever each job is set to.
THEOREM BothHistoriesAreTrained ==
    ASSUME MaxOpdStep \in Nat
    PROVE  Spec /\ OpdSpec => []HistoriesAreTrained
<1>1. HistoryIsTrained /\ MeasuredIsTrained /\ RefusedUnpersisted => HistoriesAreTrained
  BY DEF HistoriesAreTrained
<1> QED BY <1>1, TelemetryHistoryIsTrained, OPDHistoryIsTrained, PTL

-----------------------------------------------------------------------------
(* The progress manager *)

\* The assumptions on the constants.
ProgressConstants ==
    /\ IsFiniteSet(Tasks) /\ "run.failure" \in Tasks
    /\ NoHolder \notin Threads

TaskRecord ==
    [state : {"none", "running", "succeeded", "failed", "cancelled"}, generation : Nat,
     current : Nat, bounded : BOOLEAN, order : Nat]
Publication == [revision : Nat, tasks : [Tasks -> TaskRecord], lifecycle : BOOLEAN]

ManagerShape ==
    /\ tasks \in [Tasks -> TaskRecord] /\ revision \in Nat
    /\ publications \in Seq(Publication)
    /\ closing \in BOOLEAN /\ closed \in BOOLEAN

ThreadShape ==
    /\ holder \in Threads \cup {NoHolder}
    /\ threads \in [Threads -> {"idle", "publish", "deliver", "todo", "close"}]
    /\ mine \in [Threads -> Nat] /\ turn \in [Threads -> {"terminal", "json", "end"}]
    /\ todo \in [Threads -> Seq(Tasks \X Nat)]
    /\ after \in [Threads -> {"return", "fail", "start", "close"}]

SinkShape ==
    /\ sinks \subseteq {"terminal", "json"}
    /\ latest \in [revision : Nat, tasks : [Tasks -> TaskRecord]]
    /\ progressFile \in [Tasks -> TaskRecord]
    /\ seen \in [{"terminal", "json"} -> Seq(Nat)]

\* The publications that are due are the last revisions, one after the other, and whoever made
\* the last one has yet to see it delivered.  If no task runs, the last one ended a task.
Due ==
    /\ Len(publications) <= revision /\ \A t \in Threads : mine[t] <= revision
    /\ \A i \in 1 .. Len(publications) : publications[i].revision = Published + i
    /\ publications # <<>> =>
           /\ publications[Len(publications)].tasks = tasks
           /\ RunningTasks(tasks) = {} => publications[Len(publications)].lifecycle
           /\ \E t \in Threads : threads[t] \in {"publish", "deliver"} /\ mine[t] = revision

\* One thread at most delivers, and only what is due.
OneDelivers ==
    /\ \A t \in Threads : threads[t] = "deliver" <=> holder = t
    /\ \A t \in Threads : holder = t => publications # <<>>
    /\ \A t \in Threads : threads[t] # "deliver" => turn[t] = "terminal"

\* The sink has got the publication that is being delivered.
Passed(s) ==
    \E t \in Threads : holder = t /\ turn[t] \in IF s = "terminal" THEN {"json", "end"} ELSE {"end"}

Followed ==
    \A s \in sinks :
        /\ Len(seen[s]) = Published + IF Passed(s) THEN 1 ELSE 0
        /\ \A i \in 1 .. Len(seen[s]) : seen[s][i] = i

FileFollows ==
    "json" \in sinks =>
        /\ latest.revision = Len(seen["json"])
        /\ latest.revision = revision /\ revision > 0 =>
              /\ latest.tasks = tasks
              /\ RunningTasks(tasks) = {} => progressFile = tasks

\* Thread t has a handle of every task that runs.
Covered(t) ==
    \A k \in RunningTasks(tasks) :
        \E i \in 1 .. Len(todo[t]) : todo[t][i] = <<k, tasks[k].generation>>

\* Whoever closes the manager finishes all that runs, since nothing starts any more.
Closes ==
    /\ \A t \in Threads : after[t] = "close" => closing /\ Covered(t)
    /\ closed => closing /\ RunningTasks(tasks) = {}

\* Tasks that run were started one after the other.
StartOrder ==
    /\ \A k \in Tasks : tasks[k].order <= revision
    /\ \A k, l \in RunningTasks(tasks) : tasks[k].order = tasks[l].order => k = l

ProgressShape == ManagerShape /\ ThreadShape /\ SinkShape
ProgressInv ==
    ProgressShape /\ Due /\ OneDelivers /\ Followed /\ FileFollows /\ Closes /\ StartOrder

-----------------------------------------------------------------------------
\* The handles are those of the running tasks, each with its generation.
LEMMA HandlesCover ==
    ASSUME IsFiniteSet(Tasks), ManagerShape, StartOrder
    PROVE  /\ Handles \in Seq(Tasks \X Nat)
           /\ \A k \in RunningTasks(tasks) :
                 \E i \in 1 .. Len(Handles) : Handles[i] = <<k, tasks[k].generation>>
<1> DEFINE run == RunningTasks(tasks)
           G(k) == {o \in run : tasks[o].order >= tasks[k].order}
           n == Cardinality(run)
           f == [k \in run |-> Cardinality(G(k))]
           task(i) == CHOOSE k \in run : Cardinality(G(k)) = i
<1>1. run \subseteq Tasks /\ IsFiniteSet(run) /\ n \in Nat
  <2>1. run \in SUBSET Tasks BY DEF RunningTasks
  <2> QED BY <2>1, FS_Subset, FS_CardinalityType
<1>2. \A k \in run : tasks[k].order \in Nat
  BY <1>1 DEF ManagerShape, TaskRecord
<1>3. ASSUME NEW k \in run PROVE G(k) \in SUBSET run /\ IsFiniteSet(G(k)) /\ f[k] \in 1 .. n
  <2>1. G(k) \in SUBSET run /\ k \in G(k) BY <1>2
  <2>2. IsFiniteSet(G(k)) /\ Cardinality(G(k)) <= n /\ Cardinality(G(k)) \in Nat
    BY <1>1, <2>1, FS_Subset, FS_CardinalityType
  <2>3. Cardinality(G(k)) # 0 BY <2>1, <2>2, FS_EmptySet
  <2> QED BY <1>1, <2>1, <2>2, <2>3
<1>4. ASSUME NEW k \in run, NEW l \in run, tasks[k].order < tasks[l].order PROVE f[l] < f[k]
  <2>1. G(l) \in SUBSET G(k) /\ k \notin G(l) /\ k \in G(k) BY <1>2, <1>4
  <2>2. Cardinality(G(l)) <= Cardinality(G(k)) /\ Cardinality(G(l)) # Cardinality(G(k))
    BY <1>3, <2>1, FS_Subset
  <2>3. f[k] = Cardinality(G(k)) /\ f[l] = Cardinality(G(l)) OBVIOUS
  <2>4. f[k] \in 1 .. n /\ f[l] \in 1 .. n BY <1>3
  <2> HIDE DEF f, G, n
  <2> QED BY <1>1, <2>2, <2>3, <2>4
<1>5. \A k, l \in run : f[k] = f[l] => k = l
  <2> SUFFICES ASSUME NEW k \in run, NEW l \in run, k # l PROVE f[k] # f[l] OBVIOUS
  <2>1. tasks[k].order # tasks[l].order BY DEF StartOrder
  <2>2. f[k] < f[l] \/ f[l] < f[k] BY <1>2, <1>4, <2>1
  <2>3. f[k] \in 1 .. n /\ f[l] \in 1 .. n BY <1>3
  <2> HIDE DEF f, n
  <2> QED BY <1>1, <2>2, <2>3
<1>6. f \in Injection(run, 1 .. n)
  <2>1. f \in [run -> 1 .. n] BY <1>3
  <2> HIDE DEF f, n
  <2> QED BY <1>5, <2>1, Fun_IsInj
<1>7. \A i \in 1 .. n : \E k \in run : f[k] = i
  <2>1. IsFiniteSet(1 .. n) /\ Cardinality(1 .. n) = n BY <1>1, FS_Interval
  <2>2. f \in Surjection(run, 1 .. n)
    <3> HIDE DEF f
    <3> QED BY <1>6, <2>1, FS_Injection
  <2> HIDE DEF f, n
  <2> QED BY <2>2 DEF Surjection
<1>8. \A i \in 1 .. n : task(i) \in run BY <1>7
<1>9. \A k \in run : task(f[k]) = k
  <2> SUFFICES ASSUME NEW k \in run PROVE task(f[k]) = k OBVIOUS
  <2>1. task(f[k]) \in run /\ Cardinality(G(task(f[k]))) = f[k] OBVIOUS
  <2>2. f[task(f[k])] = f[k] BY <2>1
  <2> HIDE DEF f, task, run
  <2> QED BY <1>5, <2>1, <2>2
<1>10. Handles = [i \in 1 .. n |-> <<task(i), tasks[task(i)].generation>>]
  BY DEF Handles
<1>11. Handles \in [1 .. n -> Tasks \X Nat]
  <2>1. \A k \in run : tasks[k].generation \in Nat BY <1>1 DEF ManagerShape, TaskRecord
  <2> HIDE DEF run, n, task
  <2> QED BY <1>1, <1>8, <1>10, <2>1
<1>12. Handles \in Seq(Tasks \X Nat) /\ Len(Handles) = n
  <2> HIDE DEF n
  <2> QED BY <1>1, <1>11
<1>13. ASSUME NEW k \in run PROVE Handles[f[k]] = <<k, tasks[k].generation>>
  <2>1. f[k] \in 1 .. n BY <1>3
  <2> HIDE DEF f, task, n, run
  <2> QED BY <1>9, <1>10, <2>1
<1> HIDE DEF f, n
<1> QED BY <1>3, <1>12, <1>13

-----------------------------------------------------------------------------
LEMMA InitProgress ==
    ASSUME ProgressConstants, ProgressInit
    PROVE  ProgressInv
<1>1. ProgressShape
  <2>1. NoTask \in [Tasks -> TaskRecord] BY DEF NoTask, Unborn, TaskRecord
  <2>2. publications \in Seq(Publication) /\ \A t \in Threads : todo[t] \in Seq(Tasks \X Nat)
    BY DEF ProgressInit
  <2>3. todo \in [Threads -> Seq(Tasks \X Nat)] BY <2>2 DEF ProgressInit
  <2>4. seen \in [{"terminal", "json"} -> Seq(Nat)] BY DEF ProgressInit
  <2> QED BY <2>1, <2>2, <2>3, <2>4
          DEF ProgressInit, ProgressShape, ManagerShape, ThreadShape, SinkShape
<1>2. RunningTasks(tasks) = {} BY DEF ProgressInit, NoTask, Unborn, RunningTasks
<1>3. Due /\ Published = 0
  <2>1. publications = <<>> /\ Len(publications) = 0 /\ revision = 0 BY DEF ProgressInit
  <2>2. \A t \in Threads : mine[t] <= revision BY DEF ProgressInit
  <2>3. (\A i \in 1 .. Len(publications) : FALSE) /\ ~(publications # <<>>) BY <2>1
  <2>4. Len(publications) <= revision BY <2>1
  <2>5. Due BY <2>2, <2>3, <2>4, Zenon DEF Due
  <2>6. Published = 0
    <3> DEFINE n == Len(publications)
    <3>1. Published = revision - n BY DEF Published
    <3>2. n = 0 /\ revision = 0 BY <2>1
    <3> HIDE DEF n
    <3> QED BY <3>1, <3>2
  <2> QED BY <2>5, <2>6
<1>4. OneDelivers /\ \A s \in sinks : ~Passed(s)
  <2>1. \A t \in Threads : threads[t] = "idle" /\ holder # t /\ turn[t] = "terminal"
    BY DEF ProgressInit, ProgressConstants
  <2> QED BY <2>1 DEF OneDelivers, Passed
<1>5. Followed /\ FileFollows
  <2>1. \A s \in sinks : seen[s] = <<>> /\ Len(seen[s]) = 0 BY DEF ProgressInit
  <2> QED BY <1>3, <1>4, <2>1 DEF ProgressInit, Followed, FileFollows
<1>6. Closes /\ StartOrder
  <2>1. \A t \in Threads : after[t] # "close" BY DEF ProgressInit
  <2>2. \A k \in Tasks : tasks[k].order <= revision BY DEF ProgressInit, NoTask, Unborn
  <2> QED BY <1>2, <2>1, <2>2 DEF ProgressInit, Closes, StartOrder
<1> QED BY <1>1, <1>3, <1>4, <1>5, <1>6 DEF ProgressInv

\* A change of a task, which starts it only while the manager is open, and is of the kind that
\* no sink skips unless the task goes on.
Change(k, v, lifecycle) ==
    /\ v \in TaskRecord /\ v.order <= revision + 1
    /\ v.state = "running" =>
           \/ /\ tasks[k].state = "running"
              /\ v.order = tasks[k].order /\ v.generation = tasks[k].generation
           \/ v.order = revision + 1 /\ ~closing
    /\ lifecycle \/ v.state = "running"

\* A thread that is not publishing commits a change.
LEMMA CommitChangeKeeps ==
    ASSUME ProgressConstants, ProgressInv, NEW t \in Threads, NEW k \in Tasks, NEW v,
           NEW lifecycle \in BOOLEAN, Change(k, v, lifecycle),
           CommitChange(t, k, v, lifecycle), threads[t] \in {"idle", "todo"},
           todo' \in [Threads -> Seq(Tasks \X Nat)],
           after' \in [Threads -> {"return", "fail", "start", "close"}]
    PROVE  /\ ProgressShape' /\ Due' /\ OneDelivers' /\ Followed' /\ FileFollows' /\ StartOrder'
           /\ closing' = closing /\ (closed' => closing' /\ RunningTasks(tasks') = {})
           /\ \A u \in Threads :
                  after[u] = "close" /\ todo'[u] = todo[u] => closing' /\ Covered(u)'
<1> DEFINE p == [revision |-> revision', tasks |-> tasks', lifecycle |-> lifecycle]
<1>1. /\ tasks' = [tasks EXCEPT ![k] = v] /\ revision' = revision + 1
      /\ publications' = Append(publications, p)
      /\ mine' = [mine EXCEPT ![t] = revision'] /\ threads' = [threads EXCEPT ![t] = "publish"]
      /\ UNCHANGED <<sinks, closing, closed, holder, turn, latest, progressFile, unsaved, seen>>
  BY DEF CommitChange, json
<1>2. /\ tasks \in [Tasks -> TaskRecord] /\ revision \in Nat /\ publications \in Seq(Publication)
      /\ threads \in [Threads -> {"idle", "publish", "deliver", "todo", "close"}]
      /\ mine \in [Threads -> Nat]
  BY DEF ProgressInv, ProgressShape, ManagerShape, ThreadShape
<1>3. v \in TaskRecord BY DEF Change
<1>4. tasks' \in [Tasks -> TaskRecord] /\ p \in Publication
  <2>1. tasks' \in [Tasks -> TaskRecord] BY <1>1, <1>2, <1>3
  <2> QED BY <1>1, <1>2, <2>1 DEF Publication
<1>5. /\ publications' \in Seq(Publication) /\ Len(publications') = Len(publications) + 1
      /\ \A i \in 1 .. Len(publications) : publications'[i] = publications[i]
      /\ publications'[Len(publications) + 1] = p /\ Len(publications) \in Nat
  <2> HIDE DEF p
  <2> QED BY <1>1, <1>2, <1>4, AppendProperties, LenProperties
<1>6. ProgressShape'
  <2>1. ManagerShape' BY <1>1, <1>2, <1>4, <1>5 DEF ProgressInv, ProgressShape, ManagerShape
  <2>2. ThreadShape' BY <1>1, <1>2 DEF ProgressInv, ProgressShape, ThreadShape
  <2>3. SinkShape' BY <1>1 DEF ProgressInv, ProgressShape, SinkShape
  <2> QED BY <2>1, <2>2, <2>3 DEF ProgressShape
<1>7. Published' = Published BY <1>1, <1>2, <1>5 DEF Published
<1>8. RunningTasks(tasks') = {} => lifecycle
  BY <1>1, <1>2, <1>3 DEF Change, RunningTasks
<1>9. Due'
  <2>1. Len(publications') <= revision' BY <1>1, <1>2, <1>5 DEF ProgressInv, Due
  <2>2. \A i \in 1 .. Len(publications') : publications'[i].revision = Published' + i
    <3> SUFFICES ASSUME NEW i \in 1 .. Len(publications')
                 PROVE  publications'[i].revision = Published' + i
      OBVIOUS
    <3>1. CASE i \in 1 .. Len(publications) BY <1>5, <1>7, <3>1 DEF ProgressInv, Due
    <3>2. CASE i = Len(publications) + 1
      BY <1>1, <1>2, <1>5, <1>7, <3>2 DEF Published
    <3> QED BY <1>5, <3>1, <3>2
  <2>3. threads'[t] = "publish" /\ mine'[t] = revision' BY <1>1, <1>2
  <2>4. \A u \in Threads : mine'[u] <= revision' BY <1>1, <1>2 DEF ProgressInv, Due
  <2> QED BY <1>5, <1>8, <2>1, <2>2, <2>3, <2>4 DEF Due
<1>10. OneDelivers'
  <2>1. publications' # <<>> BY <1>5, <1>6 DEF ProgressShape, ManagerShape
  <2> QED BY <1>1, <1>2, <2>1 DEF ProgressInv, OneDelivers
<1>11. Followed' BY <1>1, <1>7 DEF ProgressInv, Followed, Passed
<1>12. FileFollows'
  <2> SUFFICES ASSUME "json" \in sinks PROVE latest.revision = Len(seen["json"]) /\ latest.revision < revision'
    BY <1>1, <1>2 DEF FileFollows, ProgressInv, ProgressShape, SinkShape
  <2>1. Len(seen["json"]) = Published + IF Passed("json") THEN 1 ELSE 0
    BY DEF ProgressInv, Followed
  <2>2. Passed("json") => Len(publications) > 0
    BY <1>2 DEF ProgressInv, OneDelivers, Passed
  <2> QED BY <1>1, <1>2, <1>5, <2>1, <2>2 DEF Published, ProgressInv, FileFollows
<1>13. StartOrder'
  <2>1. \A o \in Tasks : tasks[o].order <= revision /\ tasks[o].order \in Nat
    BY <1>2 DEF ProgressInv, StartOrder, TaskRecord
  <2>2. ASSUME NEW o \in Tasks PROVE tasks'[o].order <= revision'
    BY <1>1, <1>2, <2>1 DEF Change
  <2>3. ASSUME NEW o \in RunningTasks(tasks'), o # k
        PROVE  o \in RunningTasks(tasks) /\ tasks'[o] = tasks[o]
    BY <1>1, <1>2, <2>3 DEF RunningTasks
  <2>4. k \in RunningTasks(tasks') =>
            \/ k \in RunningTasks(tasks) /\ tasks'[k].order = tasks[k].order
            \/ tasks'[k].order = revision + 1
    BY <1>1, <1>2 DEF Change, RunningTasks
  <2>5. ASSUME NEW o \in RunningTasks(tasks'), o # k, k \in RunningTasks(tasks')
        PROVE  tasks'[o].order # tasks'[k].order
    <3>1. o \in Tasks /\ o \in RunningTasks(tasks) /\ tasks'[o] = tasks[o]
      BY <2>3, <2>5 DEF RunningTasks
    <3> QED BY <1>2, <2>1, <2>4, <2>5, <3>1 DEF ProgressInv, StartOrder
  <2>6. ASSUME NEW o \in RunningTasks(tasks'), NEW q \in RunningTasks(tasks'),
               tasks'[o].order = tasks'[q].order
        PROVE  o = q
    <3>1. CASE o # k /\ q # k BY <2>3, <2>6, <3>1 DEF ProgressInv, StartOrder
    <3>2. CASE o = k \/ q = k BY <2>5, <2>6, <3>2
    <3> QED BY <3>1, <3>2
  <2> QED BY <2>2, <2>6 DEF StartOrder
<1>14. closing => \A o \in RunningTasks(tasks') :
           o \in RunningTasks(tasks) /\ tasks'[o].generation = tasks[o].generation
  BY <1>1, <1>2 DEF Change, RunningTasks
<1>15. closed' => closing' /\ RunningTasks(tasks') = {} BY <1>1, <1>14 DEF ProgressInv, Closes
<1>16. ASSUME NEW u \in Threads, after[u] = "close", todo'[u] = todo[u]
       PROVE  closing' /\ Covered(u)'
  <2>1. closing /\ Covered(u) BY <1>16 DEF ProgressInv, Closes
  <2>2. \A o \in RunningTasks(tasks') :
            \E i \in 1 .. Len(todo[u]) : todo[u][i] = <<o, tasks'[o].generation>>
    BY <1>14, <2>1 DEF Covered
  <2> QED BY <1>1, <1>16, <2>1, <2>2 DEF Covered
<1> QED BY <1>1, <1>6, <1>9, <1>10, <1>11, <1>12, <1>13, <1>15, <1>16

LEMMA StartTaskKeeps ==
    ASSUME ProgressConstants, ProgressInv, NEW t \in Threads, NEW k \in Tasks,
           NEW bounded \in BOOLEAN, StartTask(t, k, bounded)
    PROVE  ProgressInv'
<1> DEFINE v == Begun(k, bounded)
<1>1. Change(k, v, TRUE)
  <2>1. tasks[k] \in TaskRecord /\ revision \in Nat BY DEF ProgressInv, ProgressShape, ManagerShape
  <2> QED BY <2>1 DEF Begun, TaskRecord, Change, StartTask, Open
<1>2. /\ CommitChange(t, k, v, TRUE) /\ threads[t] \in {"idle", "todo"}
      /\ todo' = todo /\ after' = after
  BY DEF StartTask, Calls
<1>3. todo \in [Threads -> Seq(Tasks \X Nat)] /\ after \in [Threads -> {"return", "fail", "start", "close"}]
  BY DEF ProgressInv, ProgressShape, ThreadShape
<1> HIDE DEF v
<1>4. /\ ProgressShape' /\ Due' /\ OneDelivers' /\ Followed' /\ FileFollows' /\ StartOrder'
      /\ closed' => closing' /\ RunningTasks(tasks') = {}
      /\ \A u \in Threads : after[u] = "close" => closing' /\ Covered(u)'
  BY <1>1, <1>2, <1>3, CommitChangeKeeps
<1> QED BY <1>2, <1>4 DEF ProgressInv, Closes

\* A task that goes on keeps its order and its generation.
LEMMA GoesOn ==
    ASSUME ProgressInv, NEW k \in Tasks, tasks[k].state = "running",
           NEW v \in TaskRecord, NEW lifecycle \in BOOLEAN,
           v.order = tasks[k].order, v.generation = tasks[k].generation,
           lifecycle \/ v.state = "running"
    PROVE  Change(k, v, lifecycle)
<1>1. tasks[k].order <= revision /\ tasks[k].order \in Nat /\ revision \in Nat
  BY DEF ProgressInv, StartOrder, ProgressShape, ManagerShape, TaskRecord
<1> QED BY <1>1 DEF Change

LEMMA UpdateKeeps ==
    ASSUME ProgressConstants, ProgressInv, NEW t \in Threads, NEW k \in Tasks,
           NEW bounded \in BOOLEAN, Update(t, k, bounded)
    PROVE  ProgressInv'
<1> DEFINE v == [tasks[k] EXCEPT !.current = @ + 1, !.bounded = bounded]
<1>1. Change(k, v, FALSE)
  <2>1. tasks[k] \in TaskRecord /\ tasks[k].state = "running"
    BY DEF ProgressInv, ProgressShape, ManagerShape, Update
  <2>2. /\ v \in TaskRecord /\ v.state = "running"
        /\ v.order = tasks[k].order /\ v.generation = tasks[k].generation
    <3> DEFINE w == [tasks[k] EXCEPT !.current = @ + 1]
    <3>1. /\ w \in TaskRecord /\ w.state = "running"
          /\ w.order = tasks[k].order /\ w.generation = tasks[k].generation
      BY <2>1 DEF TaskRecord
    <3>2. v = [w EXCEPT !.bounded = bounded] OBVIOUS
    <3> HIDE DEF w, v
    <3> QED BY <3>1, <3>2 DEF TaskRecord
  <2> HIDE DEF v
  <2> QED BY <2>1, <2>2, GoesOn
<1>2. /\ CommitChange(t, k, v, FALSE) /\ threads[t] \in {"idle", "todo"}
      /\ todo' = todo /\ after' = after
  BY DEF Update, Calls
<1>3. todo \in [Threads -> Seq(Tasks \X Nat)] /\ after \in [Threads -> {"return", "fail", "start", "close"}]
  BY DEF ProgressInv, ProgressShape, ThreadShape
<1> HIDE DEF v
<1>4. /\ ProgressShape' /\ Due' /\ OneDelivers' /\ Followed' /\ FileFollows' /\ StartOrder'
      /\ closed' => closing' /\ RunningTasks(tasks') = {}
      /\ \A u \in Threads : after[u] = "close" => closing' /\ Covered(u)'
  BY <1>1, <1>2, <1>3, CommitChangeKeeps
<1> QED BY <1>2, <1>4 DEF ProgressInv, Closes

LEMMA FinishKeeps ==
    ASSUME ProgressConstants, ProgressInv, NEW t \in Threads, NEW k \in Tasks,
           NEW state \in {"succeeded", "failed"}, FinishTask(t, k, state)
    PROVE  ProgressInv'
<1> DEFINE v == [tasks[k] EXCEPT !.state = state]
<1>1. Change(k, v, TRUE)
  <2>1. tasks[k] \in TaskRecord /\ tasks[k].state = "running"
    BY DEF ProgressInv, ProgressShape, ManagerShape, FinishTask
  <2>2. v \in TaskRecord /\ v.order = tasks[k].order /\ v.generation = tasks[k].generation
    BY <2>1 DEF TaskRecord
  <2> HIDE DEF v
  <2> QED BY <2>1, <2>2, GoesOn
<1>2. /\ CommitChange(t, k, v, TRUE) /\ threads[t] \in {"idle", "todo"}
      /\ todo' = todo /\ after' = after
  BY DEF FinishTask, Calls
<1>3. todo \in [Threads -> Seq(Tasks \X Nat)] /\ after \in [Threads -> {"return", "fail", "start", "close"}]
  BY DEF ProgressInv, ProgressShape, ThreadShape
<1> HIDE DEF v
<1>4. /\ ProgressShape' /\ Due' /\ OneDelivers' /\ Followed' /\ FileFollows' /\ StartOrder'
      /\ closed' => closing' /\ RunningTasks(tasks') = {}
      /\ \A u \in Threads : after[u] = "close" => closing' /\ Covered(u)'
  BY <1>1, <1>2, <1>3, CommitChangeKeeps
<1> QED BY <1>2, <1>4 DEF ProgressInv, Closes

LEMMA StartFailureKeeps ==
    ASSUME ProgressConstants, ProgressInv, NEW t \in Threads, StartFailure(t)
    PROVE  ProgressInv'
<1> DEFINE k == "run.failure"
           v == Begun(k, FALSE)
<1>1. Change(k, v, TRUE) /\ k \in Tasks
  <2>1. k \in Tasks /\ tasks[k] \in TaskRecord /\ revision \in Nat
    BY DEF ProgressConstants, ProgressInv, ProgressShape, ManagerShape
  <2> QED BY <2>1 DEF Begun, TaskRecord, Change, StartFailure, Open
<1>2. /\ CommitChange(t, k, v, TRUE) /\ threads[t] \in {"idle", "todo"}
      /\ todo' = [todo EXCEPT ![t] = <<<<k, tasks'[k].generation>>>>]
      /\ after' = [after EXCEPT ![t] = "fail"]
  BY DEF StartFailure
<1>3. todo \in [Threads -> Seq(Tasks \X Nat)] /\ after \in [Threads -> {"return", "fail", "start", "close"}]
  BY DEF ProgressInv, ProgressShape, ThreadShape
<1>4. tasks'[k].generation \in Nat
  <2>1. tasks'[k] = v BY <1>1, <1>2 DEF CommitChange, ProgressInv, ProgressShape, ManagerShape
  <2> QED BY <1>1, <2>1 DEF Change, TaskRecord
<1> HIDE DEF v, k
<1>5. <<<<k, tasks'[k].generation>>>> \in Seq(Tasks \X Nat) BY <1>1, <1>4
<1>6. /\ todo' \in [Threads -> Seq(Tasks \X Nat)]
      /\ after' \in [Threads -> {"return", "fail", "start", "close"}]
      /\ \A u \in Threads : after'[u] = "close" => after[u] = "close" /\ todo'[u] = todo[u]
  BY <1>2, <1>3, <1>5
<1>7. /\ ProgressShape' /\ Due' /\ OneDelivers' /\ Followed' /\ FileFollows' /\ StartOrder'
      /\ closed' => closing' /\ RunningTasks(tasks') = {}
      /\ \A u \in Threads : after[u] = "close" /\ todo'[u] = todo[u] => closing' /\ Covered(u)'
  BY <1>1, <1>2, <1>6, CommitChangeKeeps
<1> QED BY <1>6, <1>7 DEF ProgressInv, Closes

\* A thread that neither publishes nor delivers goes on to something of that kind.
LEMMA Aside ==
    ASSUME ProgressConstants, ProgressInv, NEW t \in Threads,
           NEW x \in {"idle", "todo", "close"}, threads[t] \in {"idle", "todo", "close"},
           threads' = [threads EXCEPT ![t] = x],
           UNCHANGED <<tasks, revision, publications, holder, mine, turn, latest, seen, sinks>>
    PROVE  Due' /\ OneDelivers' /\ Followed' /\ StartOrder'
<1>1. /\ threads \in [Threads -> {"idle", "publish", "deliver", "todo", "close"}]
      /\ \A u \in Threads : threads'[u] = IF u = t THEN x ELSE threads[u]
  BY DEF ProgressInv, ProgressShape, ThreadShape
<1>2. Due' BY <1>1 DEF ProgressInv, Due, Published
<1>3. OneDelivers' BY <1>1 DEF ProgressInv, OneDelivers
<1>4. Followed' BY DEF ProgressInv, Followed, Passed, Published
<1>5. StartOrder' BY DEF ProgressInv, StartOrder
<1> QED BY <1>2, <1>3, <1>4, <1>5

LEMMA SameCover ==
    ASSUME NEW u \in Threads, todo'[u] = todo[u], tasks' = tasks, Covered(u)
    PROVE  Covered(u)'
BY DEF Covered

LEMMA RecordFailureKeeps ==
    ASSUME ProgressConstants, ProgressInv, NEW t \in Threads, RecordFailure(t)
    PROVE  ProgressInv'
<1>1. /\ threads[t] = "idle" /\ threads' = [threads EXCEPT ![t] = "todo"]
      /\ todo' = [todo EXCEPT ![t] = Handles]
      /\ after'[t] \in {"start", "fail"} /\ \E a : after' = [after EXCEPT ![t] = a]
      /\ UNCHANGED <<manager, sinks, holder, mine, turn, json, seen>>
  <2>1. after \in [Threads -> {"return", "fail", "start", "close"}]
    BY DEF ProgressInv, ProgressShape, ThreadShape
  <2> QED BY <2>1 DEF RecordFailure, Calls
<1>2. Due' /\ OneDelivers' /\ Followed' /\ StartOrder' BY <1>1, Aside DEF manager, json
<1>3. FileFollows' BY <1>1 DEF manager, json, ProgressInv, FileFollows
<1>4. Handles \in Seq(Tasks \X Nat)
  BY HandlesCover DEF ProgressConstants, ProgressInv, ProgressShape
<1>5. ProgressShape'
  <2>1. ManagerShape' /\ SinkShape'
    BY <1>1 DEF manager, json, ProgressInv, ProgressShape, ManagerShape, SinkShape
  <2>2. ThreadShape' BY <1>1, <1>4 DEF ProgressInv, ProgressShape, ThreadShape
  <2> QED BY <2>1, <2>2 DEF ProgressShape
<1>6. Closes'
  <2>1. \A u \in Threads : after'[u] = "close" => u # t /\ after[u] = "close" /\ todo'[u] = todo[u]
    BY <1>1 DEF ProgressInv, ProgressShape, ThreadShape
  <2>2. \A u \in Threads : after[u] = "close" => closing /\ Covered(u)
    BY DEF ProgressInv, Closes
  <2> QED BY <1>1, <2>1, <2>2, SameCover DEF manager, ProgressInv, Closes
<1> QED BY <1>2, <1>3, <1>5, <1>6 DEF ProgressInv

LEMMA CloseKeeps ==
    ASSUME ProgressConstants, ProgressInv, NEW t \in Threads, Close(t)
    PROVE  ProgressInv'
<1>1. /\ threads[t] = "idle" /\ threads' = [threads EXCEPT ![t] = "todo"] /\ closing' /\ ~closed'
      /\ closing' \in BOOLEAN
      /\ todo' = [todo EXCEPT ![t] = Handles] /\ after' = [after EXCEPT ![t] = "close"]
      /\ UNCHANGED <<tasks, revision, publications, closed, sinks, holder, mine, turn, json, seen>>
  BY DEF Close, Open
<1>2. Due' /\ OneDelivers' /\ Followed' /\ StartOrder' BY <1>1, Aside DEF json
<1>3. FileFollows' BY <1>1 DEF json, ProgressInv, FileFollows
<1>4. /\ Handles \in Seq(Tasks \X Nat)
      /\ \A k \in RunningTasks(tasks) :
             \E i \in 1 .. Len(Handles) : Handles[i] = <<k, tasks[k].generation>>
  BY HandlesCover DEF ProgressConstants, ProgressInv, ProgressShape
<1>5. ProgressShape'
  <2>1. ManagerShape' /\ SinkShape'
    BY <1>1 DEF json, ProgressInv, ProgressShape, ManagerShape, SinkShape
  <2>2. ThreadShape' BY <1>1, <1>4 DEF ProgressInv, ProgressShape, ThreadShape
  <2> QED BY <2>1, <2>2 DEF ProgressShape
<1>6. Closes'
  <2>1. \A u \in Threads : after'[u] = "close" => Covered(u)'
    <3>1. todo'[t] = Handles BY <1>1 DEF ProgressInv, ProgressShape, ThreadShape
    <3>2. Covered(t)'
      <4> HIDE DEF Handles
      <4> QED BY <1>1, <1>4, <3>1 DEF Covered
    <3>3. ASSUME NEW u \in Threads, u # t, after'[u] = "close" PROVE Covered(u)'
      <4>1. after[u] = "close" /\ todo'[u] = todo[u]
        BY <1>1, <3>3 DEF ProgressInv, ProgressShape, ThreadShape
      <4>2. Covered(u) BY <4>1 DEF ProgressInv, Closes
      <4> QED BY <1>1, <4>1, <4>2, SameCover
    <3> QED BY <3>2, <3>3
  <2> QED BY <1>1, <2>1 DEF Closes
<1> QED BY <1>2, <1>3, <1>5, <1>6 DEF ProgressInv

LEMMA FinishHandleKeeps ==
    ASSUME ProgressConstants, ProgressInv, NEW t \in Threads, FinishHandle(t)
    PROVE  ProgressInv'
<1> DEFINE k == todo[t][1][1]
           state == IF after[t] = "close" THEN "cancelled" ELSE "failed"
           v == [tasks[k] EXCEPT !.state = state]
           mineToo == tasks[k].state = "running" /\ tasks[k].generation = todo[t][1][2]
<1>1. /\ threads[t] = "todo" /\ todo[t] # <<>> /\ after' = after
      /\ todo' = [todo EXCEPT ![t] = Tail(todo[t])]
      /\ IF mineToo THEN CommitChange(t, k, v, TRUE)
         ELSE UNCHANGED <<manager, sinks, holder, threads, mine, turn, json, seen>>
  BY DEF FinishHandle
<1>2. /\ todo \in [Threads -> Seq(Tasks \X Nat)] /\ todo[t] \in Seq(Tasks \X Nat)
      /\ after \in [Threads -> {"return", "fail", "start", "close"}]
      /\ tasks \in [Tasks -> TaskRecord]
  BY DEF ProgressInv, ProgressShape, ThreadShape, ManagerShape
<1>3. /\ k \in Tasks /\ todo[t][1] = <<k, todo[t][1][2]>>
      /\ Tail(todo[t]) \in Seq(Tasks \X Nat) /\ Len(todo[t]) \in Nat
      /\ Len(Tail(todo[t])) = Len(todo[t]) - 1
      /\ \A i \in 1 .. Len(todo[t]) - 1 : Tail(todo[t])[i] = todo[t][i + 1]
  <2>1. 1 \in 1 .. Len(todo[t]) /\ todo[t][1] \in Tasks \X Nat
    BY <1>1, <1>2, EmptySeq, LenProperties, ElementOfSeq
  <2>2. Len(todo[t]) \in Nat /\ k \in Tasks /\ todo[t][1] = <<k, todo[t][1][2]>>
    BY <1>2, <2>1, LenProperties
  <2> HIDE DEF k
  <2> QED BY <1>1, <1>2, <2>1, <2>2, HeadTailProperties
<1>4. /\ todo' \in [Threads -> Seq(Tasks \X Nat)]
      /\ todo'[t] = Tail(todo[t]) /\ \A u \in Threads : u # t => todo'[u] = todo[u]
  BY <1>1, <1>2, <1>3
<1> HIDE DEF k
<1>5. CASE mineToo
  <2>1. tasks[k] \in TaskRecord /\ v \in TaskRecord
        /\ v.order = tasks[k].order /\ v.generation = tasks[k].generation /\ v.state # "running"
    BY <1>2, <1>3, ZenonT(30) DEF TaskRecord
  <2>2. CommitChange(t, k, v, TRUE) BY <1>1, <1>5
  <2>3. tasks[k].state = "running" BY <1>5
  <2>4. tasks' = [tasks EXCEPT ![k] = v] BY <2>2 DEF CommitChange
  <2>5. tasks[k].generation = todo[t][1][2] BY <1>5
  <2> HIDE DEF v, mineToo
  <2>6. Change(k, v, TRUE) BY <1>3, <2>1, <2>3, GoesOn
  <2>7. /\ ProgressShape' /\ Due' /\ OneDelivers' /\ Followed' /\ FileFollows' /\ StartOrder'
        /\ closing' = closing /\ (closed' => closing' /\ RunningTasks(tasks') = {})
        /\ \A u \in Threads : after[u] = "close" /\ todo'[u] = todo[u] => closing' /\ Covered(u)'
    BY <1>1, <1>2, <1>3, <1>4, <2>2, <2>6, CommitChangeKeeps
  <2>8. ASSUME after[t] = "close" PROVE closing' /\ Covered(t)'
    <3>1. closing /\ Covered(t) BY <2>8 DEF ProgressInv, Closes
    <3>2. \A o \in RunningTasks(tasks') : o \in RunningTasks(tasks) /\ o # k /\ tasks'[o] = tasks[o]
      BY <1>2, <1>3, <2>1, <2>4 DEF RunningTasks
    <3>3. ASSUME NEW o \in RunningTasks(tasks')
          PROVE  \E i \in 1 .. Len(Tail(todo[t])) : Tail(todo[t])[i] = <<o, tasks'[o].generation>>
      <4>1. PICK i \in 1 .. Len(todo[t]) : todo[t][i] = <<o, tasks[o].generation>>
        BY <3>1, <3>2 DEF Covered
      <4>2. i # 1 BY <1>3, <3>2, <4>1
      <4>3. i - 1 \in 1 .. Len(todo[t]) - 1 /\ (i - 1) + 1 = i BY <1>3, <4>2
      <4>4. Tail(todo[t])[i - 1] = <<o, tasks'[o].generation>> BY <1>3, <3>2, <4>1, <4>3
      <4> QED BY <1>3, <4>3, <4>4
    <3> QED BY <1>4, <2>7, <3>1, <3>3 DEF Covered
  <2>9. \A u \in Threads : after[u] = "close" => closing' /\ Covered(u)'
    BY <1>4, <2>7, <2>8
  <2> QED BY <1>1, <2>7, <2>9 DEF ProgressInv, Closes
<1>6. CASE ~mineToo
  <2>1. UNCHANGED <<manager, sinks, holder, threads, mine, turn, json, seen>> BY <1>1, <1>6
  <2>2. /\ UNCHANGED <<tasks, revision, publications, closing, closed>>
        /\ UNCHANGED <<sinks, holder, threads, mine, turn, latest, progressFile, seen>>
    BY <2>1 DEF manager, json
  <2>3. \A o \in RunningTasks(tasks) : todo[t][1] # <<o, tasks[o].generation>>
    BY <1>3, <1>6 DEF RunningTasks
  <2> HIDE DEF mineToo
  <2>4. threads' = [threads EXCEPT ![t] = "todo"]
    BY <1>1, <2>2 DEF ProgressInv, ProgressShape, ThreadShape
  <2>5. Due' /\ OneDelivers' /\ Followed' /\ StartOrder' BY <1>1, <2>2, <2>4, Aside
  <2>6. FileFollows' BY <2>2 DEF ProgressInv, FileFollows
  <2>7. ProgressShape'
    <3>1. ManagerShape' /\ SinkShape'
      BY <2>2 DEF ProgressInv, ProgressShape, ManagerShape, SinkShape
    <3>2. ThreadShape' BY <1>1, <1>4, <2>2 DEF ProgressInv, ProgressShape, ThreadShape
    <3> QED BY <3>1, <3>2 DEF ProgressShape
  <2>8. ASSUME after[t] = "close" PROVE Covered(t)'
    <3>1. Covered(t) BY <2>8 DEF ProgressInv, Closes
    <3>2. ASSUME NEW o \in RunningTasks(tasks)
          PROVE  \E i \in 1 .. Len(Tail(todo[t])) : Tail(todo[t])[i] = <<o, tasks[o].generation>>
      <4>1. PICK i \in 1 .. Len(todo[t]) : todo[t][i] = <<o, tasks[o].generation>>
        BY <3>1 DEF Covered
      <4>2. i # 1 BY <2>3, <4>1
      <4>3. i - 1 \in 1 .. Len(todo[t]) - 1 /\ (i - 1) + 1 = i BY <1>3, <4>2
      <4>4. Tail(todo[t])[i - 1] = <<o, tasks[o].generation>> BY <1>3, <4>1, <4>3
      <4> QED BY <1>3, <4>3, <4>4
    <3> QED BY <1>4, <2>2, <3>2 DEF Covered
  <2>9. \A u \in Threads : after[u] = "close" => Covered(u)'
    <3>1. ASSUME NEW u \in Threads, after[u] = "close", u # t PROVE Covered(u)'
      <4>1. Covered(u) BY <3>1 DEF ProgressInv, Closes
      <4> QED BY <1>4, <2>2, <3>1, <4>1, SameCover
    <3> QED BY <2>8, <3>1
  <2> QED BY <1>1, <2>2, <2>5, <2>6, <2>7, <2>9 DEF ProgressInv, Closes
<1> QED BY <1>5, <1>6

LEMMA ReturnKeeps ==
    ASSUME ProgressConstants, ProgressInv, NEW t \in Threads, Return(t)
    PROVE  ProgressInv'
<1>1. /\ threads[t] = "todo" /\ threads' = [threads EXCEPT ![t] = "idle"]
      /\ after' = [after EXCEPT ![t] = "return"] /\ todo' = todo
      /\ UNCHANGED <<tasks, revision, publications, closing, closed>>
      /\ UNCHANGED <<sinks, holder, mine, turn, latest, progressFile, seen>>
  BY DEF Return, manager, json
<1>2. Due' /\ OneDelivers' /\ Followed' /\ StartOrder' BY <1>1, Aside
<1>3. FileFollows' BY <1>1 DEF ProgressInv, FileFollows
<1>4. ProgressShape'
  <2>1. ManagerShape' /\ SinkShape'
    BY <1>1 DEF ProgressInv, ProgressShape, ManagerShape, SinkShape
  <2>2. ThreadShape' BY <1>1 DEF ProgressInv, ProgressShape, ThreadShape
  <2> QED BY <2>1, <2>2 DEF ProgressShape
<1>5. Closes'
  <2>1. \A u \in Threads : after'[u] = "close" => after[u] = "close"
    BY <1>1 DEF ProgressInv, ProgressShape, ThreadShape
  <2>2. \A u \in Threads : after[u] = "close" => closing /\ Covered(u)
    BY DEF ProgressInv, Closes
  <2> QED BY <1>1, <2>1, <2>2, SameCover DEF ProgressInv, Closes
<1> QED BY <1>2, <1>3, <1>4, <1>5 DEF ProgressInv

LEMMA ClosedKeeps ==
    ASSUME ProgressConstants, ProgressInv, NEW t \in Threads, Closed(t)
    PROVE  ProgressInv'
<1>1. /\ threads[t] = "todo" /\ threads' = [threads EXCEPT ![t] = "close"]
      /\ after[t] = "close" /\ after' = [after EXCEPT ![t] = "return"]
      /\ todo[t] = <<>> /\ todo' = todo /\ closed' = TRUE
      /\ UNCHANGED <<tasks, revision, publications, closing>>
      /\ UNCHANGED <<sinks, holder, mine, turn, latest, progressFile, seen>>
  BY DEF Closed, json
<1>2. Due' /\ OneDelivers' /\ Followed' /\ StartOrder' BY <1>1, Aside
<1>3. FileFollows' BY <1>1 DEF ProgressInv, FileFollows
<1>4. ProgressShape'
  <2>1. ManagerShape' /\ SinkShape'
    BY <1>1 DEF ProgressInv, ProgressShape, ManagerShape, SinkShape
  <2>2. ThreadShape' BY <1>1 DEF ProgressInv, ProgressShape, ThreadShape
  <2> QED BY <2>1, <2>2 DEF ProgressShape
<1>5. closing /\ RunningTasks(tasks) = {}
  <2>1. closing /\ Covered(t) BY <1>1 DEF ProgressInv, Closes
  <2>2. Len(todo[t]) = 0 BY <1>1
  <2> QED BY <2>1, <2>2 DEF Covered
<1>6. Closes'
  <2>1. \A u \in Threads : after'[u] = "close" => after[u] = "close"
    BY <1>1 DEF ProgressInv, ProgressShape, ThreadShape
  <2>2. \A u \in Threads : after[u] = "close" => closing /\ Covered(u)
    BY DEF ProgressInv, Closes
  <2> QED BY <1>1, <1>5, <2>1, <2>2, SameCover DEF Closes
<1> QED BY <1>2, <1>3, <1>4, <1>6 DEF ProgressInv

LEMMA CloseSinksKeeps ==
    ASSUME ProgressConstants, ProgressInv, NEW t \in Threads, NEW fails \in BOOLEAN,
           CloseSinks(t, fails)
    PROVE  ProgressInv'
<1>1. /\ threads[t] = "close" /\ threads' = [threads EXCEPT ![t] = "idle"]
      /\ after' = after /\ todo' = todo
      /\ progressFile' \in {latest.tasks, progressFile}
      /\ UNCHANGED <<tasks, revision, publications, closing, closed>>
      /\ UNCHANGED <<sinks, holder, mine, turn, latest, seen>>
  BY DEF CloseSinks, manager
<1>2. Due' /\ OneDelivers' /\ Followed' /\ StartOrder' BY <1>1, Aside
<1>3. FileFollows' BY <1>1 DEF ProgressInv, FileFollows
<1>4. ProgressShape'
  <2>1. ManagerShape' BY <1>1 DEF ProgressInv, ProgressShape, ManagerShape
  <2>2. ThreadShape' BY <1>1 DEF ProgressInv, ProgressShape, ThreadShape
  <2>3. SinkShape' BY <1>1 DEF ProgressInv, ProgressShape, SinkShape
  <2> QED BY <2>1, <2>2, <2>3 DEF ProgressShape
<1>5. Closes'
  <2>1. \A u \in Threads : after[u] = "close" => closing /\ Covered(u)
    BY DEF ProgressInv, Closes
  <2> QED BY <1>1, <2>1, SameCover DEF ProgressInv, Closes
<1> QED BY <1>2, <1>3, <1>4, <1>5 DEF ProgressInv

\* A step of the terminal or of its ticker.
LEMMA TerminalKeeps ==
    ASSUME ProgressInv, UNCHANGED <<manager, sinks, holder, thread, json, seen>>
    PROVE  ProgressInv'
<1>1. /\ UNCHANGED <<tasks, revision, publications, closing, closed, sinks, holder>>
      /\ UNCHANGED <<threads, mine, turn, todo, after, latest, progressFile, seen>>
  BY DEF manager, thread, json
<1>2. ProgressShape'
  BY <1>1 DEF ProgressInv, ProgressShape, ManagerShape, ThreadShape, SinkShape
<1>3. Due' /\ OneDelivers' BY <1>1 DEF ProgressInv, Due, OneDelivers, Published
<1>4. Followed' /\ FileFollows'
  BY <1>1 DEF ProgressInv, Followed, FileFollows, Passed, Published
<1>5. StartOrder' BY <1>1 DEF ProgressInv, StartOrder
<1>6. Closes'
  <2>1. \A u \in Threads : after[u] = "close" => closing /\ Covered(u)
    BY DEF ProgressInv, Closes
  <2> QED BY <1>1, <2>1, SameCover DEF ProgressInv, Closes
<1> QED BY <1>2, <1>3, <1>4, <1>5, <1>6 DEF ProgressInv

-----------------------------------------------------------------------------
LEMMA EnterKeeps ==
    ASSUME ProgressConstants, ProgressInv, NEW t \in Threads, Enter(t)
    PROVE  ProgressInv'
<1>1. /\ threads[t] = "publish" /\ holder = NoHolder
      /\ UNCHANGED <<tasks, revision, publications, closing, closed>>
      /\ UNCHANGED <<sinks, todo, after, latest, progressFile, seen>>
      /\ turn' = [turn EXCEPT ![t] = "terminal"]
  BY DEF Enter, manager, json
<1>2. /\ threads \in [Threads -> {"idle", "publish", "deliver", "todo", "close"}]
      /\ mine \in [Threads -> Nat] /\ turn \in [Threads -> {"terminal", "json", "end"}]
      /\ revision \in Nat /\ Len(publications) \in Nat
  BY LenProperties DEF ProgressInv, ProgressShape, ManagerShape, ThreadShape
<1>3. FileFollows' /\ StartOrder' BY <1>1 DEF ProgressInv, FileFollows, StartOrder
<1>4. Closes'
  <2>1. \A u \in Threads : after[u] = "close" => closing /\ Covered(u)
    BY DEF ProgressInv, Closes
  <2> QED BY <1>1, <2>1, SameCover DEF ProgressInv, Closes
<1>5. ManagerShape' /\ SinkShape'
  BY <1>1 DEF ProgressInv, ProgressShape, ManagerShape, SinkShape
<1>6. turn' = turn BY <1>1, <1>2 DEF ProgressInv, OneDelivers
<1>7. \A u \in Threads : holder # u BY <1>1 DEF ProgressConstants
<1>8. CASE mine[t] <= Published
  <2>1. /\ holder' = NoHolder /\ mine' = [mine EXCEPT ![t] = 0]
        /\ \E x \in {"idle", "todo"} : threads' = [threads EXCEPT ![t] = x]
    BY <1>1, <1>8 DEF Enter, Resume
  <2>2. ThreadShape' BY <1>1, <1>2, <1>6, <2>1 DEF ProgressInv, ProgressShape, ThreadShape
  <2>3. publications # <<>> => mine[t] # revision
    BY <1>2, <1>8, EmptySeq, LenProperties DEF Published, ProgressInv, ProgressShape, ManagerShape
  <2>4. \A u \in Threads : u # t => threads'[u] = threads[u] /\ mine'[u] = mine[u]
    BY <1>2, <2>1
  <2>5. mine'[t] = 0 BY <1>2, <2>1
  <2>6. Due'
    <3>1. \A u \in Threads : mine'[u] <= revision
      BY <1>2, <2>4, <2>5 DEF ProgressInv, Due
    <3>2. publications # <<>> => \E u \in Threads : threads'[u] \in {"publish", "deliver"} /\ mine'[u] = revision
      BY <2>3, <2>4 DEF ProgressInv, Due
    <3> QED BY <1>1, <3>1, <3>2 DEF ProgressInv, Due, Published
  <2>7. OneDelivers' BY <1>1, <1>2, <1>6, <1>7, <2>1, <2>4 DEF ProgressInv, OneDelivers, ProgressConstants
  <2>8. Followed' BY <1>1, <1>6, <2>1 DEF ProgressInv, Followed, Passed, Published
  <2> QED BY <1>3, <1>4, <1>5, <2>2, <2>6, <2>7, <2>8 DEF ProgressInv, ProgressShape
<1>9. CASE ~(mine[t] <= Published)
  <2>1. /\ holder' = t /\ mine' = mine /\ threads' = [threads EXCEPT ![t] = "deliver"]
    BY <1>1, <1>9 DEF Enter
  <2>2. ThreadShape' BY <1>1, <1>2, <1>6, <2>1 DEF ProgressInv, ProgressShape, ThreadShape
  <2>3. publications # <<>>
    <3>1. mine[t] <= revision /\ mine[t] \in Nat BY <1>2 DEF ProgressInv, Due
    <3>2. Len(publications) # 0 BY <1>2, <1>9, <3>1 DEF Published
    <3> QED BY <3>2
  <2>4. \A u \in Threads : threads'[u] = IF u = t THEN "deliver" ELSE threads[u] BY <1>2, <2>1
  <2>5. Due' BY <1>1, <2>1, <2>4 DEF ProgressInv, Due, Published
  <2>6. OneDelivers' BY <1>1, <1>2, <1>6, <1>7, <2>1, <2>3, <2>4 DEF ProgressInv, OneDelivers
  <2>7. turn[t] = "terminal" BY <1>1 DEF ProgressInv, OneDelivers
  <2>8. \A s : ~Passed(s) /\ ~Passed(s)' BY <1>6, <1>7, <2>1, <2>7 DEF Passed
  <2>9. Followed' BY <1>1, <2>8 DEF ProgressInv, Followed, Published
  <2> QED BY <1>3, <1>4, <1>5, <2>2, <2>5, <2>6, <2>9 DEF ProgressInv, ProgressShape
<1> QED BY <1>8, <1>9

\* A thread goes on to its next sink.
LEMMA TurnKeeps ==
    ASSUME ProgressConstants, ProgressInv, NEW t \in Threads, threads[t] = "deliver",
           NEW x \in {"terminal", "json", "end"}, turn' = [turn EXCEPT ![t] = x],
           UNCHANGED <<manager, holder, threads, mine, todo, after>>
    PROVE  /\ ManagerShape' /\ ThreadShape' /\ Due' /\ OneDelivers' /\ Closes' /\ StartOrder'
           /\ Published' = Published /\ publications # <<>>
           /\ \A s : Passed(s) <=> turn[t] \in IF s = "terminal" THEN {"json", "end"} ELSE {"end"}
           /\ \A s : Passed(s)' <=> x \in IF s = "terminal" THEN {"json", "end"} ELSE {"end"}
<1>1. /\ UNCHANGED <<tasks, revision, publications, closing, closed>>
      /\ UNCHANGED <<holder, threads, mine, todo, after>>
  BY DEF manager
<1>2. /\ turn \in [Threads -> {"terminal", "json", "end"}] /\ turn'[t] = x
      /\ \A u \in Threads : u # t => turn'[u] = turn[u]
  BY DEF ProgressInv, ProgressShape, ThreadShape
<1>3. ManagerShape' /\ ThreadShape'
  BY <1>1, <1>2 DEF ProgressInv, ProgressShape, ManagerShape, ThreadShape
<1>4. Due' BY <1>1 DEF ProgressInv, Due, Published
<1>5. OneDelivers' BY <1>1, <1>2 DEF ProgressInv, OneDelivers
<1>6. StartOrder' BY <1>1 DEF ProgressInv, StartOrder
<1>7. Closes'
  <2>1. \A u \in Threads : after[u] = "close" => closing /\ Covered(u)
    BY DEF ProgressInv, Closes
  <2> QED BY <1>1, <2>1, SameCover DEF ProgressInv, Closes
<1>8. holder = t /\ publications # <<>> BY DEF ProgressInv, OneDelivers
<1>9. Published' = Published BY <1>1 DEF Published
<1> QED BY <1>1, <1>2, <1>3, <1>4, <1>5, <1>6, <1>7, <1>8, <1>9 DEF Passed

LEMMA SkipsKeeps ==
    ASSUME ProgressConstants, ProgressInv, NEW t \in Threads, Skips(t)
    PROVE  ProgressInv'
<1> DEFINE x == IF turn[t] = "terminal" THEN "json" ELSE "end"
<1>1. /\ threads[t] = "deliver" /\ turn[t] # "end" /\ turn[t] \notin sinks
      /\ turn' = [turn EXCEPT ![t] = x]
      /\ UNCHANGED <<manager, holder, threads, mine, todo, after>>
      /\ UNCHANGED <<tasks, revision, sinks, latest, progressFile, seen>>
  BY DEF Skips, manager, json
<1>2. turn[t] \in {"terminal", "json"} /\ sinks \subseteq {"terminal", "json"}
  BY <1>1 DEF ProgressInv, ProgressShape, ThreadShape, SinkShape
<1>3. /\ ManagerShape' /\ ThreadShape' /\ Due' /\ OneDelivers' /\ Closes' /\ StartOrder'
      /\ Published' = Published
      /\ \A s : Passed(s) <=> turn[t] \in IF s = "terminal" THEN {"json", "end"} ELSE {"end"}
      /\ \A s : Passed(s)' <=> x \in IF s = "terminal" THEN {"json", "end"} ELSE {"end"}
  <2>1. x \in {"terminal", "json", "end"} OBVIOUS
  <2> HIDE DEF x
  <2> QED BY <1>1, <2>1, TurnKeeps
<1>4. \A s \in sinks : Passed(s)' <=> Passed(s) BY <1>1, <1>2, <1>3
<1>5. Followed' BY <1>1, <1>3, <1>4 DEF ProgressInv, Followed
<1>6. SinkShape' /\ FileFollows'
  BY <1>1 DEF ProgressInv, ProgressShape, SinkShape, FileFollows
<1> QED BY <1>3, <1>5, <1>6 DEF ProgressInv, ProgressShape

\* A delivery, whatever the sink does with it.
LEMMA DeliversKeeps ==
    ASSUME ProgressConstants, ProgressInv, NEW t \in Threads, NEW s \in {"terminal", "json"},
           Delivers(t, s), sinks' \subseteq sinks
    PROVE  /\ ManagerShape' /\ ThreadShape' /\ Due' /\ OneDelivers' /\ Closes' /\ StartOrder'
           /\ Followed' /\ seen' \in [{"terminal", "json"} -> Seq(Nat)]
           /\ publications # <<>> /\ Head(publications).revision = Published + 1
           /\ Head(publications) \in Publication
           /\ Len(seen[s]) = Published /\ Len(seen'[s]) = Published + 1 /\ Published \in Nat
           /\ \A r \in {"terminal", "json"} : r # s => seen'[r] = seen[r]
<1> DEFINE x == IF s = "terminal" THEN "json" ELSE "end"
<1>1. /\ threads[t] = "deliver" /\ turn[t] = s /\ s \in sinks
      /\ turn' = [turn EXCEPT ![t] = x]
      /\ UNCHANGED <<manager, holder, threads, mine, todo, after>>
      /\ seen' = [seen EXCEPT ![s] = Append(seen[s], Head(publications).revision)]
  BY DEF Delivers
<1>2. /\ ManagerShape' /\ ThreadShape' /\ Due' /\ OneDelivers' /\ Closes' /\ StartOrder'
      /\ Published' = Published /\ publications # <<>>
      /\ \A r : Passed(r) <=> turn[t] \in IF r = "terminal" THEN {"json", "end"} ELSE {"end"}
      /\ \A r : Passed(r)' <=> x \in IF r = "terminal" THEN {"json", "end"} ELSE {"end"}
  <2>1. x \in {"terminal", "json", "end"} OBVIOUS
  <2> HIDE DEF x
  <2> QED BY <1>1, <2>1, TurnKeeps
<1>3. ~Passed(s) /\ Passed(s)' /\ \A r \in {"terminal", "json"} : r # s => (Passed(r)' <=> Passed(r))
  BY <1>1, <1>2
<1>4. /\ publications \in Seq(Publication) /\ revision \in Nat
      /\ seen \in [{"terminal", "json"} -> Seq(Nat)] /\ sinks \subseteq {"terminal", "json"}
  BY DEF ProgressInv, ProgressShape, ManagerShape, SinkShape
<1>5. /\ Head(publications) = publications[1] /\ 1 \in 1 .. Len(publications)
      /\ Len(publications) \in Nat /\ Head(publications) \in Publication
  BY <1>2, <1>4, HeadTailProperties, EmptySeq, LenProperties, ElementOfSeq
<1>6. Head(publications).revision = Published + 1 /\ Published \in Nat
  <2>1. publications[1].revision = Published + 1 BY <1>5 DEF ProgressInv, Due
  <2>2. Len(publications) <= revision BY DEF ProgressInv, Due
  <2> QED BY <1>4, <1>5, <2>1, <2>2 DEF Published
<1>7. /\ Len(seen[s]) = Published /\ \A i \in 1 .. Len(seen[s]) : seen[s][i] = i
      /\ seen[s] \in Seq(Nat)
  BY <1>1, <1>3, <1>4, <1>6 DEF ProgressInv, Followed
<1>8. /\ seen'[s] = Append(seen[s], Published + 1)
      /\ seen' \in [{"terminal", "json"} -> Seq(Nat)]
      /\ \A r \in {"terminal", "json"} : r # s => seen'[r] = seen[r]
  <2>1. Append(seen[s], Published + 1) \in Seq(Nat) BY <1>6, <1>7, AppendProperties
  <2> QED BY <1>1, <1>4, <1>6, <2>1
<1>9. /\ Len(seen'[s]) = Published + 1 /\ \A i \in 1 .. Len(seen'[s]) : seen'[s][i] = i
  <2> DEFINE n == Published
             q == seen[s]
  <2>1. /\ Len(seen'[s]) = n + 1 /\ seen'[s][n + 1] = n + 1
        /\ \A i \in 1 .. n : seen'[s][i] = q[i]
    BY <1>6, <1>7, <1>8, AppendProperties
  <2>2. n \in Nat /\ \A i \in 1 .. n : q[i] = i BY <1>6, <1>7
  <2> HIDE DEF n, q
  <2>3. \A i \in 1 .. n + 1 : i \in 1 .. n \/ i = n + 1 BY <2>2
  <2> QED BY <2>1, <2>2, <2>3 DEF n
<1>10. Followed'
  <2> SUFFICES ASSUME NEW r \in sinks'
               PROVE  /\ Len(seen'[r]) = Published' + IF Passed(r)' THEN 1 ELSE 0
                      /\ \A i \in 1 .. Len(seen'[r]) : seen'[r][i] = i
    BY DEF Followed
  <2>1. r \in sinks /\ r \in {"terminal", "json"} BY <1>4
  <2>2. CASE r = s BY <1>2, <1>3, <1>9, <2>2
  <2>3. CASE r # s BY <1>2, <1>3, <1>8, <2>1, <2>3 DEF ProgressInv, Followed
  <2> QED BY <2>2, <2>3
<1> QED BY <1>2, <1>5, <1>6, <1>7, <1>8, <1>9, <1>10

LEMMA DrawKeeps ==
    ASSUME ProgressConstants, ProgressInv, NEW t \in Threads,
           NEW throttled \in BOOLEAN, NEW fails \in BOOLEAN, Draw(t, throttled, fails)
    PROVE  ProgressInv'
<1>1. /\ Delivers(t, "terminal") /\ sinks' \subseteq sinks
      /\ "json" \in sinks' => "json" \in sinks
      /\ UNCHANGED <<latest, progressFile>> /\ UNCHANGED <<tasks, revision>>
  BY DEF Draw, json, Delivers, manager
<1>2. /\ ManagerShape' /\ ThreadShape' /\ Due' /\ OneDelivers' /\ Closes' /\ StartOrder'
      /\ Followed' /\ seen' \in [{"terminal", "json"} -> Seq(Nat)] /\ seen'["json"] = seen["json"]
  BY <1>1, DeliversKeeps
<1>3. SinkShape' BY <1>1, <1>2 DEF ProgressInv, ProgressShape, SinkShape
<1>4. FileFollows' BY <1>1, <1>2 DEF ProgressInv, FileFollows
<1> QED BY <1>2, <1>3, <1>4 DEF ProgressInv, ProgressShape

LEMMA SaveKeeps ==
    ASSUME ProgressConstants, ProgressInv, NEW t \in Threads,
           NEW throttled \in BOOLEAN, NEW fails \in BOOLEAN, Save(t, throttled, fails)
    PROVE  ProgressInv'
<1> DEFINE p == Head(publications)
           write == p.lifecycle \/ ~throttled
<1>1. Delivers(t, "json") /\ sinks' \subseteq sinks /\ UNCHANGED <<tasks, revision, publications>>
  BY DEF Save, Delivers, manager
<1>2. /\ ManagerShape' /\ ThreadShape' /\ Due' /\ OneDelivers' /\ Closes' /\ StartOrder'
      /\ Followed' /\ seen' \in [{"terminal", "json"} -> Seq(Nat)]
      /\ publications # <<>> /\ p.revision = Published + 1 /\ p \in Publication
      /\ Len(seen["json"]) = Published /\ Len(seen'["json"]) = Published + 1 /\ Published \in Nat
  BY <1>1, DeliversKeeps
<1>3. "json" \in sinks /\ latest.revision = Len(seen["json"])
  BY <1>1 DEF Delivers, ProgressInv, FileFollows
<1>4. ~(p.revision < latest.revision) BY <1>2, <1>3
<1>5. /\ latest' = [revision |-> p.revision, tasks |-> p.tasks]
      /\ progressFile' \in {p.tasks, progressFile}
      /\ write /\ "json" \in sinks' => progressFile' = p.tasks
  <2>1. /\ latest' = [revision |-> p.revision, tasks |-> p.tasks]
        /\ IF write THEN progressFile' = p.tasks \/ (fails /\ progressFile' = progressFile)
           ELSE progressFile' = progressFile
        /\ sinks' = IF write /\ fails THEN sinks \ {"json"} ELSE sinks
    BY <1>4 DEF Save
  <2> HIDE DEF p
  <2> QED BY <2>1
<1>6. p.revision \in Nat /\ p.tasks \in [Tasks -> TaskRecord] BY <1>2 DEF Publication
<1> HIDE DEF p
<1>7. SinkShape' BY <1>1, <1>2, <1>5, <1>6 DEF ProgressInv, ProgressShape, SinkShape
<1>8. FileFollows'
  <2> SUFFICES ASSUME "json" \in sinks', latest'.revision = revision'
               PROVE  latest'.tasks = tasks /\ (RunningTasks(tasks) = {} => progressFile' = tasks)
    BY <1>1, <1>2, <1>5, <1>6 DEF FileFollows
  <2>1. publications \in Seq(Publication) /\ revision \in Nat
    BY DEF ProgressInv, ProgressShape, ManagerShape
  <2>2. Len(publications) = 1
    <3> DEFINE n == Len(publications)
    <3>1. Published + 1 = revision BY <1>1, <1>2, <1>5
    <3>2. n \in Nat BY <2>1, LenProperties
    <3>3. Published = revision - n BY DEF Published
    <3> HIDE DEF n
    <3>4. n = 1 BY <2>1, <3>1, <3>2, <3>3
    <3> QED BY <3>4 DEF n
  <2>3. p = publications[Len(publications)] BY <1>2, <2>1, <2>2, HeadTailProperties DEF p
  <2>4. p.tasks = tasks /\ (RunningTasks(tasks) = {} => p.lifecycle)
    BY <1>2, <2>3 DEF ProgressInv, Due
  <2> QED BY <1>5, <2>4
<1> QED BY <1>2, <1>7, <1>8 DEF ProgressInv, ProgressShape

LEMMA DeliveredKeeps ==
    ASSUME ProgressConstants, ProgressInv, NEW t \in Threads, Delivered(t)
    PROVE  ProgressInv'
<1>1. /\ threads[t] = "deliver" /\ turn[t] = "end" /\ publications' = Tail(publications)
      /\ turn' = [turn EXCEPT ![t] = "terminal"]
      /\ UNCHANGED <<tasks, revision, closing, closed>>
      /\ UNCHANGED <<sinks, todo, after, latest, progressFile, seen>>
  BY DEF Delivered, json
<1>2. holder = t /\ publications # <<>> BY <1>1 DEF ProgressInv, OneDelivers
<1>3. /\ publications \in Seq(Publication) /\ revision \in Nat
      /\ threads \in [Threads -> {"idle", "publish", "deliver", "todo", "close"}]
      /\ mine \in [Threads -> Nat] /\ turn \in [Threads -> {"terminal", "json", "end"}]
  BY DEF ProgressInv, ProgressShape, ManagerShape, ThreadShape
<1>4. /\ publications' \in Seq(Publication) /\ Len(publications) \in Nat /\ Len(publications) > 0
      /\ Len(publications') = Len(publications) - 1
      /\ \A i \in 1 .. Len(publications) - 1 : publications'[i] = publications[i + 1]
  BY <1>1, <1>2, <1>3, HeadTailProperties, EmptySeq, LenProperties
<1>5. Published' = Published + 1 /\ Published \in Nat
  <2>1. Len(publications) <= revision BY DEF ProgressInv, Due
  <2> QED BY <1>1, <1>3, <1>4, <2>1 DEF Published
<1>6. ManagerShape' BY <1>1, <1>4 DEF ProgressInv, ProgressShape, ManagerShape
<1>7. SinkShape' BY <1>1 DEF ProgressInv, ProgressShape, SinkShape
<1>8. FileFollows' /\ StartOrder' BY <1>1 DEF ProgressInv, FileFollows, StartOrder
<1>9. Closes'
  <2>1. \A u \in Threads : after[u] = "close" => closing /\ Covered(u)
    BY DEF ProgressInv, Closes
  <2> QED BY <1>1, <2>1, SameCover DEF ProgressInv, Closes
<1>10. /\ turn'[t] = "terminal" /\ \A u \in Threads : u # t => turn'[u] = turn[u]
       /\ turn' \in [Threads -> {"terminal", "json", "end"}]
  BY <1>1, <1>3
<1>11. \A s \in {"terminal", "json"} : Passed(s) BY <1>1, <1>2 DEF Passed
<1>12. /\ Len(publications') <= revision'
       /\ \A i \in 1 .. Len(publications') : publications'[i].revision = Published' + i
       /\ publications' # <<>> =>
              publications'[Len(publications')] = publications[Len(publications)]
  <2>1. Len(publications') <= revision' BY <1>1, <1>3, <1>4 DEF ProgressInv, Due
  <2>2. ASSUME NEW i \in 1 .. Len(publications')
        PROVE  publications'[i].revision = Published' + i
    <3>1. i + 1 \in 1 .. Len(publications) /\ publications'[i] = publications[i + 1] BY <1>4
    <3>2. publications[i + 1].revision = Published + (i + 1) BY <3>1 DEF ProgressInv, Due
    <3> QED BY <1>5, <3>1, <3>2
  <2>3. publications' # <<>> => Len(publications') > 0 BY <1>4, EmptySeq, LenProperties
  <2> QED BY <1>4, <2>1, <2>2, <2>3
<1>13. CASE Len(publications) > 1
  <2>1. UNCHANGED <<holder, threads, mine>> BY <1>13 DEF Delivered
  <2>2. publications' # <<>> BY <1>4, <1>13
  <2>3. Due' BY <1>1, <1>2, <1>12, <2>1 DEF ProgressInv, Due
  <2>4. OneDelivers' BY <1>10, <2>1, <2>2 DEF ProgressInv, OneDelivers
  <2>5. \A s : ~Passed(s)' BY <1>2, <1>10, <2>1 DEF Passed
  <2>6. Followed'
    BY <1>1, <1>5, <1>11, <2>5 DEF ProgressInv, ProgressShape, SinkShape, Followed
  <2>7. ThreadShape' BY <1>1, <1>10, <2>1 DEF ProgressInv, ProgressShape, ThreadShape
  <2> QED BY <1>6, <1>7, <1>8, <1>9, <2>3, <2>4, <2>6, <2>7 DEF ProgressInv, ProgressShape
<1>14. CASE ~(Len(publications) > 1)
  <2>1. /\ holder' = NoHolder /\ mine' = [mine EXCEPT ![t] = 0]
        /\ \E x \in {"idle", "todo"} : threads' = [threads EXCEPT ![t] = x]
    BY <1>14 DEF Delivered, Resume
  <2>2. publications' = <<>> BY <1>4, <1>14, EmptySeq
  <2>3. ThreadShape' BY <1>1, <1>3, <1>10, <2>1 DEF ProgressInv, ProgressShape, ThreadShape
  <2>4. Due'
    <3>1. \A u \in Threads : mine'[u] <= revision' BY <1>1, <1>3, <2>1 DEF ProgressInv, Due
    <3>2. ~(publications' # <<>>) BY <2>2
    <3> QED BY <1>12, <3>1, <3>2, Zenon DEF Due
  <2>5. OneDelivers'
    <3>1. \A u \in Threads : threads'[u] # "deliver" /\ holder' # u /\ turn'[u] = "terminal"
      BY <1>2, <1>3, <1>10, <2>1 DEF ProgressInv, OneDelivers, ProgressConstants
    <3> QED BY <3>1 DEF OneDelivers
  <2>6. \A s : ~Passed(s)' BY <2>1 DEF Passed, ProgressConstants
  <2>7. Followed'
    BY <1>1, <1>5, <1>11, <2>6 DEF ProgressInv, ProgressShape, SinkShape, Followed
  <2> QED BY <1>6, <1>7, <1>8, <1>9, <2>3, <2>4, <2>5, <2>7 DEF ProgressInv, ProgressShape
<1> QED BY <1>13, <1>14

-----------------------------------------------------------------------------
\* Every sink gets every revision once and in the order of the commits, and the progress file
\* holds the final state once the manager is closed and all calls have returned.
THEOREM SinksGetEverything ==
    ASSUME ProgressConstants
    PROVE  ProgressSpec => []SinksFollow
<1>1. ProgressInit => ProgressInv BY InitProgress
<1>2. ProgressInv /\ [ProgressNext]_progressVars => ProgressInv'
  <2> SUFFICES ASSUME ProgressInv, [ProgressNext]_progressVars PROVE ProgressInv' OBVIOUS
  <2>1. ASSUME NEW t \in Threads, NEW k \in Tasks, NEW bounded \in BOOLEAN,
               StartTask(t, k, bounded) \/ Update(t, k, bounded)
        PROVE  ProgressInv'
    BY <2>1, StartTaskKeeps, UpdateKeeps
  <2>2. ASSUME NEW t \in Threads, NEW k \in Tasks, NEW state \in {"succeeded", "failed"},
               FinishTask(t, k, state)
        PROVE  ProgressInv'
    BY <2>2, FinishKeeps
  <2>3. ASSUME NEW t \in Threads,
               \/ RecordFailure(t) \/ Close(t) \/ FinishHandle(t) \/ StartFailure(t)
               \/ Return(t) \/ Closed(t)
        PROVE  ProgressInv'
    BY <2>3, RecordFailureKeeps, CloseKeeps, FinishHandleKeeps, StartFailureKeeps, ReturnKeeps,
       ClosedKeeps
  <2>4. ASSUME NEW t \in Threads, Enter(t) \/ Skips(t) \/ Delivered(t) PROVE ProgressInv'
    BY <2>4, EnterKeeps, SkipsKeeps, DeliveredKeeps
  <2>5. ASSUME NEW t \in Threads, NEW throttled \in BOOLEAN, NEW fails \in BOOLEAN,
               CloseSinks(t, fails) \/ Draw(t, throttled, fails) \/ Save(t, throttled, fails)
        PROVE  ProgressInv'
    BY <2>5, CloseSinksKeeps, DrawKeeps, SaveKeeps
  <2>6. ASSUME TerminalBreaks \/ TickerLeaves \/ TickerEnds PROVE ProgressInv'
    BY <2>6, TerminalKeeps DEF TerminalBreaks, TickerLeaves, TickerEnds
  <2>7. ASSUME UNCHANGED progressVars PROVE ProgressInv'
    BY <2>7, TerminalKeeps DEF progressVars
  <2> QED BY <2>1, <2>2, <2>3, <2>4, <2>5, <2>6, <2>7 DEF ProgressNext
<1>3. ProgressInv => SinksFollow
  <2> SUFFICES ASSUME ProgressInv PROVE SinksFollow OBVIOUS
  <2>1. AllIdle => Published = revision /\ \A s : ~Passed(s)
    <3> SUFFICES ASSUME AllIdle PROVE Published = revision /\ \A s : ~Passed(s) OBVIOUS
    <3>1. publications = <<>> BY DEF AllIdle, ProgressInv, Due
    <3>2. Len(publications) = 0 /\ revision \in Nat
      BY <3>1 DEF ProgressInv, ProgressShape, ManagerShape
    <3>3. Published = revision BY <3>2 DEF Published
    <3>4. \A s : ~Passed(s) BY DEF AllIdle, ProgressInv, OneDelivers, Passed
    <3> QED BY <3>3, <3>4
  <2>2. \A s \in sinks : AllIdle => Len(seen[s]) = revision
    <3>1. revision \in Nat BY DEF ProgressInv, ProgressShape, ManagerShape
    <3> QED BY <2>1, <3>1 DEF ProgressInv, Followed
  <2>3. DeliveredInOrder BY <2>2 DEF DeliveredInOrder, ProgressInv, Followed
  <2>4. FinalStatePersisted
    <3> SUFFICES ASSUME closed, AllIdle
                 PROVE  /\ RunningTasks(tasks) = {}
                        /\ "json" \in sinks /\ revision > 0 => progressFile = tasks
      BY DEF FinalStatePersisted
    <3>1. RunningTasks(tasks) = {} BY DEF ProgressInv, Closes
    <3> QED BY <2>2, <3>1 DEF ProgressInv, FileFollows
  <2> QED BY <2>3, <2>4 DEF SinksFollow
<1> QED BY <1>1, <1>2, <1>3, PTL DEF ProgressSpec

-----------------------------------------------------------------------------
(***************************************************************************)
(* What an SFT job reports of its losses (LossReporting), however often it *)
(* is killed and resumed.  A job holds the losses of a run that was never  *)
(* interrupted, at once or after the first loss since it was resumed.      *)
(***************************************************************************)
LossState ==
    [tr : [Reporters -> Nat], total : [Reporters -> Nat], last : Nat, aux : [Reporters -> Nat]]

\* A checkpoint stores what the uninterrupted run has at its step.
StoredAsRef ==
    /\ saved.step \in Nat /\ saved.ref \in LossState /\ saved.ref.last <= saved.step
    /\ saved.tr = saved.ref.tr /\ saved.total = saved.ref.total
    /\ saved.last = saved.ref.last /\ saved.aux = saved.ref.aux
    /\ saved.step = 0 => saved.ref = FreshLosses

NothingPending == pending = Nobody /\ provisional = Nobody /\ tr = ref.tr /\ total = ref.total

\* The window that was restored waits for the first loss, and is in the total.
WindowPending ==
    pending = ref.tr /\ provisional = ref.tr /\ tr = Zero /\ total = Plus(ref.total, ref.tr)

RunsAsRef ==
    /\ ref \in LossState /\ global \in Nat /\ ref.last <= global
    /\ last = ref.last /\ aux = ref.aux
    /\ NothingPending \/ WindowPending
    /\ start \in Nat /\ baseline = began /\ (start = 0 => began = 0)

FinalLoss ==
    reported = Across(Plus(ref.total, ref.tr)) - (IF global > start THEN began ELSE 0)

ReportInv ==
    /\ StoredAsRef
    /\ reporting = "run" => RunsAsRef
    /\ reporting = "done" => FinalLoss

LEMMA ReportSums ==
    ASSUME NEW f \in [Reporters -> Nat], NEW g \in [Reporters -> Nat]
    PROVE  /\ Across(f) \in Nat /\ ((\A r \in Reporters : f[r] = 0) => Across(f) = 0)
           /\ Plus(f, g) \in [Reporters -> Nat]
<1>1. IsFiniteSet(Reporters) BY LossAssumption
<1>2. SumUp(f) \in Nat /\ ((\A r \in Reporters : f[r] = 0) => SumUp(f) = 0) BY <1>1, SumUpNat
<1>3. Across(f) = SumUp(f) BY DEF Across, SumUp
<1> QED BY <1>2, <1>3 DEF Plus

LEMMA ReportFields ==
    ASSUME NEW s \in LossState
    PROVE  /\ s.tr \in [Reporters -> Nat] /\ s.total \in [Reporters -> Nat] /\ s.last \in Nat
           /\ s.aux \in [Reporters -> Nat]
           /\ s = [tr |-> s.tr, total |-> s.total, last |-> s.last, aux |-> s.aux]
BY DEF LossState

LEMMA FreshState == FreshLosses \in LossState /\ Zero \in [Reporters -> Nat]
BY DEF FreshLosses, LossState, Zero

LEMMA ReportingStarts ==
    ASSUME ReportingInit
    PROVE  ReportInv
BY FreshState DEF ReportingInit, ReportInv, StoredAsRef, FreshLosses

\* Restored as it was stored: the window goes into the total, and waits to be handed back.
LEMMA StartReports ==
    ASSUME ReportInv, StartReporting
    PROVE  ReportInv'
<1>1. /\ reporting' = "run" /\ global' = saved.step /\ start' = saved.step
      /\ tr' = Zero /\ total' = Plus(saved.total, saved.tr)
      /\ last' = saved.last /\ aux' = saved.aux
      /\ pending' = (IF saved.step = 0 THEN Nobody ELSE saved.tr) /\ provisional' = pending'
      /\ baseline' = Across(total')
      /\ ref' = saved.ref /\ began' = Across(Plus(saved.ref.total, saved.ref.tr))
      /\ saved' = saved
  BY DEF StartReporting
<1>2. StoredAsRef BY DEF ReportInv
<1>3. StoredAsRef' BY <1>1, <1>2 DEF StoredAsRef
<1>4. saved.step = 0 => Plus(saved.ref.total, saved.ref.tr) = Zero /\ saved.ref.tr = Zero /\ saved.ref.total = Zero
  BY <1>2 DEF StoredAsRef, FreshLosses, Plus, Zero
<1>5. saved.step = 0 => began' = 0
  <2>1. \A r \in Reporters : Zero[r] = 0 BY DEF Zero
  <2>2. Across(Zero) = 0 BY <2>1, FreshState, ReportSums
  <2> QED BY <1>1, <1>4, <2>2
<1>6. (NothingPending \/ WindowPending)'
  <2>1. CASE saved.step = 0 BY <1>1, <1>2, <1>4, <2>1 DEF NothingPending, StoredAsRef
  <2>2. CASE saved.step # 0 BY <1>1, <1>2, <2>2 DEF WindowPending, StoredAsRef, Plus, Zero
  <2> QED BY <2>1, <2>2
<1>7. RunsAsRef' BY <1>1, <1>2, <1>5, <1>6 DEF RunsAsRef, StoredAsRef
<1> QED BY <1>1, <1>3, <1>7 DEF ReportInv

\* The first loss since a resumption joins the window that was restored.
LEMMA MicrostepReports ==
    ASSUME ReportInv, NEW losses \in [Reporters -> Losses \cup {NaN}], Microstep(losses)
    PROVE  ReportInv'
<1> DEFINE new == [r \in Reporters |-> Add(ref.tr[r], losses[r], ref.last)]
<1>1. /\ reporting = "run" /\ reporting' = "run" /\ global' = global /\ last' = last
      /\ tr' = [r \in Reporters |-> Add(tr[r], Result(r, losses[r]), last)]
      /\ total' = Settled /\ pending' = Nobody /\ provisional' = Nobody
      /\ aux' = [r \in Reporters |-> aux[r] + 1]
      /\ ref' = [ref EXCEPT !.tr = new, !.aux = [r \in Reporters |-> ref.aux[r] + 1]]
      /\ start' = start /\ baseline' = baseline /\ began' = began /\ saved' = saved
  BY DEF Microstep
<1>2. StoredAsRef /\ RunsAsRef BY <1>1 DEF ReportInv
<1>3. /\ ref.tr \in [Reporters -> Nat] /\ ref.total \in [Reporters -> Nat] /\ ref.last \in Nat
      /\ ref.aux \in [Reporters -> Nat] /\ global \in Nat /\ ref.last <= global /\ last = ref.last
  BY <1>2, ReportFields DEF RunsAsRef
<1>4. ASSUME NEW r \in Reporters
      PROVE  /\ ref.tr[r] \in Nat
             /\ losses[r] = NaN \/ losses[r] \in Nat
             /\ ref.tr[r] \div (1 + global - last) \in Nat
  <2>1. losses[r] = NaN \/ losses[r] \in Nat BY LossAssumption
  <2>2. ref.tr[r] \in Nat /\ 1 + global - last \in Nat \ {0} BY <1>3
  <2> QED BY <2>1, <2>2
<1>5. new \in [Reporters -> Nat]
  <2> SUFFICES ASSUME NEW r \in Reporters PROVE Add(ref.tr[r], losses[r], ref.last) \in Nat OBVIOUS
  <2> DEFINE q == ref.tr[r] \div (1 + global - last)
  <2>1. q \in Nat /\ ref.tr[r] \in Nat /\ (losses[r] = NaN \/ losses[r] \in Nat) BY <1>4
  <2>2. Add(ref.tr[r], losses[r], ref.last) = ref.tr[r] + (IF losses[r] = NaN THEN q ELSE losses[r])
    BY <1>3 DEF Add
  <2> HIDE DEF q
  <2> QED BY <2>1, <2>2
<1>6. /\ ref'.tr = new /\ ref'.total = ref.total /\ ref'.last = ref.last
      /\ ref'.aux = [r \in Reporters |-> ref.aux[r] + 1]
      /\ ref' \in LossState
  <2>1. [r \in Reporters |-> ref.aux[r] + 1] \in [Reporters -> Nat] BY <1>3
  <2> HIDE DEF new
  <2> QED BY <1>1, <1>2, <1>5, <2>1 DEF RunsAsRef, LossState
<1>7. tr' = new /\ total' = ref.total
  <2>1. CASE NothingPending
    <3>1. \A r \in Reporters : pending[r] = NonePending /\ provisional[r] = NonePending
      BY <2>1 DEF NothingPending, Nobody
    <3>2. \A r \in Reporters : Result(r, losses[r]) = losses[r] BY <3>1 DEF Result
    <3>3. tr' = new BY <1>1, <1>3, <2>1, <3>2 DEF NothingPending
    <3>4. Settled = ref.total BY <1>3, <2>1, <3>1 DEF NothingPending, Settled
    <3> QED BY <1>1, <3>3, <3>4
  <2>2. CASE WindowPending
    <3>1. \A r \in Reporters : pending[r] = ref.tr[r] /\ provisional[r] = ref.tr[r] /\ tr[r] = 0
      BY <2>2 DEF WindowPending, Zero
    <3>2. \A r \in Reporters : pending[r] # NonePending /\ provisional[r] # NonePending
      BY <1>4, <3>1 DEF NonePending
    <3>3. ASSUME NEW r \in Reporters
          PROVE  Add(tr[r], Result(r, losses[r]), last) = Add(ref.tr[r], losses[r], ref.last)
      <4> DEFINE p == ref.tr[r]
                 q == p \div (1 + global - last)
                 l == losses[r]
                 both == p + (IF l = NaN THEN q ELSE l)
      <4>1. p \in Nat /\ q \in Nat /\ (l = NaN \/ l \in Nat) BY <1>4
      <4>2. Result(r, l) = IF l = NaN THEN p + q ELSE p + l BY <3>1, <3>2 DEF Result
      <4>3. Add(p, l, ref.last) = both BY <1>3 DEF Add
      <4>4. \A x : x # NaN => Add(tr[r], x, last) = 0 + x BY <3>1 DEF Add
      <4> HIDE DEF p, q, l
      <4>5. Result(r, l) = both BY <4>2
      <4>6. both \in Nat BY <4>1
      <4>7. both # NaN BY <4>6 DEF NaN
      <4> HIDE DEF both
      <4>8. Add(tr[r], both, last) = both BY <4>4, <4>6, <4>7
      <4> QED BY <4>3, <4>5, <4>8 DEF p, l
    <3>4. tr' = new BY <1>1, <3>3
    <3>5. \A r \in Reporters : total[r] - provisional[r] = ref.total[r]
      <4>1. \A r \in Reporters : total[r] = ref.total[r] + ref.tr[r] BY <2>2 DEF WindowPending, Plus
      <4>2. \A r \in Reporters : ref.total[r] \in Nat /\ ref.tr[r] \in Nat BY <1>3
      <4> QED BY <3>1, <4>1, <4>2
    <3>6. \A r \in Reporters : Settled[r] = ref.total[r] BY <3>2, <3>5 DEF Settled
    <3>7. Settled = [r \in Reporters |-> Settled[r]] BY DEF Settled
    <3>8. Settled = [r \in Reporters |-> ref.total[r]] BY <3>6, <3>7
    <3>9. [r \in Reporters |-> ref.total[r]] = ref.total BY <1>3
    <3> QED BY <1>1, <3>4, <3>8, <3>9
  <2> QED BY <1>2, <2>1, <2>2 DEF RunsAsRef
<1>8. RunsAsRef'
  <2>1. NothingPending' BY <1>1, <1>6, <1>7 DEF NothingPending
  <2>2. aux' = ref'.aux BY <1>1, <1>2, <1>6 DEF RunsAsRef
  <2> QED BY <1>1, <1>2, <1>3, <1>6, <2>1, <2>2 DEF RunsAsRef
<1>9. StoredAsRef' BY <1>1, <1>2 DEF StoredAsRef
<1> QED BY <1>1, <1>8, <1>9 DEF ReportInv

LEMMA LoggedState ==
    ASSUME NEW x \in LossState, NEW s \in Nat
    PROVE  Logged(x, s) \in LossState /\ Logged(x, s).last = s
<1>1. /\ x.tr \in [Reporters -> Nat] /\ x.total \in [Reporters -> Nat]
      /\ x = [tr |-> x.tr, total |-> x.total, last |-> x.last, aux |-> x.aux]
  BY ReportFields
<1>2. Across(x.tr) \in Nat BY <1>1, ReportSums
<1>3. World \in Nat \ {0} BY LossAssumption, FS_CardinalityType, FS_EmptySet DEF World
<1> DEFINE mean == Across(x.tr) \div World
           sum == [r \in Reporters |-> x.total[r] + mean]
<1>4. mean \in Nat BY <1>2, <1>3
<1>5. Logged(x, s) = [x EXCEPT !.total = sum, !.tr = Zero, !.last = s, !.aux = Zero] BY DEF Logged
<1> HIDE DEF mean
<1>6. sum \in [Reporters -> Nat] BY <1>1, <1>4
<1> HIDE DEF sum
<1> QED BY <1>5, <1>6, FreshState DEF LossState

\* After an optimizer step, or an epoch's last one, the window is the uninterrupted run's whether
\* or not it still waited, and so is what is logged and saved.
LEMMA BoundaryReports ==
    ASSUME ReportInv, NEW log \in BOOLEAN, NEW save \in BOOLEAN, Boundary(log, save)
    PROVE  ReportInv'
<1> DEFINE s == IF micro = GA THEN global + 1 ELSE global
           held == [tr |-> Window, total |-> Settled, last |-> last, aux |-> aux]
           boundary == IF log /\ s > last THEN Logged(held, s) ELSE held
           next == IF log /\ s > ref.last THEN Logged(ref, s) ELSE ref
<1>1. /\ reporting = "run" /\ reporting' = "run" /\ global' = s /\ ref' = next
      /\ tr' = boundary.tr /\ total' = boundary.total /\ last' = boundary.last /\ aux' = boundary.aux
      /\ saved' = IF save /\ s > 0
                  THEN [step |-> s, tr |-> boundary.tr, total |-> boundary.total,
                        last |-> boundary.last, aux |-> boundary.aux, ref |-> ref']
                  ELSE saved
      /\ pending' = Nobody /\ provisional' = Nobody
      /\ start' = start /\ baseline' = baseline /\ began' = began
  BY DEF Boundary
<1>2. StoredAsRef /\ RunsAsRef BY <1>1 DEF ReportInv
<1>3. /\ ref \in LossState /\ ref.tr \in [Reporters -> Nat] /\ ref.total \in [Reporters -> Nat]
      /\ global \in Nat /\ ref.last <= global /\ ref.last \in Nat /\ last = ref.last /\ aux = ref.aux
      /\ ref = [tr |-> ref.tr, total |-> ref.total, last |-> ref.last, aux |-> ref.aux]
  BY <1>2, ReportFields DEF RunsAsRef
<1>4. Window = ref.tr /\ Settled = ref.total
  <2>1. CASE NothingPending
    <3>1. \A r \in Reporters : pending[r] = NonePending /\ provisional[r] = NonePending
      BY <2>1 DEF NothingPending, Nobody
    <3> QED BY <1>3, <2>1, <3>1 DEF NothingPending, Window, Settled
  <2>2. CASE WindowPending
    <3>1. \A r \in Reporters : pending[r] = ref.tr[r] /\ provisional[r] = ref.tr[r] /\ tr[r] = 0
      BY <2>2 DEF WindowPending, Zero
    <3>2. \A r \in Reporters : ref.total[r] \in Nat /\ ref.tr[r] \in Nat BY <1>3
    <3>3. \A r \in Reporters : pending[r] # NonePending /\ provisional[r] # NonePending
      BY <3>1, <3>2 DEF NonePending
    <3>4. \A r \in Reporters : total[r] = ref.total[r] + ref.tr[r] BY <2>2 DEF WindowPending, Plus
    <3>5. \A r \in Reporters : total[r] - provisional[r] = ref.total[r] BY <3>1, <3>2, <3>4
    <3>6. \A r \in Reporters : tr[r] + pending[r] = ref.tr[r] BY <3>1, <3>2
    <3>7. \A r \in Reporters : Window[r] = ref.tr[r] BY <3>3, <3>6 DEF Window
    <3>8. \A r \in Reporters : Settled[r] = ref.total[r] BY <3>3, <3>5 DEF Settled
    <3>9. Window = [r \in Reporters |-> Window[r]] /\ Settled = [r \in Reporters |-> Settled[r]]
      BY DEF Window, Settled
    <3>10. Window = [r \in Reporters |-> ref.tr[r]] /\ Settled = [r \in Reporters |-> ref.total[r]]
      BY <3>7, <3>8, <3>9
    <3>11. [r \in Reporters |-> ref.tr[r]] = ref.tr /\ [r \in Reporters |-> ref.total[r]] = ref.total
      BY <1>3
    <3> QED BY <3>10, <3>11
  <2> QED BY <1>2, <2>1, <2>2 DEF RunsAsRef
<1>5. held = ref BY <1>3, <1>4
<1>6. s \in Nat /\ global <= s BY <1>3
<1> HIDE DEF held, s
<1>7. boundary = next BY <1>3, <1>5
<1>8. next \in LossState /\ next.last <= s
  <2>1. CASE log /\ s > ref.last
    <3>1. next = Logged(ref, s) BY <2>1
    <3>2. next \in LossState /\ next.last = s BY <1>3, <1>6, <3>1, LoggedState
    <3> QED BY <1>6, <3>2
  <2>2. CASE ~(log /\ s > ref.last)
    <3>1. next = ref BY <2>2
    <3> QED BY <1>3, <1>6, <3>1
  <2> QED BY <2>1, <2>2
<1> HIDE DEF boundary, next
<1>9. RunsAsRef'
  <2>1. NothingPending' BY <1>1, <1>7 DEF NothingPending
  <2> QED BY <1>1, <1>2, <1>6, <1>7, <1>8, <2>1 DEF RunsAsRef
<1>10. StoredAsRef'
  <2>1. CASE save /\ s > 0
    <3>1. saved' = [step |-> s, tr |-> boundary.tr, total |-> boundary.total,
                    last |-> boundary.last, aux |-> boundary.aux, ref |-> next]
      BY <1>1, <2>1
    <3>2. s # 0 BY <1>6, <2>1
    <3> QED BY <1>6, <1>7, <1>8, <3>1, <3>2 DEF StoredAsRef
  <2>2. CASE ~(save /\ s > 0) BY <1>1, <1>2, <2>2 DEF StoredAsRef
  <2> QED BY <2>1, <2>2
<1> QED BY <1>1, <1>9, <1>10 DEF ReportInv

LEMMA FinishReports ==
    ASSUME ReportInv, FinishTraining
    PROVE  ReportInv'
<1>1. /\ reporting = "run" /\ reporting' = "done" /\ total' = Plus(total, tr)
      /\ reported' = (IF start > 0 /\ global > start THEN Across(total') - baseline ELSE Across(total'))
      /\ global' = global /\ start' = start /\ saved' = saved /\ ref' = ref /\ began' = began
  BY DEF FinishTraining
<1>2. StoredAsRef /\ RunsAsRef BY <1>1 DEF ReportInv
<1>3. ref.tr \in [Reporters -> Nat] /\ ref.total \in [Reporters -> Nat]
  BY <1>2, ReportFields DEF RunsAsRef
<1>4. total' = Plus(ref.total, ref.tr)
  <2>1. CASE NothingPending BY <1>1, <2>1 DEF NothingPending
  <2>2. CASE WindowPending
    <3>1. \A r \in Reporters : total[r] + tr[r] = ref.total[r] + ref.tr[r]
      <4>1. \A r \in Reporters : total[r] = ref.total[r] + ref.tr[r] /\ tr[r] = 0
        BY <2>2 DEF WindowPending, Plus, Zero
      <4>2. \A r \in Reporters : ref.total[r] \in Nat /\ ref.tr[r] \in Nat BY <1>3
      <4> QED BY <4>1, <4>2
    <3> QED BY <1>1, <3>1 DEF Plus
  <2> QED BY <1>2, <2>1, <2>2 DEF RunsAsRef
<1>5. Across(Plus(ref.total, ref.tr)) \in Nat BY <1>3, ReportSums
<1>6. baseline = began /\ start \in Nat /\ (start = 0 => began = 0) BY <1>2 DEF RunsAsRef
<1>7. FinalLoss'
  <2>1. reported' = Across(Plus(ref.total, ref.tr)) - (IF global > start THEN began ELSE 0)
    <3> DEFINE sum == Across(Plus(ref.total, ref.tr))
    <3>1. sum \in Nat /\ reported' = (IF start > 0 /\ global > start THEN sum - began ELSE sum)
      BY <1>1, <1>4, <1>5, <1>6
    <3> HIDE DEF sum
    <3>2. reported' = sum - (IF global > start THEN began ELSE 0) BY <1>6, <3>1
    <3> QED BY <3>2 DEF sum
  <2> QED BY <1>1, <2>1 DEF FinalLoss
<1>8. StoredAsRef' BY <1>1, <1>2 DEF StoredAsRef
<1> QED BY <1>1, <1>7, <1>8 DEF ReportInv

LEMMA ReportKept ==
    ASSUME ReportInv, [ReportingNext]_reportingVars
    PROVE  ReportInv'
<1>1. CASE StartReporting BY <1>1, StartReports
<1>2. CASE FinishTraining BY <1>2, FinishReports
<1>3. CASE Kill BY <1>3 DEF Kill, ReportInv, StoredAsRef
<1>4. CASE Leave BY <1>4 DEF Leave, ReportInv, StoredAsRef
<1>5. ASSUME NEW losses \in [Reporters -> Losses \cup {NaN}], Microstep(losses) PROVE ReportInv'
  BY <1>5, MicrostepReports
<1>6. ASSUME NEW log \in BOOLEAN, NEW save \in BOOLEAN, Boundary(log, save) PROVE ReportInv'
  BY <1>6, BoundaryReports
<1>7. CASE UNCHANGED reportingVars
  BY <1>7 DEF reportingVars, ReportInv, StoredAsRef, RunsAsRef, NothingPending, WindowPending, FinalLoss
<1> QED BY <1>1, <1>2, <1>3, <1>4, <1>5, <1>6, <1>7 DEF ReportingNext

\* However often a training is killed and resumed, what is logged next is what it would have been, and
\* the final train_loss is that of the steps the job has run; with any losses, finite or not.
THEOREM LossesAsUninterrupted == ReportingSpec => []ReportedAsUninterrupted
<1>1. ReportingInit => ReportInv BY ReportingStarts
<1>2. ReportInv /\ [ReportingNext]_reportingVars => ReportInv' BY ReportKept
<1>3. ReportInv => ReportedAsUninterrupted
  <2> SUFFICES ASSUME ReportInv PROVE ReportedAsUninterrupted OBVIOUS
  <2>1. ASSUME reporting = "run", pending = Nobody
        PROVE  [tr |-> tr, total |-> total, last |-> last, aux |-> aux] = ref
    <3>1. RunsAsRef BY <2>1 DEF ReportInv
    <3>2. ref \in LossState BY <3>1 DEF RunsAsRef
    <3>3. ref.tr # Nobody
      <4>1. PICK r \in Reporters : TRUE BY LossAssumption
      <4>2. ref.tr[r] \in Nat /\ Nobody[r] = -1 BY <3>2, ReportFields DEF Nobody, NonePending
      <4> QED BY <4>2
    <3>4. NothingPending BY <2>1, <3>1, <3>3 DEF RunsAsRef, WindowPending
    <3> QED BY <3>1, <3>2, <3>4, ReportFields DEF RunsAsRef, NothingPending
  <2> QED BY <2>1 DEF ReportInv, FinalLoss, ReportedAsUninterrupted
<1> QED BY <1>1, <1>2, <1>3, PTL DEF ReportingSpec


-----------------------------------------------------------------------------
(***************************************************************************)
(* The gradient of an OPD window (LossWindow).  After every microbatch the *)
(* weight of each one done is the mean over the tokens of the window so    *)
(* far, times the ranks, over which DDP averages at the window's end.      *)
(***************************************************************************)
WeightOver(g, tokens) == g[1] * tokens = g[2] * LossWorld

WindowTyped ==
    /\ mass \in [LossRanks -> [Microbatches -> Nat]]
    /\ grad \in [LossRanks -> [Microbatches -> Nat \X Nat]]

WeightedSoFar ==
    /\ size \in Microbatches /\ j \in Nat /\ j < size
    /\ \A r \in LossRanks, i \in Microbatches : i > j => mass[r][i] = 0
    /\ denominator = Total /\ (denominator = 0 => j = 0)
    /\ \A r \in LossRanks, i \in 1 .. j : WeightOver(grad[r][i], denominator)

WindowInv ==
    /\ WindowTyped
    /\ IF window = "window" THEN WeightedSoFar ELSE denominator = 0
    /\ GradientIsTokenMean

\* The tokens of a microbatch on all ranks, and those of the window.
TokensOf(masses, i) == AcrossRanks([r \in LossRanks |-> masses[r][i]])

LEMMA WindowSizes ==
    /\ IsFiniteSet(Microbatches) /\ LossWorld \in Nat \ {0} /\ Microbatches \subseteq Nat
<1>1. IsFiniteSet(Microbatches) BY WindowAssumption, FS_Interval DEF Microbatches
<1>2. LossWorld \in Nat \ {0} BY WindowAssumption, FS_CardinalityType, FS_EmptySet DEF LossWorld
<1> QED BY <1>1, <1>2, WindowAssumption DEF Microbatches

LEMMA TokensAreNat ==
    ASSUME NEW f \in [LossRanks -> Nat]
    PROVE  AcrossRanks(f) \in Nat /\ ((\A r \in LossRanks : f[r] = 0) => AcrossRanks(f) = 0)
<1>1. SumUp(f) \in Nat /\ ((\A r \in LossRanks : f[r] = 0) => SumUp(f) = 0)
  BY WindowAssumption, SumUpNat
<1> QED BY <1>1 DEF AcrossRanks, SumUp

LEMMA TokensTyped ==
    ASSUME NEW masses \in [LossRanks -> [Microbatches -> Nat]], NEW i \in Microbatches
    PROVE  /\ TokensOf(masses, i) \in Nat
           /\ (\A r \in LossRanks : masses[r][i] = 0) => TokensOf(masses, i) = 0
<1> DEFINE f == [r \in LossRanks |-> masses[r][i]]
<1>1. f \in [LossRanks -> Nat] OBVIOUS
<1>2. \A r \in LossRanks : f[r] = masses[r][i] OBVIOUS
<1>3. TokensOf(masses, i) = AcrossRanks(f) BY DEF TokensOf
<1> HIDE DEF f
<1> QED BY <1>1, <1>2, <1>3, TokensAreNat

\* A window without a microbatch has no tokens, and one more microbatch adds its own.
LEMMA NoTokens ==
    ASSUME NEW masses \in [LossRanks -> [Microbatches -> Nat]],
           \A r \in LossRanks, i \in Microbatches : masses[r][i] = 0
    PROVE  TokensIn(masses) = 0
<1> DEFINE t == [i \in Microbatches |-> TokensOf(masses, i)]
<1>1. t \in [Microbatches -> Nat] BY TokensTyped
<1>2. \A i \in Microbatches : t[i] = 0 BY TokensTyped
<1>3. TokensIn(masses) = SumUp(t) BY DEF TokensIn, TokensOf, SumUp
<1> HIDE DEF t
<1> QED BY <1>1, <1>2, <1>3, WindowSizes, SumUpNat

LEMMA MoreTokens ==
    ASSUME NEW masses \in [LossRanks -> [Microbatches -> Nat]], NEW m \in [LossRanks -> Nat],
           NEW i \in Microbatches, \A r \in LossRanks : masses[r][i] = 0
    PROVE  /\ TokensIn(masses) \in Nat
           /\ TokensIn([r \in LossRanks |-> [masses[r] EXCEPT ![i] = m[r]]])
              = TokensIn(masses) + AcrossRanks(m)
<1> DEFINE more == [r \in LossRanks |-> [masses[r] EXCEPT ![i] = m[r]]]
           t == [k \in Microbatches |-> TokensOf(masses, k)]
           u == [k \in Microbatches |-> TokensOf(more, k)]
<1>1. more \in [LossRanks -> [Microbatches -> Nat]] OBVIOUS
<1>2. t \in [Microbatches -> Nat] /\ u \in [Microbatches -> Nat] BY <1>1, TokensTyped
<1>3. \A k \in Microbatches \ {i} : t[k] = u[k]
  <2> SUFFICES ASSUME NEW k \in Microbatches \ {i} PROVE TokensOf(masses, k) = TokensOf(more, k) OBVIOUS
  <2>1. [r \in LossRanks |-> masses[r][k]] = [r \in LossRanks |-> more[r][k]] OBVIOUS
  <2> QED BY <2>1 DEF TokensOf
<1>4. t[i] = 0 BY TokensTyped
<1>5. u[i] = AcrossRanks(m)
  <2>1. [r \in LossRanks |-> more[r][i]] = m OBVIOUS
  <2>2. TokensOf(more, i) = AcrossRanks(m) BY <2>1 DEF TokensOf
  <2> QED BY <2>2
<1>6. TokensIn(masses) = SumUp(t) BY DEF TokensIn, TokensOf, SumUp
<1>7. TokensIn(more) = SumUp(u) BY DEF TokensIn, TokensOf, SumUp
<1> HIDE DEF t, u, more
<1>8. IsFiniteSet(Microbatches) BY WindowSizes
<1>9. SumUp(t) \in Nat /\ SumUp(u) \in Nat BY <1>2, <1>8, SumUpNat
<1>10. SumUp(u) + t[i] = SumUp(t) + u[i] BY <1>2, <1>3, <1>8, SumUpChange
<1>11. u[i] \in Nat BY <1>2
<1> QED BY <1>4, <1>5, <1>6, <1>7, <1>9, <1>10, <1>11 DEF more

LEMMA Products ==
    ASSUME NEW x \in Nat, NEW y \in Nat, NEW z \in Nat
    PROVE  x * y \in Nat /\ x * y = y * x /\ (x * y) * z = (x * z) * y /\ x * 1 = x /\ 1 * x = x
OBVIOUS

\* Rescaled from the tokens before to the tokens now, a weight stays the mean.
LEMMA Rescaled ==
    ASSUME NEW g \in Nat \X Nat, NEW before \in Nat, NEW now \in Nat, WeightOver(g, before)
    PROVE  LET h == Times(g, <<before, now>>) IN h \in Nat \X Nat /\ WeightOver(h, now)
<1> DEFINE p == g[1]
           q == g[2]
           h == Times(g, <<before, now>>)
<1>1. p \in Nat /\ q \in Nat OBVIOUS
<1>2. h[1] = p * before /\ h[2] = q * now /\ h = <<p * before, q * now>> BY DEF Times
<1>3. p * before = q * LossWorld BY DEF WeightOver
<1> HIDE DEF p, q
<1>4. p * before \in Nat /\ q * now \in Nat BY <1>1, Products
<1>5. h \in Nat \X Nat BY <1>2, <1>4
<1>6. (p * before) * now = (q * now) * LossWorld
  <2>1. (q * LossWorld) * now = (q * now) * LossWorld BY <1>1, WindowSizes, Products
  <2> QED BY <1>3, <2>1
<1>7. WeightOver(h, now) BY <1>2, <1>6 DEF WeightOver
<1> QED BY <1>5, <1>7

\* The microbatch just done: its loss is divided by the window's size, which cancels.
LEMMA NewWeight ==
    ASSUME NEW now \in Nat, NEW n \in Nat
    PROVE  LET h == Times(<<LossWorld * n, now>>, <<1, n>>) IN h \in Nat \X Nat /\ WeightOver(h, now)
<1> DEFINE h == Times(<<LossWorld * n, now>>, <<1, n>>)
<1>1. h = <<(LossWorld * n) * 1, now * n>> BY DEF Times
<1>2. LossWorld * n \in Nat /\ now * n \in Nat BY WindowSizes, Products
<1>3. (LossWorld * n) * 1 = LossWorld * n BY <1>2, Products
<1>4. (LossWorld * n) * now = (now * n) * LossWorld
  <2>1. (LossWorld * n) * now = (LossWorld * now) * n BY WindowSizes, Products
  <2>2. LossWorld * now = now * LossWorld BY WindowSizes, Products
  <2>3. (now * LossWorld) * n = (now * n) * LossWorld BY WindowSizes, Products
  <2> QED BY <2>1, <2>2, <2>3
<1>5. h \in Nat \X Nat BY <1>1, <1>2, <1>3
<1>6. h[1] = LossWorld * n /\ h[2] = now * n BY <1>1, <1>3
<1>7. WeightOver(h, now) BY <1>4, <1>6 DEF WeightOver
<1> QED BY <1>5, <1>7

\* What DDP's average over the ranks leaves of it is the weight of an SFT step.
LEMMA Averaged ==
    ASSUME NEW g \in Nat \X Nat, NEW tokens \in Nat, WeightOver(g, tokens)
    PROVE  /\ Times(g, <<1, LossWorld>>) \in Nat \X Nat
           /\ Same(Times(g, <<1, LossWorld>>), Times(Times(<<1, tokens>>, <<LossWorld, 1>>), <<1, LossWorld>>))
<1> DEFINE p == g[1]
           q == g[2]
           a == Times(g, <<1, LossWorld>>)
           b == Times(Times(<<1, tokens>>, <<LossWorld, 1>>), <<1, LossWorld>>)
<1>1. p \in Nat /\ q \in Nat OBVIOUS
<1>2. a = <<p * 1, q * LossWorld>> BY DEF Times
<1>3. b = <<(1 * LossWorld) * 1, (tokens * 1) * LossWorld>> BY DEF Times
<1>4. p * tokens = q * LossWorld BY DEF WeightOver
<1> HIDE DEF p, q
<1>5. p * 1 = p /\ 1 * LossWorld = LossWorld /\ LossWorld * 1 = LossWorld /\ tokens * 1 = tokens
  BY <1>1, WindowSizes, Products
<1>6. a = <<p, q * LossWorld>> /\ b = <<LossWorld, tokens * LossWorld>> BY <1>2, <1>3, <1>5
<1>7. q * LossWorld \in Nat /\ tokens * LossWorld \in Nat BY <1>1, WindowSizes, Products
<1>8. p * (tokens * LossWorld) = LossWorld * (q * LossWorld)
  <2>1. p * (tokens * LossWorld) = (tokens * LossWorld) * p BY <1>1, <1>7, Products
  <2>2. (tokens * LossWorld) * p = (tokens * p) * LossWorld BY <1>1, WindowSizes, Products
  <2>3. tokens * p = p * tokens BY <1>1, Products
  <2>4. (q * LossWorld) * LossWorld = LossWorld * (q * LossWorld) BY <1>7, WindowSizes, Products
  <2> QED BY <1>4, <2>1, <2>2, <2>3, <2>4
<1>9. a \in Nat \X Nat BY <1>1, <1>6, <1>7
<1>10. a[1] * b[2] = b[1] * a[2] BY <1>6, <1>8
<1> HIDE DEF a, b
<1>11. Same(a, b) BY <1>10 DEF Same
<1> QED BY <1>9, <1>11 DEF a, b

LEMMA WindowBegins ==
    ASSUME WindowInv, NEW n \in Microbatches, BeginWindow(n)
    PROVE  WindowInv'
<1>1. /\ mass' = [r \in LossRanks |-> [i \in Microbatches |-> 0]] /\ size' = n /\ j' = 0
      /\ grad' = [r \in LossRanks |-> [i \in Microbatches |-> NoWeight]]
      /\ window' = "window" /\ denominator' = 0
  BY DEF BeginWindow, WindowInv
<1>2. WindowTyped' BY <1>1 DEF WindowTyped, NoWeight
<1>3. \A r \in LossRanks, i \in Microbatches : mass'[r][i] = 0 BY <1>1
<1>4. Total' = 0
  <2>1. mass' \in [LossRanks -> [Microbatches -> Nat]] BY <1>2 DEF WindowTyped
  <2> QED BY <1>3, <2>1, NoTokens DEF Total
<1>5. n \in Nat /\ 0 < n BY WindowAssumption DEF Microbatches
<1>6. WeightedSoFar' BY <1>1, <1>3, <1>4, <1>5 DEF WeightedSoFar
<1> QED BY <1>1, <1>2, <1>6 DEF WindowInv, GradientIsTokenMean

LEMMA WindowGrows ==
    ASSUME WindowInv, NEW m \in [LossRanks -> 0 .. MaxMass], Microbatch(m)
    PROVE  WindowInv'
<1> DEFINE i == j + 1
           d == denominator + AcrossRanks(m)
           old == IF denominator = 0 THEN grad
                  ELSE [r \in LossRanks |-> [k \in Microbatches |-> Times(grad[r][k], <<denominator, d>>)]]
           weight == Times(<<LossWorld * size, d>>, <<1, size>>)
           new == [r \in LossRanks |-> [old[r] EXCEPT ![i] = weight]]
           averaged == [r \in LossRanks |-> [k \in Microbatches |-> Times(new[r][k], <<1, LossWorld>>)]]
<1>1. /\ window = "window" /\ AcrossRanks(m) > 0
      /\ mass' = [r \in LossRanks |-> [mass[r] EXCEPT ![i] = m[r]]]
      /\ grad' = IF i = size THEN averaged ELSE new
      /\ denominator' = IF i = size THEN 0 ELSE d
      /\ window' = IF i = size THEN "applied" ELSE "window"
      /\ j' = i /\ size' = size
  BY DEF Microbatch, Backward
<1>2. WindowTyped /\ WeightedSoFar BY <1>1 DEF WindowInv
<1>3. /\ size \in Nat /\ j \in Nat /\ i \in Nat /\ i <= size /\ i \in Microbatches
      /\ \A k : k \in 1 .. i <=> (k \in 1 .. j \/ k = i)
      /\ 1 .. i \subseteq Microbatches
  BY <1>2, WindowAssumption DEF WeightedSoFar, Microbatches
<1>4. m \in [LossRanks -> Nat] BY WindowAssumption
<1>5. \A r \in LossRanks : mass[r][i] = 0 BY <1>2, <1>3 DEF WeightedSoFar
<1>6. Total \in Nat /\ Total' = Total + AcrossRanks(m)
  BY <1>1, <1>2, <1>3, <1>4, <1>5, MoreTokens DEF WindowTyped, Total
<1>7. denominator = Total /\ denominator \in Nat /\ d = Total' /\ AcrossRanks(m) \in Nat
  BY <1>2, <1>4, <1>6, TokensAreNat DEF WeightedSoFar
<1>8. d \in Nat /\ d # 0 BY <1>1, <1>7
<1> HIDE DEF d
<1>9. /\ old \in [LossRanks -> [Microbatches -> Nat \X Nat]]
      /\ \A r \in LossRanks, k \in 1 .. j : WeightOver(old[r][k], d)
  <2>1. CASE denominator = 0
    <3>1. j = 0 BY <1>2, <2>1 DEF WeightedSoFar
    <3>2. 1 .. j = {} BY <3>1
    <3> QED BY <1>2, <2>1, <3>2 DEF WindowTyped
  <2>2. CASE denominator # 0
    <3>1. old = [r \in LossRanks |-> [k \in Microbatches |-> Times(grad[r][k], <<denominator, d>>)]]
      BY <2>2
    <3> HIDE DEF old
    <3>2. ASSUME NEW r \in LossRanks, NEW k \in Microbatches
          PROVE  Times(grad[r][k], <<denominator, d>>) \in Nat \X Nat
      <4>1. grad[r][k] \in Nat \X Nat BY <1>2 DEF WindowTyped
      <4>2. grad[r][k][1] * denominator \in Nat /\ grad[r][k][2] * d \in Nat
        BY <1>7, <1>8, <4>1, Products
      <4> QED BY <4>2 DEF Times
    <3>3. ASSUME NEW r \in LossRanks, NEW k \in 1 .. j PROVE WeightOver(old[r][k], d)
      <4>1. k \in Microbatches BY <1>3
      <4>2. grad[r][k] \in Nat \X Nat /\ WeightOver(grad[r][k], denominator)
        BY <1>2, <4>1 DEF WindowTyped, WeightedSoFar
      <4>3. old[r][k] = Times(grad[r][k], <<denominator, d>>) BY <3>1, <4>1
      <4> QED BY <1>7, <1>8, <4>2, <4>3, Rescaled
    <3> QED BY <3>1, <3>2, <3>3
  <2> QED BY <2>1, <2>2
<1>10. weight \in Nat \X Nat /\ WeightOver(weight, d) BY <1>3, <1>8, NewWeight
<1> HIDE DEF weight, old
<1>11. /\ new \in [LossRanks -> [Microbatches -> Nat \X Nat]]
       /\ \A r \in LossRanks, k \in 1 .. i : WeightOver(new[r][k], d)
  <2>1. new \in [LossRanks -> [Microbatches -> Nat \X Nat]] BY <1>9, <1>10
  <2>2. ASSUME NEW r \in LossRanks, NEW k \in 1 .. i PROVE WeightOver(new[r][k], d)
    <3>1. new[r][k] = IF k = i THEN weight ELSE old[r][k]
      <4>1. k \in Microbatches BY <1>3
      <4> QED BY <1>9, <4>1
    <3>2. k = i \/ k \in 1 .. j BY <1>3
    <3> QED BY <1>9, <1>10, <3>1, <3>2
  <2> QED BY <2>1, <2>2
<1> HIDE DEF new
<1>12. mass' \in [LossRanks -> [Microbatches -> Nat]] BY <1>1, <1>2, <1>4 DEF WindowTyped
<1>13. CASE i = size
  <2>1. window' = "applied" /\ denominator' = 0 /\ grad' = averaged /\ j' = i /\ size' = size
    BY <1>1, <1>13
  <2>2. ASSUME NEW r \in LossRanks, NEW k \in Microbatches
        PROVE  averaged[r][k] \in Nat \X Nat /\ (k \in 1 .. size => Same(averaged[r][k], GlobalToken'))
    <3>1. averaged[r][k] = Times(new[r][k], <<1, LossWorld>>) /\ new[r][k] \in Nat \X Nat BY <1>11
    <3>2. Times(new[r][k], <<1, LossWorld>>) \in Nat \X Nat
      <4>1. new[r][k][1] * 1 \in Nat /\ new[r][k][2] * LossWorld \in Nat BY <3>1, WindowSizes, Products
      <4> QED BY <4>1 DEF Times
    <3>3. ASSUME k \in 1 .. size PROVE Same(averaged[r][k], GlobalToken')
      <4>1. WeightOver(new[r][k], d) BY <1>11, <1>13, <3>3
      <4>2. GlobalToken' = Times(Times(<<1, d>>, <<LossWorld, 1>>), <<1, LossWorld>>)
        BY <1>7 DEF GlobalToken, Times
      <4> QED BY <1>8, <3>1, <4>1, <4>2, Averaged
    <3> QED BY <3>1, <3>2, <3>3
  <2>3. WindowTyped' BY <1>12, <2>1, <2>2 DEF WindowTyped
  <2>4. GradientIsTokenMean'
    <3>1. \A k \in 1 .. size : k \in Microbatches BY <1>3, <1>13
    <3> QED BY <2>1, <2>2, <3>1 DEF GradientIsTokenMean, Same
  <2> QED BY <2>1, <2>3, <2>4 DEF WindowInv
<1>14. CASE i # size
  <2>1. window' = "window" /\ denominator' = d /\ grad' = new /\ j' = i /\ size' = size BY <1>1, <1>14
  <2>2. WindowTyped' BY <1>11, <1>12, <2>1 DEF WindowTyped
  <2>3. \A r \in LossRanks, k \in Microbatches : k > i => mass'[r][k] = 0
    <3> SUFFICES ASSUME NEW r \in LossRanks, NEW k \in Microbatches, k > i PROVE mass'[r][k] = 0 OBVIOUS
    <3>1. k \in Nat /\ k > j /\ k # i BY <1>3, WindowSizes
    <3>2. mass[r][k] = 0 BY <1>2, <3>1 DEF WeightedSoFar
    <3>3. mass'[r][k] = mass[r][k] BY <1>1, <1>2, <3>1 DEF WindowTyped
    <3> QED BY <3>2, <3>3
  <2>4. i < size BY <1>3, <1>14
  <2>5. size \in Microbatches BY <1>2 DEF WeightedSoFar
  <2>6. \A r \in LossRanks, k \in 1 .. j' : WeightOver(grad'[r][k], denominator') BY <1>11, <2>1
  <2> HIDE DEF i
  <2>7. WeightedSoFar' BY <1>3, <1>7, <1>8, <2>1, <2>3, <2>4, <2>5, <2>6 DEF WeightedSoFar, WeightOver
  <2> QED BY <2>1, <2>2, <2>7 DEF WindowInv, GradientIsTokenMean
<1> QED BY <1>13, <1>14

LEMMA WindowKept ==
    ASSUME WindowInv, [LossNext]_lossVars
    PROVE  WindowInv'
<1>1. ASSUME NEW n \in Microbatches, BeginWindow(n) PROVE WindowInv' BY <1>1, WindowBegins
<1>2. ASSUME NEW m \in [LossRanks -> 0 .. MaxMass], Microbatch(m) PROVE WindowInv' BY <1>2, WindowGrows
<1>3. CASE Raise BY <1>3 DEF Raise, WindowInv, WindowTyped, GradientIsTokenMean
<1>4. CASE UNCHANGED lossVars
  <2>1. /\ mass' = mass /\ size' = size /\ j' = j /\ grad' = grad /\ denominator' = denominator
        /\ window' = window
    BY <1>4 DEF lossVars
  <2>2. Total' = Total BY <2>1 DEF Total
  <2>3. WindowTyped' /\ GradientIsTokenMean'
    BY <2>1, <2>2 DEF WindowInv, WindowTyped, GradientIsTokenMean, GlobalToken, Same
  <2>4. WeightedSoFar => WeightedSoFar' BY <2>1, <2>2 DEF WeightedSoFar, WeightOver
  <2> QED BY <2>1, <2>3, <2>4 DEF WindowInv
<1> QED BY <1>1, <1>2, <1>3, <1>4 DEF LossNext

\* The gradient an OPD step applies is the mean over the tokens of its window, however they are spread
\* over microbatches and ranks, in a shorter window and after one that raised.
THEOREM WindowIsTokenMean == LossSpec => []GradientIsTokenMean
<1>1. LossInit => WindowInv
  <2> SUFFICES ASSUME LossInit PROVE WindowInv OBVIOUS
  <2>1. WindowTyped BY DEF LossInit, WindowTyped, NoWeight
  <2> QED BY <2>1 DEF LossInit, WindowInv, GradientIsTokenMean
<1>2. WindowInv /\ [LossNext]_lossVars => WindowInv' BY WindowKept
<1>3. WindowInv => GradientIsTokenMean BY DEF WindowInv
<1> QED BY <1>1, <1>2, <1>3, PTL DEF LossSpec
=============================================================================
