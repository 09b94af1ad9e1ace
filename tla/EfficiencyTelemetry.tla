------------------------ MODULE EfficiencyTelemetry ------------------------
(***************************************************************************)
(* The history of ShaftTrainingEfficiencyMonitor through checkpoints and   *)
(* resumes (shaft/training/efficiency.py).  Each rank keeps a frame for    *)
(* every optimizer step and writes its history beside the model; a resumed *)
(* job takes the histories up only if all ranks can.                       *)
(*                                                                         *)
(* A generation names a history, and a resumed job continues under the     *)
(* generation it found: two jobs that resume the same checkpoint write     *)
(* different histories under one name into the same directories.  What     *)
(* keeps them apart is a transaction in the checkpoint's directory that is *)
(* pending before the model's files change and committed after everything. *)
(*                                                                         *)
(* Each phase is local work of a rank and a collective in which all ranks  *)
(* learn of a failure.  File operations are replacements by rename; that a *)
(* power loss may tear an unsynced file is not modelled (a torn file is    *)
(* not JSON, which restoring treats as a missing one).  The work between   *)
(* the collectives of validation and revocation (device events, memory     *)
(* counters) is no file operation and does not fail here.                  *)
(***************************************************************************)
EXTENDS Naturals, Sequences

CONSTANTS Peers,        \* the ranks other than 0
          WithMarker,    \* the save is published by a marker (see PublicationModes)
          MaxStep,      \* optimizer steps of a whole run
          MaxJobs       \* bound: jobs, the first and the resumed ones

ASSUME TelemetryAssumption ==
    /\ Peers \subseteq Nat \ {0}
    /\ WithMarker \in BOOLEAN
    /\ MaxStep \in Nat \ {0} /\ MaxJobs \in Nat

VARIABLES job,      \* number of the current job, or of the last one
          mode,     \* its setting: "on", "unsaved" (persist=false) or "off"
          lineage,  \* ghost: for each step its model has taken, the job that took it
          history,  \* each rank's monitor
          pc,       \* where each rank is
          vote,     \* what it contributed to the collective it waits in
          model,    \* lineage of the model in checkpoint-<step>, <<>> if none or torn
          txn,      \* its telemetry transaction
          set,      \* generation of its set manifest, 0 if there is none
          snaps     \* its snapshot of each rank

disk == <<model, txn, set, snaps>>
vars == <<job, mode, lineage, history, pc, vote, disk>>

Ranks == Peers \cup {0}
Steps == 1 .. MaxStep
step == Len(lineage)

None == [generation |-> 0, initial |-> 0, frames |-> <<>>]
Transaction(state, generation) == [state |-> state, generation |-> generation]

Persists == mode = "on"
All(x) == [r \in Ranks |-> x]
At(p) == \A r \in Ranks : pc[r] = p
Running == ~At("down")

-----------------------------------------------------------------------------
(* Restoring *)

\* A history under a generation that began after step `initial`; it is complete if that is 0.
Fresh(s) == [generation |-> job', initial |-> s, frames |-> <<>>]

\* Rank r reads a snapshot that fits the committed transaction, the set and the step.
Readable(r, s) ==
    /\ txn[s].state = "committed"
    /\ set[s] = txn[s].generation
    /\ snaps[s][r] # None /\ snaps[s][r].generation = txn[s].generation
    /\ snaps[s][r].initial < s
    /\ snaps[s][r].initial + Len(snaps[s][r].frames) = s

\* Mutant: each rank decides for itself.
RestoreAlone(s, blind) ==
    [r \in Ranks |-> IF r \notin blind /\ Readable(r, s) THEN snaps[s][r] ELSE Fresh(s)]

\* All ranks take up the history of checkpoint s, or none does; those in `blind` fail to read.
Restore(s, blind) ==
    IF /\ \A r \in Ranks : r \notin blind /\ Readable(r, s)
       /\ \A q, r \in Ranks : snaps[s][q].initial = snaps[s][r].initial
    THEN snaps[s]
    ELSE All(Fresh(s))

-----------------------------------------------------------------------------
Init ==
    /\ job = 0 /\ mode = "off" /\ lineage = <<>> /\ history = All(None)
    /\ pc = All("down") /\ vote = All("none")
    /\ model = [s \in Steps |-> <<>>]
    /\ txn = [s \in Steps |-> Transaction("none", 0)]
    /\ set = [s \in Steps |-> 0]
    /\ snaps = [s \in Steps |-> All(None)]

\* A job starts, from nothing (s = 0) or from a checkpoint.
StartJob(m, s, blind) ==
    /\ ~Running /\ job < MaxJobs
    /\ s > 0 => model[s] # <<>>
    /\ job' = job + 1 /\ mode' = m
    /\ lineage' = IF s = 0 THEN <<>> ELSE model[s]
    /\ history' = CASE m = "off" -> All(None)
                    [] m # "off" /\ s = 0 -> All(Fresh(0))
                    [] OTHER -> Restore(s, blind)
    /\ pc' = All("train") /\ vote' = All("none")
    /\ UNCHANGED disk

\* An optimizer step ends: every rank commits its staged frame; a save may follow.
Train(saving) ==
    /\ At("train") /\ step < MaxStep
    /\ lineage' = Append(lineage, job)
    /\ history' = IF mode = "off" THEN history
                  ELSE [r \in Ranks |-> [history[r] EXCEPT !.frames = Append(@, job)]]
    /\ pc' = IF saving THEN All("begin") ELSE pc
    /\ UNCHANGED <<job, mode, vote, disk>>

\* Training is over, a rank's error has ended the job, or it is killed.
Stop ==
    /\ Running
    /\ pc' = All("down") /\ vote' = All("none")
    /\ UNCHANGED <<job, mode, lineage, history, disk>>

-----------------------------------------------------------------------------
(* The phases of a save *)

\* Rank r does the work of phase p, which ends in vote v.
Votes(r, p, v) ==
    /\ pc[r] = p /\ vote[r] = "none"
    /\ vote' = [vote EXCEPT ![r] = v]
    /\ UNCHANGED <<job, mode, lineage, history, pc>>

\* The begin revokes the model-only marker on rank 0.  Under publication that has a
\* collective of its own; otherwise it shares the one after the prepare phases.
Begin(r, v) ==
    /\ v = "failed" => r = 0
    /\ IF WithMarker THEN Votes(r, "begin", v)
       ELSE /\ pc[r] = "begin" /\ vote[r] = "none"
            /\ pc' = [pc EXCEPT ![r] = IF v = "ok" THEN "reporting" ELSE "prepared"]
            /\ vote' = [vote EXCEPT ![r] = IF v = "ok" THEN "none" ELSE v]
            /\ UNCHANGED <<job, mode, lineage, history>>
    /\ UNCHANGED disk

\* Each rank contributes its reporting state.
Report(r, v) == Votes(r, "reporting", v) /\ UNCHANGED disk

\* Rank 0 publishes the generation before the model's files change.
PrepareTransaction(v) ==
    /\ Votes(0, "prepare", v)
    /\ txn' = IF v = "failed" THEN txn
              ELSE [txn EXCEPT ![step] = IF Persists
                        THEN Transaction("pending", history[0].generation)
                        ELSE Transaction("revoked", 0)]
    /\ UNCHANGED <<model, set, snaps>>

\* HF writes the checkpoint in place; it cannot be resumed while it is half written.
OpenModel ==
    /\ pc[0] = "save" /\ vote[0] = "none" /\ model[step] # <<>>
    /\ model' = [model EXCEPT ![step] = <<>>]
    /\ UNCHANGED <<job, mode, lineage, history, pc, vote, txn, set, snaps>>

SaveModel(v) ==
    /\ Votes(0, "save", v)
    /\ model[step] = <<>>
    /\ model' = IF v = "ok" THEN [model EXCEPT ![step] = lineage] ELSE model
    /\ UNCHANGED <<txn, set, snaps>>

\* Each rank reads the transaction before its snapshot, and again before the commit.
Validate(r, v) ==
    /\ \/ Votes(r, "validate", v)
       \/ Votes(r, "recheck", v)
    /\ v = "ok" => txn[step] = Transaction("pending", history[r].generation)
    /\ UNCHANGED disk

\* Rank 0 removes the old snapshots one by one, then the old set.
Unlink(r) ==
    /\ pc[0] \in {"revoke", "undo"} /\ vote[0] = "none"
    /\ snaps[step][r] # None
    /\ snaps' = [snaps EXCEPT ![step][r] = None]
    /\ UNCHANGED <<job, mode, lineage, history, pc, vote, model, txn, set>>

Revoke(v) ==
    /\ \/ Votes(0, "revoke", v)
       \/ Votes(0, "undo", v)
    /\ v = "ok" => snaps[step] = All(None)
    /\ set' = IF v = "ok" THEN [set EXCEPT ![step] = 0] ELSE set
    /\ UNCHANGED <<model, txn, snaps>>

WriteSnapshot(r, v) ==
    /\ Votes(r, "write", v)
    /\ snaps' = IF v = "ok" THEN [snaps EXCEPT ![step][r] = history[r]] ELSE snaps
    /\ UNCHANGED <<model, txn, set>>

WriteManifest(v) ==
    /\ Votes(0, "manifest", v)
    /\ set' = IF v = "ok" THEN [set EXCEPT ![step] = history[0].generation] ELSE set
    /\ UNCHANGED <<model, txn, snaps>>

Commit(v) ==
    /\ Votes(0, "commit", v)
    /\ txn' = IF v = "ok"
              THEN [txn EXCEPT ![step] = Transaction("committed", history[0].generation)]
              ELSE txn
    /\ UNCHANGED <<model, set, snaps>>

\* Phases in which only rank 0 works; in "prepared" no rank does, it is the collective
\* of an error that the prepare phases have already shared.
RootPhases == {"prepare", "save", "revoke", "undo", "manifest", "commit"}

Idle(r) ==
    /\ \/ r # 0 /\ \E p \in RootPhases : Votes(r, p, "ok")
       \/ Votes(r, "prepared", "ok")
    /\ UNCHANGED disk

\* The phase after p when all ranks did their work.
Following(p) ==
    CASE p = "begin" -> "reporting"
      [] p = "reporting" -> "prepare"
      [] p = "prepare" -> "prepared"
      [] p = "prepared" -> "save"
      [] p = "save" -> IF Persists THEN "validate" ELSE "revoke"
      [] p = "validate" -> "revoke"
      [] p = "revoke" -> IF Persists THEN "write" ELSE "train"
      [] p = "write" -> "manifest"
      [] p = "manifest" -> "recheck"
      [] p = "recheck" -> "commit"
      [] p = "commit" -> "train"
      [] p = "undo" -> "down"

\* Mutant: a failed rank leaves before the collective.
ConvergeAlone ==
    \/ \E r \in Ranks :
        /\ vote[r] = "failed"
        /\ pc' = [pc EXCEPT ![r] = IF @ \in {"write", "manifest", "recheck", "commit"} THEN "undo" ELSE "down"]
        /\ vote' = [vote EXCEPT ![r] = "none"]
        /\ UNCHANGED <<job, mode, lineage, history, disk>>
    \/ /\ \A q, r \in Ranks : pc[q] = pc[r] /\ vote[r] = "ok"
       /\ pc' = All(Following(pc[0]))
       /\ vote' = All("none")
       /\ UNCHANGED <<job, mode, lineage, history, disk>>

\* All ranks have contributed: they go on, remove what they wrote, or raise.
Converge ==
    /\ \A q, r \in Ranks : pc[q] = pc[r] /\ vote[r] # "none"
    /\ pc' = All(IF \A r \in Ranks : vote[r] = "ok" THEN Following(pc[0])
                 ELSE IF pc[0] \in {"write", "manifest", "recheck", "commit"} THEN "undo"
                 ELSE "down")
    /\ vote' = All("none")
    /\ UNCHANGED <<job, mode, lineage, history, disk>>

Work(v) ==
    \/ PrepareTransaction(v) \/ SaveModel(v) \/ Revoke(v) \/ WriteManifest(v) \/ Commit(v)
    \/ \E r \in Ranks : Begin(r, v) \/ Report(r, v) \/ Validate(r, v) \/ WriteSnapshot(r, v)

Next ==
    \/ \E m \in {"on", "unsaved", "off"}, s \in 0 .. MaxStep, blind \in SUBSET Ranks :
           StartJob(m, s, blind)
    \/ \E saving \in BOOLEAN : Train(saving)
    \/ \E v \in {"ok", "failed"} : Work(v)
    \/ OpenModel
    \/ \E r \in Ranks : Unlink(r) \/ Idle(r)
    \/ Converge
    \/ Stop

Spec == Init /\ [][Next]_vars

-----------------------------------------------------------------------------
(* Properties *)

Snapshot == [generation : 0 .. MaxJobs, initial : 0 .. MaxStep, frames : Seq(1 .. MaxJobs)]

\* Every variable has its type, and no history is longer than the model's own.
TypeOK ==
    /\ job \in 0 .. MaxJobs /\ mode \in {"on", "unsaved", "off"}
    /\ lineage \in Seq(1 .. MaxJobs) /\ step <= MaxStep
    /\ history \in [Ranks -> Snapshot]
    /\ vote \in [Ranks -> {"none", "ok", "failed"}]
    /\ model \in [Steps -> Seq(1 .. MaxJobs)]
    /\ txn \in [Steps -> [state : {"none", "pending", "committed", "revoked"},
                          generation : 0 .. MaxJobs]]
    /\ set \in [Steps -> 0 .. MaxJobs]
    /\ snaps \in [Steps -> [Ranks -> Snapshot]]

\* The frames a monitor holds are those of the very steps its model took, each once,
\* since a step that is the same on all ranks; and of no other job's steps, though
\* their generation may be the same.
HistoryIsTrained ==
    Running /\ mode # "off" =>
        \A r \in Ranks :
            /\ history[r].frames = SubSeq(lineage, history[r].initial + 1, step)
            /\ history[r].initial = history[0].initial
            /\ history[r].generation = history[0].generation

\* No two ranks are in two different collectives: a failure of one rank reaches
\* the others in the collective they are in.
CollectivesMatch ==
    \A q, r \in Ranks : vote[q] # "none" /\ vote[r] # "none" => pc[q] = pc[r]
=============================================================================
