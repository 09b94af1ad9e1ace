---------------------------- MODULE RecordCache ----------------------------
(***************************************************************************)
(* The ranks of a job open the records of one JSONL source through the     *)
(* Arrow cache (ShaftArrowRecordStore.from_jsonl).  A cache file is named  *)
(* by a fingerprint of the source's size and time of change, is built once *)
(* under a file lock and published by a rename, and is opened without the  *)
(* lock.  A node's first rank warms the cache before it loads.             *)
(*                                                                         *)
(* The source has one of a few versions, which stands for its rows and for *)
(* its size and time; who edits it may also bring an old version back. An  *)
(* edit replaces the source as a whole: one that rewrites it in place      *)
(* while a build goes through its lines, and shows the build rows of two   *)
(* versions, is left out.  All versions have equally many rows: others     *)
(* make the ranks' schedules differ, which the ranks notice.               *)
(***************************************************************************)
EXTENDS Integers, FiniteSets, Nodes

CONSTANTS Versions,     \* positive
          Malformed,    \* versions with a row that does not parse or validate
          MaxEdits,     \* bound: edits of the source
          MaxJobs       \* bound: jobs, all but the last one killed

VARIABLES dir,      \* rank -> its cache directory: the node's, or one of several nodes
          source,   \* the version the source has
          existed,  \* ghost: the versions it has had
          edits, jobs,
          cache,    \* directory -> version -> the version whose rows the file holds
          locked,   \* directories and versions whose lock file is held
          opening,  \* rank -> what it does next
          warming,  \* rank -> it runs the warm-up
          fp,       \* rank -> the version it took the fingerprint of
          built,    \* rank -> the version whose rows its temporary file holds
          store     \* rank -> the version whose rows it has opened

directories == <<leader, dir>>
world == <<source, existed, edits, jobs>>
recordVars == <<directories, world, cache, locked, opening, warming, fp, built, store>>

None == 0
Corrupt == -1

\* The file of rank r's directory and fingerprint, its rows if any, and its lock.
Cached(r) == cache[dir[r]][fp[r]]
Opens(r) == Cached(r) > 0
Lock(r) == <<dir[r], fp[r]>>

Warms(r) == leader[r] = r /\ \E q \in Workers \ {r} : leader[q] = r

-----------------------------------------------------------------------------
Goto(r, where) == opening' = [opening EXCEPT ![r] = where]

\* The file is mapped; a rank that only warmed the cache begins again to load.
Map(r) ==
    /\ store' = [store EXCEPT ![r] = Cached(r)]
    /\ warming' = [warming EXCEPT ![r] = FALSE]
    /\ Goto(r, IF warming[r] THEN "stat" ELSE "ready")
    /\ UNCHANGED <<cache, fp, built>>

Fingerprint(r) ==
    /\ opening[r] = "stat"
    /\ fp' = [fp EXCEPT ![r] = source]
    /\ Goto(r, "peek")
    /\ UNCHANGED <<cache, locked, warming, built, store>>

\* A file that opens is used without the lock.
Peek(r) ==
    /\ opening[r] = "peek"
    /\ IF Opens(r) THEN Map(r)
       ELSE Goto(r, "lock") /\ UNCHANGED <<cache, warming, fp, built, store>>
    /\ UNCHANGED locked

Acquire(r) ==
    /\ opening[r] = "lock" /\ Lock(r) \notin locked
    /\ locked' = locked \cup {Lock(r)}
    /\ Goto(r, "recheck")
    /\ UNCHANGED <<cache, warming, fp, built, store>>

\* Mutant: a file that does not open is reported and not replaced.
RecheckOnly(r) ==
    /\ opening[r] = "recheck"
    /\ IF Opens(r) THEN Map(r) /\ locked' = locked \ {Lock(r)}
       ELSE /\ Goto(r, IF Cached(r) = Corrupt THEN "raised" ELSE "build")
            /\ locked' = IF Cached(r) = Corrupt THEN locked \ {Lock(r)} ELSE locked
            /\ UNCHANGED <<cache, warming, fp, built, store>>

\* Another rank may have built it; a file that does not open is removed.
Recheck(r) ==
    /\ opening[r] = "recheck"
    /\ IF Opens(r) THEN Map(r) /\ locked' = locked \ {Lock(r)}
       ELSE /\ Goto(r, "build")
            /\ cache' = [cache EXCEPT ![dir[r]][fp[r]] = None]
            /\ UNCHANGED <<locked, warming, fp, built, store>>

\* The source is opened and written to a temporary file, which goes with the first error.
Build(r) ==
    /\ opening[r] = "build"
    /\ IF source \in Malformed
       THEN Goto(r, "raised") /\ locked' = locked \ {Lock(r)} /\ UNCHANGED built
       ELSE Goto(r, "publish") /\ built' = [built EXCEPT ![r] = source] /\ UNCHANGED locked
    /\ UNCHANGED <<cache, warming, fp, store>>

PublishRecords(r) ==
    /\ opening[r] = "publish"
    /\ cache' = [cache EXCEPT ![dir[r]][fp[r]] = built[r]]
    /\ locked' = locked \ {Lock(r)}
    /\ Goto(r, "open")
    /\ UNCHANGED <<warming, fp, built, store>>

Open(r) ==
    /\ opening[r] = "open"
    /\ IF Opens(r) THEN Map(r)
       ELSE Goto(r, "raised") /\ UNCHANGED <<cache, warming, fp, built, store>>
    /\ UNCHANGED locked

\* The ranks compare the fingerprints of their stores.
CompareFingerprints ==
    /\ \A r \in Workers : opening[r] \in {"ready", "raised"}
    /\ opening' = [r \in Workers |->
                 IF \A p, q \in Workers : opening[q] = "ready" /\ fp[p] = fp[q] THEN "train"
                 ELSE IF opening[r] = "raised" THEN "raised" ELSE "failed"]
    /\ opening' # opening
    /\ UNCHANGED <<directories, world, cache, locked, warming, fp, built, store>>

-----------------------------------------------------------------------------
Edit(v) ==
    /\ v # source /\ edits < MaxEdits
    /\ source' = v /\ existed' = existed \cup {v}
    /\ edits' = edits + 1
    /\ UNCHANGED <<directories, jobs, cache, locked, opening, warming, fp, built, store>>

\* The job is killed, which frees its locks, and the next one begins.  No file is synced:
\* if the machine went down with it, any of them may be damaged.
Restart ==
    /\ jobs < MaxJobs
    /\ jobs' = jobs + 1
    /\ \/ UNCHANGED cache
       \/ \E d \in Workers, v \in Versions :
              cache[d][v] > 0 /\ cache' = [cache EXCEPT ![d][v] = Corrupt]
    /\ locked' = {}
    /\ opening' = [r \in Workers |-> "stat"]
    /\ warming' = [r \in Workers |-> Warms(r)]
    /\ fp' = [r \in Workers |-> None]
    /\ built' = [r \in Workers |-> None]
    /\ store' = [r \in Workers |-> None]
    /\ UNCHANGED <<directories, source, existed, edits>>

-----------------------------------------------------------------------------
RecordInit ==
    /\ Grouped
    /\ dir \in [Workers -> Workers] /\ \A r \in Workers : dir[r] = dir[leader[r]] /\ dir[dir[r]] = dir[r]
    /\ source \in Versions /\ existed = {source} /\ edits = 0 /\ jobs = 1
    /\ cache = [d \in Workers |-> [v \in Versions |-> None]]
    /\ locked = {}
    /\ opening = [r \in Workers |-> "stat"]
    /\ warming = [r \in Workers |-> Warms(r)]
    /\ fp = [r \in Workers |-> None]
    /\ built = [r \in Workers |-> None]
    /\ store = [r \in Workers |-> None]

OpenStep(r) ==
    /\ \/ Fingerprint(r) \/ Peek(r) \/ Acquire(r) \/ Recheck(r)
       \/ Build(r) \/ PublishRecords(r) \/ Open(r)
    /\ UNCHANGED <<directories, world>>

RecordNext ==
    \/ \E r \in Workers : OpenStep(r)
    \/ CompareFingerprints
    \/ \E v \in Versions : Edit(v)
    \/ Restart

RecordSpec == RecordInit /\ [][RecordNext]_recordVars

-----------------------------------------------------------------------------
(* Properties *)

\* Whoever builds, repairs or waits, and whatever a killed job left: a rank raises only if
\* the source itself was malformed at some time, and what it opens are rows that were
\* validated.
OpensOrRejects ==
    \A r \in Workers :
        /\ opening[r] = "raised" => existed \cap Malformed # {}
        /\ opening[r] \in {"ready", "train"} => store[r] \in existed \ Malformed

\* Ranks that train under one source fingerprint train on the same rows.
SameSnapshotSameRows ==
    \A q, r \in Workers :
        opening[q] = "train" /\ opening[r] = "train" /\ fp[q] = fp[r] => store[q] = store[r]
=============================================================================
