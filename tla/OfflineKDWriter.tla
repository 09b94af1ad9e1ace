--------------------------- MODULE OfflineKDWriter ---------------------------
(***************************************************************************)
(* OfflineKDArtifactWriter of offline_kd/producer.py with resume=True: an  *)
(* artifact of distillation rows is built in a staging directory, shard by *)
(* shard, by one job after another, and published by renaming the directory.*)
(*                                                                         *)
(* A shard is a file of rows.  A line of train.jsonl names the shard and   *)
(* the position of its row.  build_state.json names the shards and the part *)
(* of train.jsonl that the next job may rely on.  A digest of a shard is   *)
(* modelled by the shard's content.  A row carries the job that scored it: *)
(* two jobs need not score a source row alike.                             *)
(*                                                                         *)
(* A job can be killed between any two steps and in the middle of a write; *)
(* the machine can lose power.  Power loss takes the names (renames and    *)
(* unlinks) back to the last commit of the file system's journal, which    *)
(* every fsync forces, and leaves of a file what was fsynced and any part  *)
(* of the rest.                                                            *)
(*                                                                         *)
(* Operators marked Mutant are faulty variants of the next one (README).   *)
(***************************************************************************)
EXTENDS Integers, Sequences

CONSTANTS
    Length,      \* rows of the source dataset
    ShardRows,   \* shard_rows
    ShardBytes,  \* shard_max_bytes
    Bytes,       \* size of each row's tensors
    MaxJob       \* bound: jobs that work on the artifact

ASSUME DatasetAssumption == Length \in Nat
ASSUME ShardAssumption   == /\ ShardRows \in Nat \ {0}
                            /\ ShardBytes \in Nat \ {0}
                            /\ Bytes \in [0 .. Length - 1 -> Nat]
ASSUME JobAssumption     == MaxJob \in Nat

Indices == 0 .. Length - 1
Row     == [index : Indices, job : 1 .. MaxJob]
Shard   == Seq(Row)
Torn    == <<>>      \* a shard file whose content is not what was written
NoRow   == [index |-> -1, job |-> 0]
Line    == [row : Row \cup {NoRow}, shard : Nat, pos : Nat]
TornLine == [row |-> NoRow, shard |-> 0, pos |-> 0]

\* What build_state.json says; size is the part of train.jsonl it vouches for.
BuildState == [shards : Seq(Shard), size : Nat \cup {-1}, next : Nat]
NoState    == [shards |-> <<>>, size |-> -1, next |-> 0]
NoManifest == <<>>

VARIABLES
    job,       \* number of the current (or last) job
    pc,        \* what the job does next; "down" when there is none
    rows,      \* _rows: rows waiting for their shard
    pending,   \* _pending_bytes
    carry,     \* the row whose add made the rows before it be flushed
    closing,   \* the flush is finalize's
    table,     \* _shards
    next,      \* resume_source_index
    last,      \* _last_source_index
    place,     \* the directory: none, staging (.building) or output
    state,     \* build_state.json
    manifest,  \* manifest.json
    shards,    \* the shard files
    jsonl,     \* train.jsonl
    sealed,    \* shard files that were fsynced
    flushed,   \* lines of train.jsonl that were fsynced
    synced     \* the names as of the journal's last commit

memory  == <<rows, pending, carry, closing, table, next, last>>
files   == <<place, state, manifest, shards, jsonl>>
durable == <<sealed, flushed, synced>>
vars    == <<job, pc, memory, files, durable>>

Names == [place |-> place, state |-> state, manifest |-> manifest]
Commit == synced' = [place |-> place, state |-> state, manifest |-> manifest]

Init ==
    /\ job = 0 /\ pc = "down"
    /\ rows = <<>> /\ pending = 0 /\ carry = <<>> /\ closing = FALSE
    /\ table = <<>> /\ next = 0 /\ last = -1
    /\ place = "none" /\ state = NoState /\ manifest = NoManifest
    /\ shards = <<>> /\ jsonl = <<>>
    /\ sealed = 0 /\ flushed = 0
    /\ synced = Names

-----------------------------------------------------------------------------
(***************************************************************************)
(* Opening the writer.  A published output refuses a further job.          *)
(***************************************************************************)
Forget ==
    /\ rows' = <<>> /\ pending' = 0 /\ carry' = <<>> /\ closing' = FALSE

StartJob == pc = "down" /\ job < MaxJob /\ job' = job + 1

\* Mutant: the artifact is built under its final name.
CreateInPlace ==
    /\ StartJob
    /\ place = "none"
    /\ place' = "output" /\ jsonl' = <<>>
    /\ Forget /\ table' = <<>> /\ next' = 0 /\ last' = -1
    /\ pc' = "first"
    /\ UNCHANGED <<state, manifest, shards, durable>>

\* mkdir of the staging directory and open of an empty train.jsonl.
CreateStaging ==
    /\ StartJob
    /\ place = "none"
    /\ place' = "staging" /\ jsonl' = <<>>
    /\ Forget /\ table' = <<>> /\ next' = 0 /\ last' = -1
    /\ pc' = "first"
    /\ UNCHANGED <<state, manifest, shards, durable>>

\* _write_build_state before the first row.
WriteFirstState ==
    /\ pc = "first"
    /\ state' = [shards |-> <<>>, size |-> Len(jsonl), next |-> 0]
    /\ Commit
    /\ pc' = "ready"
    /\ UNCHANGED <<job, memory, place, manifest, shards, jsonl, sealed, flushed>>

\* What _restore_build_state requires of the staging directory.
Restorable ==
    /\ state # NoState
    /\ Len(state.shards) <= Len(shards)
    /\ \A k \in 1 .. Len(state.shards) : shards[k] = state.shards[k]
    /\ state.size <= Len(jsonl)

\* Mutant: train.jsonl is not cut back to its committed size.
RestoreUncut ==
    /\ StartJob
    /\ place = "staging" /\ Restorable
    /\ shards' = state.shards
    /\ Forget /\ table' = state.shards /\ next' = state.next /\ last' = state.next - 1
    /\ sealed' = Len(state.shards)
    /\ flushed' = state.size
    /\ pc' = "ready"
    /\ UNCHANGED <<place, state, manifest, jsonl, synced>>

\* Mutant: the new job numbers its shards from one.
RestoreRenumbered ==
    /\ StartJob
    /\ place = "staging" /\ Restorable
    /\ shards' = state.shards
    /\ jsonl' = SubSeq(jsonl, 1, state.size)
    /\ Forget /\ table' = <<>> /\ next' = state.next /\ last' = state.next - 1
    /\ sealed' = Len(state.shards)
    /\ flushed' = state.size
    /\ pc' = "ready"
    /\ UNCHANGED <<place, state, manifest, synced>>

\* The next job drops what the build state does not vouch for.
Restore ==
    /\ StartJob
    /\ place = "staging" /\ Restorable
    /\ shards' = state.shards
    /\ jsonl' = SubSeq(jsonl, 1, state.size)
    /\ Forget /\ table' = state.shards /\ next' = state.next /\ last' = state.next - 1
    /\ sealed' = Len(state.shards)
    /\ flushed' = state.size
    /\ pc' = "ready"
    /\ UNCHANGED <<place, state, manifest, synced>>

\* _restore_build_state raises; the directory is left for the user.
RefuseStaging ==
    /\ StartJob
    /\ place = "staging" /\ ~ Restorable
    /\ UNCHANGED <<pc, memory, files, durable>>

-----------------------------------------------------------------------------
(***************************************************************************)
(* add: rows come in source order, and fill shards.                        *)
(***************************************************************************)
Full(r, bytes) == Len(r) >= ShardRows \/ bytes >= ShardBytes

\* What add requires of a row's source index; it raises otherwise, which ends the job.
Accepts(i) == i >= next /\ i > last

\* The row fits in the shard.
AddRow(i) ==
    /\ pc = "ready" /\ Accepts(i)
    /\ rows = <<>> \/ pending + Bytes[i] <= ShardBytes
    /\ rows' = Append(rows, [index |-> i, job |-> job])
    /\ pending' = pending + Bytes[i]
    /\ last' = i
    /\ pc' = IF Full(rows', pending') THEN "save" ELSE "ready"
    /\ UNCHANGED <<job, carry, closing, table, next, files, durable>>

\* It does not: the rows before it are flushed first.
AddAfterFlush(i) ==
    /\ pc = "ready" /\ Accepts(i)
    /\ rows # <<>> /\ pending + Bytes[i] > ShardBytes
    /\ carry' = <<[index |-> i, job |-> job]>>
    /\ pc' = "save"
    /\ UNCHANGED <<job, rows, pending, closing, table, next, last, files, durable>>

Add(i) == AddRow(i) \/ AddAfterFlush(i)

-----------------------------------------------------------------------------
(***************************************************************************)
(* _flush_shard                                                            *)
(***************************************************************************)
SaveShard ==
    /\ pc = "save"
    /\ shards' = Append(SubSeq(shards, 1, Len(table)), rows)
    /\ pc' = "seal"
    /\ UNCHANGED <<job, memory, place, state, manifest, jsonl, durable>>

\* Mutant: the shard file is not fsynced.
HashShard ==
    /\ pc = "seal"
    /\ table' = Append(table, shards[Len(table) + 1])
    /\ pc' = "lines"
    /\ UNCHANGED <<job, rows, pending, carry, closing, next, last, files, durable>>

\* fsync of the shard file, then its digest.
SealShard ==
    /\ pc = "seal"
    /\ table' = Append(table, shards[Len(table) + 1])
    /\ sealed' = Len(table) + 1
    /\ Commit
    /\ pc' = "lines"
    /\ UNCHANGED <<job, rows, pending, carry, closing, next, last, files, flushed>>

NewLines == [j \in 1 .. Len(rows) |-> [row |-> rows[j], shard |-> Len(table), pos |-> j]]

AppendLines ==
    /\ pc = "lines"
    /\ jsonl' = jsonl \o NewLines
    /\ pc' = "sync"
    /\ UNCHANGED <<job, memory, place, state, manifest, shards, durable>>

\* fsync of train.jsonl, then the cursor moves past the shard's rows.
SyncLines ==
    /\ pc = "sync"
    /\ flushed' = Len(jsonl)
    /\ Commit
    /\ next' = rows[Len(rows)].index + 1
    /\ pc' = "replace"
    /\ UNCHANGED <<job, rows, pending, carry, closing, table, last, files, sealed>>

\* _write_build_state: the new state, fsynced under a temporary name, replaces
\* the old one.  A row that waited for the flush starts the next shard.
ReplaceState ==
    /\ pc = "replace"
    /\ state' = [shards |-> table, size |-> Len(jsonl), next |-> next]
    /\ Commit
    /\ rows' = carry /\ carry' = <<>>
    /\ pending' = IF carry = <<>> THEN 0 ELSE Bytes[carry[1].index]
    /\ last' = IF carry = <<>> THEN last ELSE carry[1].index
    /\ pc' = IF closing THEN "manifest"
             ELSE IF carry # <<>> /\ Full(rows', pending') THEN "save" ELSE "ready"
    /\ UNCHANGED <<job, closing, table, next, place, manifest, shards, jsonl, sealed, flushed>>

-----------------------------------------------------------------------------
(***************************************************************************)
(* finalize                                                                *)
(***************************************************************************)
\* The last rows are flushed; an artifact without rows is refused.
Finalize ==
    /\ pc = "ready"
    /\ closing' = TRUE
    /\ pc' = IF rows # <<>> THEN "save" ELSE IF table # <<>> THEN "manifest" ELSE "down"
    /\ UNCHANGED <<job, rows, pending, carry, table, next, last, files, durable>>

WriteManifest ==
    /\ pc = "manifest"
    /\ manifest' = table
    /\ synced' = [Names EXCEPT !.manifest = table]
    /\ pc' = "publish"
    /\ UNCHANGED <<job, memory, place, state, shards, jsonl, sealed, flushed>>

\* os.replace of the staging directory by the output's name ...
Publish ==
    /\ pc = "publish"
    /\ place' = "output"
    /\ pc' = "clean"
    /\ UNCHANGED <<job, memory, state, manifest, shards, jsonl, durable>>

\* ... and unlink of the build state.
RemoveState ==
    /\ pc = "clean"
    /\ state' = NoState
    /\ pc' = "down"
    /\ UNCHANGED <<job, memory, place, manifest, shards, jsonl, durable>>

-----------------------------------------------------------------------------
(***************************************************************************)
(* What can happen to the job and the machine.                             *)
(***************************************************************************)
\* The job is killed or raises (abort keeps the staging directory); what it was
\* writing is left half done.
Kill ==
    /\ pc # "down"
    /\ pc' = "down"
    /\ \/ UNCHANGED <<shards, jsonl>>
       \/ /\ pc = "save"
          /\ shards' = Append(SubSeq(shards, 1, Len(table)), Torn)
          /\ UNCHANGED jsonl
       \/ /\ pc = "lines"
          /\ \E n \in 0 .. Len(rows) - 1 :
                jsonl' = Append(jsonl \o SubSeq(NewLines, 1, n), TornLine)
          /\ UNCHANGED shards
    /\ UNCHANGED <<job, memory, place, state, manifest, durable>>

\* The journal commits on its own.
JournalCommit ==
    /\ synced # Names
    /\ synced' = Names
    /\ UNCHANGED <<job, pc, memory, files, sealed, flushed>>

PowerLoss ==
    /\ pc' = "down"
    /\ place' = synced.place /\ state' = synced.state /\ manifest' = synced.manifest
    /\ IF synced.place = "none" THEN shards' = <<>> /\ jsonl' = <<>>
       ELSE /\ \E n \in sealed .. Len(shards), torn \in SUBSET (sealed + 1 .. Len(shards)) :
                  shards' = [k \in 1 .. n |-> IF k \in torn THEN Torn ELSE shards[k]]
            /\ \E n \in flushed .. Len(jsonl) :
                  \/ jsonl' = SubSeq(jsonl, 1, n)
                  \/ n < Len(jsonl) /\ jsonl' = Append(SubSeq(jsonl, 1, n), TornLine)
    /\ UNCHANGED <<job, memory, durable>>

Flush    == SaveShard \/ SealShard \/ AppendLines \/ SyncLines \/ ReplaceState
Closing  == WriteManifest \/ Publish \/ RemoveState
Open     == CreateStaging \/ WriteFirstState \/ Restore \/ RefuseStaging

Next ==
    \/ Open \/ (\E i \in Indices : Add(i)) \/ Flush \/ Finalize \/ Closing
    \/ Kill \/ JournalCommit \/ PowerLoss

Spec == Init /\ [][Next]_vars

-----------------------------------------------------------------------------
(***************************************************************************)
(* Properties.                                                             *)
(***************************************************************************)
\* The shape of the state.
TypeOK ==
    /\ job \in 0 .. MaxJob
    /\ pc \in {"down", "first", "ready", "save", "seal", "lines", "sync", "replace",
               "manifest", "publish", "clean"}
    /\ rows \in Seq(Row) /\ pending \in Nat /\ carry \in Seq(Row) /\ closing \in BOOLEAN
    /\ table \in Seq(Shard) /\ next \in 0 .. Length /\ last \in -1 .. Length - 1
    /\ place \in {"none", "staging", "output"}
    /\ state \in BuildState /\ manifest \in Seq(Shard)
    /\ shards \in Seq(Shard) /\ jsonl \in Seq(Line)
    /\ sealed \in Nat /\ flushed \in Nat
    /\ synced \in [place : {"none", "staging", "output"}, state : BuildState,
                   manifest : Seq(Shard)]

\* The lines are exactly the rows of the given shards: each line resolves to the
\* row it was written for, each row has its line, and the source rows are in
\* order and not repeated.
Resolve(lines, content) ==
    /\ \A n \in 1 .. Len(lines) :
          /\ lines[n].shard \in 1 .. Len(content)
          /\ lines[n].pos \in 1 .. Len(content[lines[n].shard])
          /\ content[lines[n].shard][lines[n].pos] = lines[n].row
    /\ \A k \in 1 .. Len(content) : \A j \in 1 .. Len(content[k]) :
          \E n \in 1 .. Len(lines) : lines[n].shard = k /\ lines[n].pos = j
    /\ \A n, m \in 1 .. Len(lines) : n < m => lines[n].row.index < lines[m].row.index

\* The published artifact is whole and consistent, whatever happened while it was
\* built and whatever happens to the machine afterwards.
PublishedIsWhole ==
    place = "output" =>
        /\ manifest # NoManifest /\ manifest = shards
        /\ Resolve(jsonl, manifest)

\* A staging directory that has a build state can be resumed, at any moment: what
\* the state vouches for is on disk and consistent, and its cursor is just past
\* the last row, so that no committed row is scored again.
StagingResumable ==
    place = "staging" /\ state # NoState =>
        /\ Restorable
        /\ Resolve(SubSeq(jsonl, 1, state.size), state.shards)
        /\ state.next = IF state.size = 0 THEN 0 ELSE jsonl[state.size].row.index + 1

\* What a build state vouches for stays: every later state, and the published
\* manifest, begins with the same shards (a power loss may bring an earlier state
\* back).
Begins(front, whole) ==
    Len(front) <= Len(whole) /\ \A k \in 1 .. Len(front) : whole[k] = front[k]

CommittedShardsKept ==
    [][\/ PowerLoss
       \/ /\ state # NoState /\ state' # NoState => Begins(state.shards, state'.shards)
          /\ place # "output" /\ place' = "output" => Begins(state.shards, manifest')]_vars

\* What OfflineKDArtifactStore reads of a published artifact: for each line the row
\* it resolves to, once the shard's digest is the manifest's.
Read(line) ==
    IF /\ line.shard \in 1 .. Len(manifest) /\ line.shard <= Len(shards)
       /\ shards[line.shard] = manifest[line.shard]
       /\ line.pos \in 1 .. Len(manifest[line.shard])
    THEN manifest[line.shard][line.pos] ELSE NoRow

View == IF place = "output" THEN [n \in 1 .. Len(jsonl) |-> Read(jsonl[n])] ELSE <<>>

Artifact == INSTANCE OfflineKDArtifact
                WITH Rows <- Row, published <- View, permanent <- synced.place = "output"

\* A reader sees no artifact or a whole one, and never two different ones.
ImplementsArtifact == Artifact!Spec
=============================================================================
