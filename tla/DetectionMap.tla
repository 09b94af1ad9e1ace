---------------------------- MODULE DetectionMap ----------------------------
(***************************************************************************)
(* scripts/tasks/run_detection_pseudo_kd_map.py: hosts share an output     *)
(* root, each starts one producer (worker) for each of its ranks, and one  *)
(* of them waits for the artifacts of all ranks and merges them            *)
(* (merge_offline_kd_artifacts of offline_kd/artifact.py).                 *)
(*                                                                         *)
(* A worker is the producer of OfflineKDPipeline with one row to a shard   *)
(* and one generation at a time, and without power loss: here several may  *)
(* have the directory of one rank open.  A row carries the launch that     *)
(* scored it, and a digest of a shard is its content.                      *)
(***************************************************************************)
EXTENDS Integers, Sequences, FiniteSets

CONSTANTS
    World,         \* --source-world-size, positive
    Hosts,
    HostOf,        \* rank -> the host that runs it
    Merger,        \* the host with --merge
    SelectedRows,  \* rows of the selection
    Limits,        \* what --max-rows may be: at most SelectedRows
    MaxLaunch,     \* bound: launches, of all hosts
    Overlap        \* a host may be launched while workers of an earlier launch are alive

ASSUME MapAssumption ==
    /\ World \in Nat \ {0} /\ SelectedRows \in Nat /\ Limits \subseteq 0 .. SelectedRows
    /\ \A r \in 0 .. World - 1 : HostOf[r] \in Hosts

VARIABLES
    bad,        \* rows whose generation is no valid pseudo label
    launches,
    host,       \* host -> where main is
    children,   \* host -> its processes: <<rank, slot>>
    worker,     \* <<rank, slot>> -> a producer process
    dir,        \* rank -> its directory, staging or output
    merging,    \* the merger's temporary directory: ranks done, lines so far
    merged      \* the merged artifact's lines, or None

mapVars == <<bad, launches, host, children, worker, dir, merging, merged>>

MapRanks == 0 .. World - 1
Local(h) == {r \in MapRanks : HostOf[r] = h}
Slots == MapRanks \X {1, 2}
None == <<>>

\* The rows of a rank: source_index % source_world_size = rank, below max_rows.
Count(r, limit) == Cardinality({i \in 0 .. limit - 1 : i % World = r})
SourceIndex(r, n) == r + n * World

Garbage == [row |-> -1, job |-> 0, shard |-> 0]
NoShard == [row |-> -1, job |-> 0]
NoRankManifest == [limit |-> 0, table |-> <<>>]
Idle == [pc |-> "none", job |-> 0, limit |-> 0, next |-> 0, table |-> <<>>, append |-> FALSE, pos |-> 0]
NoDir == [place |-> "none", limit |-> 0, state |-> [table |-> <<>>, size |-> 0, next |-> 0],
          manifest |-> NoRankManifest, shards |-> [k \in 1 .. SelectedRows |-> NoShard], lines |-> <<>>]

RankPublished(r) == dir[r].place = "output"
Busy(w) == worker[w].pc \notin {"none", "zero", "one"}

MapInit ==
    /\ bad \in SUBSET (0 .. SelectedRows - 1)
    /\ launches = 0
    /\ host = [h \in Hosts |-> "down"] /\ children = [h \in Hosts |-> {}]
    /\ worker = [w \in Slots |-> Idle]
    /\ dir = [r \in MapRanks |-> NoDir]
    /\ merging = [done |-> 0, lines |-> <<>>] /\ merged = None

-----------------------------------------------------------------------------
(***************************************************************************)
(* The producer process w of rank w[1].                                    *)
(***************************************************************************)
Stays == UNCHANGED <<bad, launches, host, children, merging, merged>>

At(w, pc) == worker[w].pc = pc
Becomes(w, state) == worker' = [worker EXCEPT ![w] = state]
Ended(code) == [Idle EXCEPT !.pc = code]
Exits(w, code) == Becomes(w, Ended(code)) /\ UNCHANGED dir

Staged(w) == dir[w[1]].place = "staging"

\* Mutant: a staging directory is taken up whatever it was built for.
ResumableAnyRun(d, limit) ==
    /\ \A k \in 1 .. Len(d.state.table) : d.shards[k] = d.state.table[k]
    /\ d.state.size <= Len(d.lines)

\* What _restore_build_state requires.
Resumable(d, limit) ==
    /\ d.limit = limit
    /\ \A k \in 1 .. Len(d.state.table) : d.shards[k] = d.state.table[k]
    /\ d.state.size <= Len(d.lines)

\* A rank without rows, a published output and a staging directory of another run raise.
OpenDir(w) ==
    LET me == worker[w]  d == dir[w[1]]  n == Len(d.state.table) IN
    /\ At(w, "open") /\ Stays
    /\ IF Count(w[1], me.limit) = 0 \/ RankPublished(w[1]) THEN Exits(w, "one")
       ELSE IF d.place = "none"
       THEN /\ Becomes(w, [me EXCEPT !.pc = "generate"])
            /\ dir' = [dir EXCEPT ![w[1]] = [NoDir EXCEPT !.place = "staging", !.limit = me.limit]]
       ELSE IF ~ Resumable(d, me.limit) THEN Exits(w, "one")
       ELSE /\ Becomes(w, [me EXCEPT !.pc = "generate", !.next = d.state.next,
                                     !.table = d.state.table, !.append = TRUE])
            /\ dir' = [dir EXCEPT ![w[1]].lines = SubSeq(@, 1, d.state.size),
                                  ![w[1]].shards = [k \in DOMAIN @ |-> IF k <= n THEN @[k] ELSE NoShard]]

\* The next row is generated: a bad case goes to a file of its own.
Generate(w) ==
    LET me == worker[w] IN
    /\ At(w, "generate") /\ me.next < Count(w[1], me.limit)
    /\ Becomes(w, IF SourceIndex(w[1], me.next) \in bad THEN [me EXCEPT !.next = @ + 1]
                  ELSE [me EXCEPT !.pc = "save"])
    /\ UNCHANGED dir /\ Stays

\* The shard, by its name in the staging directory ...
SaveRow(w) ==
    LET me == worker[w] IN
    /\ At(w, "save") /\ Stays
    /\ IF ~ Staged(w) THEN Exits(w, "one")
       ELSE /\ Becomes(w, [me EXCEPT !.pc = "hash"])
            /\ dir' = [dir EXCEPT ![w[1]].shards[Len(me.table) + 1] =
                           [row |-> SourceIndex(w[1], me.next), job |-> me.job]]

\* ... its digest, of the file as it now is ...
HashRow(w) ==
    LET me == worker[w]  content == dir[w[1]].shards[Len(me.table) + 1] IN
    /\ At(w, "hash") /\ Stays
    /\ IF ~ Staged(w) \/ content = NoShard THEN Exits(w, "one")
       ELSE /\ Becomes(w, [me EXCEPT !.pc = "lines", !.table = Append(@, content)])
            /\ UNCHANGED dir

\* ... its line, through the open file: at its end, or after what this process wrote ...
WriteLine(w) ==
    LET me == worker[w]
        old == dir[w[1]].lines
        at == 1 + IF me.append THEN Len(old) ELSE me.pos
        line == [row |-> SourceIndex(w[1], me.next), job |-> me.job, shard |-> Len(me.table)] IN
    /\ At(w, "lines") /\ Stays
    /\ Becomes(w, [me EXCEPT !.pc = "state", !.pos = at])
    /\ dir' = [dir EXCEPT ![w[1]].lines =
                   [n \in 1 .. (IF at > Len(old) THEN at ELSE Len(old)) |->
                       IF n = at THEN line ELSE IF n <= Len(old) THEN old[n] ELSE Garbage]]

\* ... and the build state.
SaveState(w) ==
    LET me == worker[w] IN
    /\ At(w, "state") /\ Stays
    /\ IF ~ Staged(w) THEN Exits(w, "one")
       ELSE /\ Becomes(w, [me EXCEPT !.pc = "generate", !.next = @ + 1])
            /\ dir' = [dir EXCEPT ![w[1]].state =
                           [table |-> me.table, size |-> Len(dir[w[1]].lines), next |-> me.next + 1]]

\* finalize; an artifact without rows is refused.
WriteRankManifest(w) ==
    LET me == worker[w] IN
    /\ At(w, "generate") /\ me.next >= Count(w[1], me.limit) /\ Stays
    /\ IF me.table = <<>> \/ ~ Staged(w) THEN Exits(w, "one")
       ELSE /\ Becomes(w, [me EXCEPT !.pc = "publish"])
            /\ dir' = [dir EXCEPT ![w[1]].manifest = [limit |-> me.limit, table |-> me.table]]

\* The directory gets its name, and the build state goes.
PublishDir(w) ==
    /\ At(w, "publish") /\ Stays
    /\ IF ~ Staged(w) THEN Exits(w, "one")
       ELSE /\ Becomes(w, Ended("zero"))
            /\ dir' = [dir EXCEPT ![w[1]].place = "output", ![w[1]].state = NoDir.state]

\* An engine or a file system fails.
Fail(w) == Busy(w) /\ Exits(w, "one") /\ Stays

Produce(w) ==
    \/ OpenDir(w) \/ Generate(w) \/ SaveRow(w) \/ HashRow(w) \/ WriteLine(w)
    \/ SaveState(w) \/ WriteRankManifest(w) \/ PublishDir(w)

-----------------------------------------------------------------------------
(***************************************************************************)
(* main of the map on a host.                                              *)
(***************************************************************************)
Goto(h, where) == host' = [host EXCEPT ![h] = where]

FreeSlot(r) == <<r, IF Busy(<<r, 1>>) THEN 2 ELSE 1>>

\* One worker for each rank that --resume does not find published.
Launch(h) ==
    /\ host[h] \in {"down", "failed"} /\ launches < MaxLaunch
    /\ Overlap \/ \A r \in Local(h), s \in {1, 2} : ~ Busy(<<r, s>>)
    /\ launches' = launches + 1
    /\ \E limit \in Limits, resume \in BOOLEAN :
          LET started == {FreeSlot(r) : r \in {q \in Local(h) : ~ (resume /\ RankPublished(q))}} IN
          /\ \A w \in started : ~ Busy(w)
          /\ children' = [children EXCEPT ![h] = started]
          /\ worker' = [w \in Slots |->
                           IF w \in started
                           THEN [Idle EXCEPT !.pc = "open", !.job = launches', !.limit = limit]
                           ELSE worker[w]]
    /\ Goto(h, "wait")
    /\ UNCHANGED <<bad, dir, merging, merged>>

\* All workers have exited.
Reap(h) ==
    /\ host[h] = "wait" /\ \A w \in children[h] : ~ Busy(w)
    /\ Goto(h, IF \E w \in children[h] : At(w, "one") THEN "failed"
               ELSE IF h = Merger THEN "poll" ELSE "done")
    /\ UNCHANGED <<bad, launches, children, worker, dir, merging, merged>>

\* Every rank has a manifest: if there is no merged artifact, the merge begins.
Poll(h) ==
    /\ host[h] = "poll" /\ \A r \in MapRanks : RankPublished(r)
    /\ Goto(h, IF merged = None THEN "merge" ELSE "done")
    /\ merging' = [done |-> 0, lines |-> <<>>]
    /\ UNCHANGED <<bad, launches, children, worker, dir, merged>>

\* The shards of the next rank are hashed and linked under names of its own, and its lines
\* refer to those.  A shard that changed, or a line that refers to no shard, raises.
MergeRank(h) ==
    LET r == merging.done  d == dir[r] IN
    /\ host[h] = "merge" /\ r < World
    /\ IF /\ \A k \in 1 .. Len(d.manifest.table) : d.shards[k] = d.manifest.table[k]
          /\ \A n \in 1 .. Len(d.lines) : d.lines[n].shard \in 1 .. Len(d.manifest.table)
       THEN /\ merging' = [done |-> r + 1,
                           lines |-> merging.lines \o
                               [n \in 1 .. Len(d.lines) |->
                                   [row |-> d.lines[n].row, job |-> d.lines[n].job,
                                    shard |-> <<r, d.lines[n].shard>>]]]
            /\ UNCHANGED host
       ELSE Goto(h, "failed") /\ UNCHANGED merging
    /\ UNCHANGED <<bad, launches, children, worker, dir, merged>>

\* os.replace of the temporary directory.
PublishMerged(h) ==
    /\ host[h] = "merge" /\ merging.done = World
    /\ merged' = merging.lines
    /\ Goto(h, "done")
    /\ UNCHANGED <<bad, launches, children, worker, dir, merging>>

Main(h) == Reap(h) \/ Poll(h) \/ MergeRank(h) \/ PublishMerged(h)

-----------------------------------------------------------------------------
Working(h) == host[h] \in {"wait", "poll", "merge"}

\* An exception, as for an interrupt, terminates the workers and is raised.
Interrupt(h) ==
    /\ Working(h)
    /\ worker' = [w \in Slots |-> IF w \in children[h] /\ Busy(w)
                                  THEN Ended("one") ELSE worker[w]]
    /\ Goto(h, "failed")
    /\ UNCHANGED <<bad, launches, children, dir, merging, merged>>

\* A signal that is no exception, such as SIGTERM: the workers go on.
KillMain(h) ==
    /\ Working(h)
    /\ Goto(h, "down")
    /\ children' = [children EXCEPT ![h] = {}]
    /\ UNCHANGED <<bad, launches, worker, dir, merging, merged>>

MapNext ==
    \/ \E w \in Slots : Produce(w) \/ Fail(w)
    \/ \E h \in Hosts : Launch(h) \/ Main(h) \/ Interrupt(h) \/ KillMain(h)

MapSpec == MapInit /\ [][MapNext]_mapVars

-----------------------------------------------------------------------------
(***************************************************************************)
(* Properties.                                                             *)
(***************************************************************************)
\* What a rank's artifact was to hold, in order: its rows of the limit it was built for,
\* but the bad cases.
Expected(r) ==
    LET n == Count(r, dir[r].manifest.limit)
        Good == {k \in 0 .. n - 1 : SourceIndex(r, k) \notin bad} IN
    [j \in 1 .. Cardinality(Good) |->
        SourceIndex(r, CHOOSE k \in Good : Cardinality({q \in Good : q < k}) = j - 1)]

\* The lines of rank r in a file that has those of the ranks in order.
Of(r, lines) ==
    LET Below(k) == Cardinality({n \in 1 .. Len(lines) : lines[n].shard[1] < k}) IN
    SubSeq(lines, Below(r) + 1, Below(r + 1))

\* The merged artifact holds every row of every rank once, in the order of ranks and rows, and
\* each line resolves to the distribution it was written with.
MergedIsWhole ==
    merged # None =>
        /\ \A r \in MapRanks :
              LET lines == Of(r, merged) IN
              /\ [n \in 1 .. Len(lines) |-> lines[n].row] = Expected(r)
              /\ \A n \in 1 .. Len(lines) :
                    dir[r].shards[lines[n].shard[2]] = [row |-> lines[n].row, job |-> lines[n].job]
        /\ \A n, m \in 1 .. Len(merged) : n < m => merged[n].shard[1] <= merged[m].shard[1]
=============================================================================
