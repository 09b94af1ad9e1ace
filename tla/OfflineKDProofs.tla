---------------------------- MODULE OfflineKDProofs ----------------------------
(***************************************************************************)
(* The artifact of distillation rows, for any dataset, any sizes of a      *)
(* shard, any number of jobs, kills and power losses: what stands under    *)
(* the output's name is whole, what a build state vouches for can be       *)
(* resumed, and a reader sees what OfflineKDArtifact allows.  And the      *)
(* pipeline that feeds the writer, for any width and reorder limit, passes *)
(* no row over and hands none over that the writer refuses.                *)
(***************************************************************************)
EXTENDS OfflineKDPipeline, SequenceTheorems, FiniteSetTheorems, TLAPS

\* The lines are those of the shards, and a shard means that there are some.
Holds(lines, content) == Resolve(lines, content) /\ (content # <<>> => lines # <<>>)

\* What a build state vouches for is on disk for good: in fsynced files.
Vouched(st) ==
    /\ Len(st.shards) <= sealed
    /\ \A k \in 1 .. Len(st.shards) : shards[k] = st.shards[k]
    /\ st.size \in 0 .. flushed
    /\ Holds(SubSeq(jsonl, 1, st.size), st.shards)
    /\ st.next = IF st.size = 0 THEN 0 ELSE jsonl[st.size].row.index + 1

\* A directory under the output's name is complete, and in fsynced files.
Complete(where, listed) ==
    where = "output" =>
        /\ listed # NoManifest /\ listed = shards /\ Holds(jsonl, listed)
        /\ sealed = Len(shards) /\ flushed = Len(jsonl)

\* The disk, as it is and as a power loss would leave its names.
DiskInv ==
    /\ sealed <= Len(shards) /\ flushed <= Len(jsonl)
    /\ state # NoState => Vouched(state)
    /\ synced.state # NoState => Vouched(synced.state)
    /\ state # NoState /\ synced.state # NoState =>
           Len(synced.state.shards) <= Len(state.shards) /\ synced.state.size <= state.size
    /\ Complete(place, manifest) /\ Complete(synced.place, synced.manifest)

\* How the names follow each other.
NamesInv ==
    /\ synced.place = "output" => place = "output"
    /\ synced.place = "none" =>
           /\ place # "output" /\ state = NoState /\ synced.state = NoState
           /\ sealed = 0 /\ flushed = 0 /\ shards = <<>> /\ jsonl = <<>>
    /\ place = "none" => synced.place = "none" /\ pc = "down"
    /\ place = "staging" /\ state = NoState => synced.state = NoState /\ pc \in {"down", "first"}

Ascending(r) == \A i, j \in 1 .. Len(r) : i < j => r[i].index < r[j].index

\* The rows that wait: after those of the build state, in source order.
RowsInv ==
    /\ Ascending(rows)
    /\ rows # <<>> => rows[1].index >= state.next
    /\ carry # <<>> => /\ Len(carry) = 1 /\ rows # <<>>
                       /\ carry[1].index > rows[Len(rows)].index
    /\ pc # "ready" => rows # <<>>
    /\ pc = "ready" => carry = <<>> /\ (rows # <<>> => rows[Len(rows)].index <= last)

\* How far the files and the writer's memory are ahead of the build state.
WorkInv ==
    /\ pc # "down" => job > 0
    /\ pc = "first" => /\ place = "staging" /\ state = NoState
                       /\ shards = <<>> /\ jsonl = <<>> /\ sealed = 0 /\ flushed = 0
                       /\ rows = <<>> /\ carry = <<>> /\ table = <<>>
                       /\ next = 0 /\ last = -1
    /\ pc \in {"ready", "save", "seal", "lines", "sync", "replace"} =>
           place = "staging" /\ state # NoState /\ RowsInv
    /\ pc \in {"ready", "save", "seal"} =>
           /\ table = state.shards /\ sealed = Len(table) /\ next = state.next
           /\ state.size = Len(jsonl) /\ flushed = Len(jsonl)
           /\ shards = IF pc = "seal" THEN Append(table, rows) ELSE table
    /\ pc \in {"lines", "sync", "replace"} =>
           table = Append(state.shards, rows) /\ shards = table /\ sealed = Len(table)
    /\ pc = "lines" => state.size = Len(jsonl) /\ flushed = Len(jsonl)
    /\ pc \in {"sync", "replace"} =>
           /\ Holds(jsonl, table) /\ jsonl # <<>>
           /\ jsonl[Len(jsonl)].row = rows[Len(rows)] /\ state.size <= Len(jsonl)
    /\ pc = "replace" => flushed = Len(jsonl) /\ next = rows[Len(rows)].index + 1
    /\ pc \in {"manifest", "publish"} =>
           /\ place = "staging" /\ state # NoState
           /\ table = state.shards /\ table # <<>> /\ shards = table /\ sealed = Len(table)
           /\ state.size = Len(jsonl) /\ flushed = Len(jsonl)
    /\ pc = "publish" => manifest = table
    /\ pc = "clean" => place = "output"

WriterInv == TypeOK /\ DiskInv /\ NamesInv /\ WorkInv
-----------------------------------------------------------------------------
(***************************************************************************)
(* Sequences and lines.                                                    *)
(***************************************************************************)
LEMMA FrontKept ==
    ASSUME NEW S, NEW s \in Seq(S), NEW t \in Seq(S), NEW n \in Nat,
           n <= Len(s), n <= Len(t), \A i \in 1 .. n : s[i] = t[i]
    PROVE  SubSeq(s, 1, n) = SubSeq(t, 1, n)
  <1>1. /\ SubSeq(s, 1, n) \in Seq(S) /\ Len(SubSeq(s, 1, n)) = n
        /\ \A i \in 1 .. n : SubSeq(s, 1, n)[i] = s[i]
    <2>1. \A i \in 1 .. n : s[i] \in S
      BY ElementOfSeq, LenProperties
    <2> QED
      BY <2>1, SubSeqProperties
  <1>2. /\ SubSeq(t, 1, n) \in Seq(S) /\ Len(SubSeq(t, 1, n)) = n
        /\ \A i \in 1 .. n : SubSeq(t, 1, n)[i] = t[i]
    <2>1. \A i \in 1 .. n : t[i] \in S
      BY ElementOfSeq, LenProperties
    <2> QED
      BY <2>1, SubSeqProperties
  <1> QED
    BY <1>1, <1>2, SeqEqual

LEMMA FrontOf ==
    ASSUME NEW S, NEW s \in Seq(S), NEW n \in 0 .. Len(s)
    PROVE  /\ SubSeq(s, 1, n) \in Seq(S) /\ Len(SubSeq(s, 1, n)) = n
           /\ \A i \in 1 .. n : SubSeq(s, 1, n)[i] = s[i]
  <1>1. \A i \in 1 .. n : s[i] \in S
    BY ElementOfSeq, LenProperties
  <1> QED
    BY <1>1, SubSeqProperties, LenProperties

LEMMA NothingHolds ==
    Holds(<<>>, <<>>)
  BY DEF Holds, Resolve

\* The rows of a new shard, appended to the lines, keep lines and shards together.
LEMMA HoldsMore ==
    ASSUME NEW lines \in Seq(Line), NEW content \in Seq(Shard), Holds(lines, content),
           NEW r \in Shard, r # <<>>, Ascending(r),
           lines # <<>> => r[1].index > lines[Len(lines)].row.index,
           NEW more \in Seq(Line), Len(more) = Len(r),
           \A j \in 1 .. Len(r) :
              more[j] = [row |-> r[j], shard |-> Len(content) + 1, pos |-> j]
    PROVE  /\ Holds(lines \o more, Append(content, r))
           /\ lines \o more # <<>>
           /\ (lines \o more)[Len(lines \o more)].row = r[Len(r)]
  <1> DEFINE all == lines \o more
             T == Append(content, r)
  <1>1. /\ Len(lines) \in Nat /\ Len(r) \in Nat /\ Len(r) > 0 /\ Len(content) \in Nat
        /\ \A k \in 1 .. Len(content) : content[k] \in Seq(Row)
        /\ \A j \in 1 .. Len(r) : r[j] \in Row
    BY EmptySeq, LenProperties, ElementOfSeq DEF Shard
  <1>2. /\ all \in Seq(Line) /\ Len(all) = Len(lines) + Len(r)
        /\ \A i \in 1 .. Len(lines) : all[i] = lines[i]
        /\ \A j \in 1 .. Len(r) :
              all[Len(lines) + j] = [row |-> r[j], shard |-> Len(content) + 1, pos |-> j]
    <2>1. /\ all \in Seq(Line) /\ Len(all) = Len(lines) + Len(more)
          /\ \A i \in 1 .. Len(lines) + Len(more) :
                all[i] = IF i <= Len(lines) THEN lines[i] ELSE more[i - Len(lines)]
      BY ConcatProperties
    <2>2. ASSUME NEW j \in 1 .. Len(r)
          PROVE  all[Len(lines) + j] = more[j]
      <3>1. /\ Len(lines) + j \in 1 .. Len(lines) + Len(more) /\ ~ (Len(lines) + j <= Len(lines))
            /\ Len(lines) + j - Len(lines) = j
        BY <1>1
      <3> QED
        BY <3>1, <2>1
    <2>3. \A i \in 1 .. Len(lines) : all[i] = lines[i]
      BY <1>1, <2>1
    <2> QED
      BY <2>1, <2>2, <2>3
  <1>3. /\ T \in Seq(Shard) /\ Len(T) = Len(content) + 1 /\ T[Len(content) + 1] = r
        /\ \A k \in 1 .. Len(content) : T[k] = content[k]
    BY AppendProperties
  <1> HIDE DEF all, T
  <1>a. /\ \A n \in 1 .. Len(lines) :
              /\ lines[n].shard \in 1 .. Len(content)
              /\ lines[n].pos \in 1 .. Len(content[lines[n].shard])
              /\ content[lines[n].shard][lines[n].pos] = lines[n].row
        /\ \A k \in 1 .. Len(content) : \A j \in 1 .. Len(content[k]) :
              \E n \in 1 .. Len(lines) : lines[n].shard = k /\ lines[n].pos = j
        /\ \A n, m \in 1 .. Len(lines) : n < m => lines[n].row.index < lines[m].row.index
    BY DEF Holds, Resolve
  <1>b. \A i \in 1 .. Len(lines) : lines[i].row.index \in Int
    <2>1. ASSUME NEW i \in 1 .. Len(lines)
          PROVE  lines[i].row \in Row \cup {NoRow}
      <3>1. lines[i] \in Line
        BY ElementOfSeq
      <3> QED
        BY <3>1 DEF Line
    <2> QED
      BY <2>1 DEF Row, NoRow, Indices
  <1>c. \A j \in 1 .. Len(r) : r[j].index \in Int
    BY <1>1 DEF Row, Indices
  <1>d. ASSUME NEW n \in 1 .. Len(all), n > Len(lines)
        PROVE  /\ n - Len(lines) \in 1 .. Len(r)
               /\ all[n].row = r[n - Len(lines)] /\ all[n].shard = Len(content) + 1
               /\ all[n].pos = n - Len(lines)
    <2>1. n - Len(lines) \in 1 .. Len(r) /\ n = Len(lines) + (n - Len(lines))
      BY <1>d, <1>1, <1>2
    <2>2. all[n] = [row |-> r[n - Len(lines)], shard |-> Len(content) + 1,
                    pos |-> n - Len(lines)]
      BY <2>1, <1>2
    <2> QED
      BY <2>1, <2>2
  <1>4. ASSUME NEW n \in 1 .. Len(all)
        PROVE  /\ all[n].shard \in 1 .. Len(T)
               /\ all[n].pos \in 1 .. Len(T[all[n].shard])
               /\ T[all[n].shard][all[n].pos] = all[n].row
    <2>1. CASE n <= Len(lines)
      <3>1. /\ lines[n].shard \in 1 .. Len(content)
            /\ lines[n].pos \in 1 .. Len(content[lines[n].shard])
            /\ content[lines[n].shard][lines[n].pos] = lines[n].row
        BY <2>1, <1>1, <1>a
      <3> QED
        BY <3>1, <2>1, <1>1, <1>2, <1>3, SMTT(30)
    <2>2. CASE n > Len(lines)
      <3>1. /\ n - Len(lines) \in 1 .. Len(r)
            /\ all[n].row = r[n - Len(lines)] /\ all[n].shard = Len(content) + 1
            /\ all[n].pos = n - Len(lines)
        BY <2>2, <1>d
      <3> QED
        BY <3>1, <1>1, <1>3
    <2> QED
      BY <2>1, <2>2, <1>1, <1>2
  <1>5. ASSUME NEW k \in 1 .. Len(T), NEW j \in 1 .. Len(T[k])
        PROVE  \E n \in 1 .. Len(all) : all[n].shard = k /\ all[n].pos = j
    <2>1. CASE k <= Len(content)
      <3>0. k \in 1 .. Len(content) /\ j \in 1 .. Len(content[k])
        BY <2>1, <1>1, <1>3
      <3>1. PICK n \in 1 .. Len(lines) : lines[n].shard = k /\ lines[n].pos = j
        BY <3>0, <1>a
      <3> QED
        BY <3>1, <1>1, <1>2
    <2>2. CASE k = Len(content) + 1
      <3>1. j \in 1 .. Len(r) /\ Len(lines) + j \in 1 .. Len(all)
        BY <2>2, <1>1, <1>2, <1>3
      <3>2. all[Len(lines) + j] = [row |-> r[j], shard |-> Len(content) + 1, pos |-> j]
        BY <3>1, <1>2
      <3> QED
        BY <3>1, <3>2, <2>2, SMTT(30)
    <2> QED
      BY <2>1, <2>2, <1>1, <1>3
  <1>6. ASSUME NEW n \in 1 .. Len(all), NEW m \in 1 .. Len(all), n < m
        PROVE  all[n].row.index < all[m].row.index
    <2>1. CASE m <= Len(lines)
      <3>1. n \in 1 .. Len(lines) /\ m \in 1 .. Len(lines)
        BY <2>1, <1>1, <1>2, <1>6
      <3> QED
        BY <3>1, <1>2, <1>6, <1>a
    <2>2. CASE n > Len(lines)
      <3>0. m > Len(lines)
        BY <2>2, <1>1, <1>2, <1>6
      <3>1. /\ n - Len(lines) \in 1 .. Len(r) /\ all[n].row = r[n - Len(lines)]
            /\ m - Len(lines) \in 1 .. Len(r) /\ all[m].row = r[m - Len(lines)]
        BY <2>2, <3>0, <1>d
      <3>2. n - Len(lines) < m - Len(lines)
        BY <1>1, <1>2, <1>6
      <3> QED
        BY <3>1, <3>2 DEF Ascending
    <2>3. CASE n <= Len(lines) /\ m > Len(lines)
      <3>1. n \in 1 .. Len(lines) /\ all[n].row = lines[n].row
        BY <2>3, <1>1, <1>2
      <3>2. m - Len(lines) \in 1 .. Len(r) /\ all[m].row = r[m - Len(lines)]
        BY <2>3, <1>d
      <3>3. Len(lines) \in 1 .. Len(lines) /\ lines # <<>>
        BY <3>1, <1>1
      <3>4. lines[n].row.index <= lines[Len(lines)].row.index
        <4>1. CASE n = Len(lines)
          BY <4>1, <3>3, <1>b
        <4>2. CASE n < Len(lines)
          BY <4>2, <3>1, <3>3, <1>a, <1>b
        <4> QED
          BY <4>1, <4>2, <3>1, <1>1
      <3>5. r[1].index <= r[m - Len(lines)].index
        <4>1. CASE m - Len(lines) = 1
          BY <4>1, <3>2, <1>c
        <4>2. CASE m - Len(lines) > 1
          BY <4>2, <3>2, <1>1, <1>c, SMTT(30) DEF Ascending
        <4> QED
          BY <4>1, <4>2, <3>2, <1>1
      <3>6. lines[Len(lines)].row.index < r[1].index
        BY <3>3
      <3>7. /\ lines[n].row.index \in Int /\ lines[Len(lines)].row.index \in Int
        BY <3>1, <3>3, <1>b
      <3>8. r[1].index \in Int /\ r[m - Len(lines)].index \in Int
        BY <3>2, <1>1, <1>c, SMTT(30)
      <3>9. lines[n].row.index < r[m - Len(lines)].index
        BY <3>4, <3>5, <3>6, <3>7, <3>8, SMTT(30)
      <3> QED
        BY <3>1, <3>2, <3>9
    <2>4. n \in Int /\ m \in Int /\ Len(lines) \in Int
      BY <1>1, <1>2
    <2> QED
      BY <2>1, <2>2, <2>3, <2>4
  <1>7. all # <<>> /\ all[Len(all)].row = r[Len(r)]
    <2>1. Len(r) \in 1 .. Len(r)
      BY <1>1
    <2>2. all[Len(lines) + Len(r)].row = r[Len(r)]
      <3>1. all[Len(lines) + Len(r)] =
                [row |-> r[Len(r)], shard |-> Len(content) + 1, pos |-> Len(r)]
        BY <2>1, <1>2
      <3> QED
        BY <3>1
    <2>3. all # <<>>
      BY <1>1, <1>2, EmptySeq
    <2> QED
      BY <2>2, <2>3, <1>2
  <1> QED
    BY <1>4, <1>5, <1>6, <1>7 DEF Holds, Resolve, all, T
-----------------------------------------------------------------------------
(***************************************************************************)
(* The shape of the state.                                                 *)
(***************************************************************************)
LEMMA SeqFromFunction ==
    ASSUME NEW S, NEW n \in Nat, NEW f \in [1 .. n -> S]
    PROVE  f \in Seq(S) /\ Len(f) = n
  <1>1. f \in Seq(S)
    BY SeqDef
  <1>2. Len(f) \in Nat /\ DOMAIN f = 1 .. Len(f)
    BY <1>1, LenProperties
  <1> QED
    BY <1>1, <1>2

\* The lines of the shard that was just added to the table.
LEMMA NewLinesAre ==
    ASSUME TypeOK
    PROVE  /\ NewLines \in Seq(Line) /\ Len(NewLines) = Len(rows)
           /\ \A j \in 1 .. Len(rows) :
                 NewLines[j] = [row |-> rows[j], shard |-> Len(table), pos |-> j]
  <1>1. Len(rows) \in Nat /\ Len(table) \in Nat /\ \A j \in 1 .. Len(rows) : rows[j] \in Row
    BY LenProperties, ElementOfSeq DEF TypeOK
  <1>2. NewLines \in [1 .. Len(rows) -> Line]
    BY <1>1 DEF NewLines, Line
  <1> QED
    BY <1>1, <1>2, SeqFromFunction DEF NewLines

\* A build state's cursor is within the dataset.
LEMMA CursorInRange ==
    ASSUME TypeOK, DiskInv, state # NoState
    PROVE  state.next \in 0 .. Length /\ state.size \in 0 .. Len(jsonl)
  <1>1. Vouched(state) /\ state \in BuildState /\ flushed \in Nat /\ flushed <= Len(jsonl)
        /\ jsonl \in Seq(Line) /\ state.shards \in Seq(Shard) /\ Len(jsonl) \in Nat
    BY LenProperties DEF DiskInv, TypeOK, BuildState
  <1>2. state.size \in 0 .. Len(jsonl)
    BY <1>1 DEF Vouched
  <1>3. CASE state.size = 0
    BY <1>1, <1>2, <1>3, DatasetAssumption DEF Vouched
  <1>4. CASE state.size # 0
    <2> DEFINE front == SubSeq(jsonl, 1, state.size)
    <2>1. Len(front) = state.size /\ front[state.size] = jsonl[state.size]
      BY <1>1, <1>2, <1>4, FrontOf
    <2>2. Resolve(front, state.shards)
      BY <1>1 DEF Vouched, Holds
    <2> HIDE DEF front
    <2>3. state.size \in 1 .. Len(front)
      BY <2>1, <1>2, <1>4
    <2>4. /\ front[state.size].shard \in 1 .. Len(state.shards)
          /\ front[state.size].pos \in 1 .. Len(state.shards[front[state.size].shard])
          /\ state.shards[front[state.size].shard][front[state.size].pos] = front[state.size].row
      BY <2>2, <2>3 DEF Resolve
    <2>5. state.shards[front[state.size].shard] \in Seq(Row)
      BY <2>4, <1>1, ElementOfSeq DEF Shard
    <2>6. front[state.size].row \in Row
      BY <2>4, <2>5, ElementOfSeq
    <2>7. jsonl[state.size].row.index \in Indices
      BY <2>1, <2>6 DEF Row
    <2>8. state.next = jsonl[state.size].row.index + 1
      BY <1>1, <1>4 DEF Vouched
    <2> QED
      BY <2>7, <2>8, <1>2, DatasetAssumption DEF Indices
  <1> QED
    BY <1>3, <1>4

LEMMA Empties ==
    /\ \A S : <<>> \in Seq(S)
    /\ NoState \in BuildState /\ Torn \in Shard /\ TornLine \in Line
  BY EmptySeq DEF NoState, BuildState, Torn, Shard, TornLine, Line

LEMMA TypeKept ==
    ASSUME TypeOK, DiskInv, WorkInv, [Next]_vars
    PROVE  TypeOK'
  <1> USE DEF TypeOK
  <1>0. /\ \A S : <<>> \in Seq(S)
        /\ NoState \in BuildState /\ Torn \in Shard /\ TornLine \in Line
        /\ MaxJob \in Nat /\ Length \in Nat
        /\ Len(rows) \in Nat /\ Len(table) \in Nat /\ Len(shards) \in Nat /\ Len(jsonl) \in Nat
        /\ \A j \in 1 .. Len(rows) : rows[j] \in Row
        /\ \A j \in 1 .. Len(shards) : shards[j] \in Shard
    BY Empties, DatasetAssumption, JobAssumption, LenProperties, ElementOfSeq
  <1>1. CASE CreateStaging \/ WriteFirstState \/ RefuseStaging
    <2>1. CASE CreateStaging
      <3>1. job' \in 0 .. MaxJob /\ last' \in -1 .. Length - 1 /\ next' \in 0 .. Length
        BY <2>1, <1>0 DEF CreateStaging, StartJob
      <3>2. /\ pc' = "first" /\ rows' = <<>> /\ pending' = 0 /\ carry' = <<>> /\ closing' = FALSE
            /\ table' = <<>> /\ place' = "staging" /\ jsonl' = <<>>
            /\ UNCHANGED <<state, manifest, shards, sealed, flushed, synced>>
        BY <2>1 DEF CreateStaging, Forget, durable
      <3> QED
        BY <3>1, <3>2, <1>0
    <2>2. CASE WriteFirstState
      <3>1. state' \in BuildState
        BY <2>2, <1>0 DEF WriteFirstState, BuildState
      <3> QED
        BY <2>2, <3>1, <1>0 DEF WriteFirstState, Commit, memory
    <2>3. CASE RefuseStaging
      BY <2>3, <1>0 DEF RefuseStaging, StartJob, memory, files, durable
    <2> QED
      BY <1>1, <2>1, <2>2, <2>3
  <1>2. CASE Restore
    <2>1. state.shards \in Seq(Shard) /\ state.next \in 0 .. Length
          /\ state.size \in 0 .. Len(jsonl)
      BY <1>2, CursorInRange DEF Restore, Restorable, BuildState
    <2>2. jsonl' \in Seq(Line) /\ Len(state.shards) \in Nat
      BY <1>2, <2>1, FrontOf, LenProperties DEF Restore
    <2>3. job' \in 0 .. MaxJob /\ last' \in -1 .. Length - 1 /\ next' \in 0 .. Length
          /\ sealed' \in Nat /\ flushed' \in Nat
      <3>1. /\ job < MaxJob /\ job' = job + 1 /\ next' = state.next /\ last' = state.next - 1
            /\ sealed' = Len(state.shards) /\ flushed' = state.size
        BY <1>2 DEF Restore, StartJob
      <3>2. job' \in 0 .. MaxJob
        BY <3>1, <1>0, JobAssumption DEF TypeOK
      <3>3. last' \in -1 .. Length - 1 /\ next' \in 0 .. Length
        BY <3>1, <2>1, DatasetAssumption, SMTT(30)
      <3>4. sealed' \in Nat /\ flushed' \in Nat
        BY <3>1, <2>1, <2>2, LenProperties DEF TypeOK
      <3> QED
        BY <3>2, <3>3, <3>4
    <2>4. /\ pc' = "ready" /\ rows' = <<>> /\ pending' = 0 /\ carry' = <<>> /\ closing' = FALSE
          /\ table' = state.shards /\ shards' = state.shards
          /\ UNCHANGED <<place, state, manifest, synced>>
      BY <1>2 DEF Restore, Forget
    <2> QED
      BY <2>1, <2>2, <2>3, <2>4, <1>0
  <1>3. ASSUME NEW i \in Indices, Add(i)
        PROVE  TypeOK'
    <2>1. job > 0 /\ pending + Bytes[i] \in Nat
      <3>1. Bytes[i] \in Nat
        BY ShardAssumption DEF Indices
      <3>2. pc = "ready"
        BY <1>3 DEF Add, AddRow, AddAfterFlush
      <3>3. job > 0
        BY <3>2 DEF WorkInv
      <3> QED
        BY <3>1, <3>3, SMTT(30)
    <2>2. [index |-> i, job |-> job] \in Row
      BY <2>1, <1>0 DEF Row
    <2>3. CASE AddRow(i)
      <3>1. rows' \in Seq(Row)
        BY <2>3, <2>2, AppendProperties DEF AddRow
      <3> QED
        BY <2>3, <2>1, <3>1, <1>0 DEF AddRow, Indices, files, durable
    <2>4. CASE AddAfterFlush(i)
      BY <2>4, <2>2 DEF AddAfterFlush, files, durable
    <2> QED
      BY <1>3, <2>3, <2>4 DEF Add
  <1>4. CASE SaveShard
    <2>1. Len(table) \in 0 .. Len(shards)
      BY <1>4, <1>0 DEF SaveShard, WorkInv
    <2>2. SubSeq(shards, 1, Len(table)) \in Seq(Shard) /\ rows \in Shard
      BY <2>1, FrontOf DEF Shard
    <2>3. shards' \in Seq(Shard)
      BY <1>4, <2>2, AppendProperties DEF SaveShard
    <2> QED
      BY <1>4, <2>3 DEF SaveShard, memory, durable
  <1>5. CASE SealShard
    <2>1. shards = Append(table, rows) /\ rows \in Shard
      BY <1>5 DEF SealShard, WorkInv, Shard
    <2>2. shards[Len(table) + 1] = rows
      BY <2>1, AppendProperties
    <2>3. table' \in Seq(Shard)
      BY <1>5, <2>1, <2>2, AppendProperties DEF SealShard
    <2> QED
      BY <1>5, <2>3, <1>0 DEF SealShard, Commit, files
  <1>6. CASE AppendLines
    <2>1. jsonl' \in Seq(Line)
      BY <1>6, NewLinesAre, ConcatProperties DEF AppendLines
    <2> QED
      BY <1>6, <2>1 DEF AppendLines, memory, durable
  <1>7. CASE SyncLines
    <2>1. rows # <<>>
      BY <1>7 DEF SyncLines, WorkInv, RowsInv
    <2>2. rows[Len(rows)] \in Row
      BY <2>1, EmptySeq, <1>0
    <2>3. next' \in 0 .. Length
      <3>1. rows[Len(rows)].index \in 0 .. Length - 1
        BY <2>2 DEF Row, Indices
      <3> QED
        BY <1>7, <3>1, <1>0, SMTT(30) DEF SyncLines
    <2> QED
      BY <1>7, <2>3, <1>0 DEF SyncLines, Commit, files
  <1>8. CASE ReplaceState
    <2>1. state' \in BuildState
      BY <1>8, <1>0 DEF ReplaceState, BuildState
    <2>2. carry # <<>> => carry[1] \in Row
      BY EmptySeq, LenProperties, ElementOfSeq
    <2>3. pending' \in Nat
      BY <1>8, <2>2, ShardAssumption DEF ReplaceState, Row, Indices
    <2>4. last' \in -1 .. Length - 1
      BY <1>8, <2>2, <1>0, SMTT(30) DEF ReplaceState, Row, Indices
    <2>5. rows' \in Seq(Row) /\ carry' \in Seq(Row)
      BY <1>8, <1>0 DEF ReplaceState
    <2> QED
      BY <1>8, <2>1, <2>3, <2>4, <2>5 DEF ReplaceState, Commit
  <1>9. CASE Finalize
    BY <1>9 DEF Finalize, files, durable
  <1>10. CASE Closing
    <2>1. CASE WriteManifest
      BY <2>1 DEF WriteManifest, memory, Names
    <2>2. CASE Publish
      BY <2>2 DEF Publish, memory, durable
    <2>3. CASE RemoveState
      BY <2>3, <1>0 DEF RemoveState, memory, durable
    <2> QED
      BY <1>10, <2>1, <2>2, <2>3 DEF Closing
  <1>11. CASE Kill
    <2>1. CASE UNCHANGED <<shards, jsonl>>
      BY <1>11, <2>1 DEF Kill, memory, durable
    <2>2. CASE pc = "save" /\ shards' = Append(SubSeq(shards, 1, Len(table)), Torn) /\ jsonl' = jsonl
      <3>1. Len(table) \in 0 .. Len(shards)
        BY <2>2, <1>0 DEF WorkInv
      <3>2. SubSeq(shards, 1, Len(table)) \in Seq(Shard)
        BY <3>1, FrontOf
      <3>3. shards' \in Seq(Shard)
        BY <2>2, <3>2, <1>0, AppendProperties
      <3> QED
        BY <1>11, <2>2, <3>3 DEF Kill, memory, durable
    <2>3. ASSUME shards' = shards, NEW n \in 0 .. Len(rows) - 1,
                 jsonl' = Append(jsonl \o SubSeq(NewLines, 1, n), TornLine)
          PROVE  TypeOK'
      <3>1. SubSeq(NewLines, 1, n) \in Seq(Line)
        BY <1>0, NewLinesAre, FrontOf
      <3>2. jsonl \o SubSeq(NewLines, 1, n) \in Seq(Line)
        BY <3>1, ConcatProperties
      <3>3. jsonl' \in Seq(Line)
        BY <2>3, <3>2, <1>0, AppendProperties
      <3> QED
        BY <1>11, <2>3, <3>3 DEF Kill, memory, durable
    <2> QED
      BY <1>11, <2>1, <2>2, <2>3 DEF Kill
  <1>12. CASE JournalCommit
    BY <1>12 DEF JournalCommit, Names, memory, files
  <1>13. CASE PowerLoss
    <2>1. /\ synced.place \in {"none", "staging", "output"} /\ synced.state \in BuildState
          /\ synced.manifest \in Seq(Shard)
      OBVIOUS
    <2>2. shards' \in Seq(Shard) /\ jsonl' \in Seq(Line)
      <3>1. CASE synced.place = "none"
        BY <1>13, <3>1, <1>0 DEF PowerLoss
      <3>2. CASE synced.place # "none"
        <4>1. PICK n \in sealed .. Len(shards), torn \in SUBSET (sealed + 1 .. Len(shards)) :
                 shards' = [k \in 1 .. n |-> IF k \in torn THEN Torn ELSE shards[k]]
          BY <1>13, <3>2 DEF PowerLoss
        <4>2. shards' \in [1 .. n -> Shard] /\ n \in Nat
          BY <4>1, <1>0
        <4>3. PICK m \in flushed .. Len(jsonl) :
                 \/ jsonl' = SubSeq(jsonl, 1, m)
                 \/ m < Len(jsonl) /\ jsonl' = Append(SubSeq(jsonl, 1, m), TornLine)
          BY <1>13, <3>2 DEF PowerLoss
        <4>4. m \in 0 .. Len(jsonl)
          BY <1>0
        <4>5. SubSeq(jsonl, 1, m) \in Seq(Line)
          BY <4>4, FrontOf
        <4>6. jsonl' \in Seq(Line)
          <5>1. Append(SubSeq(jsonl, 1, m), TornLine) \in Seq(Line)
            BY <4>5, <1>0, AppendProperties
          <5> QED
            BY <4>3, <4>5, <5>1
        <4> QED
          BY <4>2, <4>6, SeqFromFunction
      <3> QED
        BY <3>1, <3>2
    <2> QED
      BY <1>13, <2>1, <2>2 DEF PowerLoss, memory, durable
  <1>14. CASE UNCHANGED vars
    BY <1>14 DEF vars, memory, files, durable
  <1> QED
    BY <1>1, <1>2, <1>3, <1>4, <1>5, <1>6, <1>7, <1>8, <1>9, <1>10, <1>11, <1>12, <1>13, <1>14
       DEF Next, Open, Flush
-----------------------------------------------------------------------------
(***************************************************************************)
(* The disk.                                                               *)
(***************************************************************************)
\* The lengths that the proofs compare.
LEMMA Lengths ==
    ASSUME TypeOK
    PROVE  /\ Len(shards) \in Nat /\ Len(jsonl) \in Nat /\ Len(table) \in Nat /\ Len(rows) \in Nat
           /\ sealed \in Nat /\ flushed \in Nat
           /\ \A st \in BuildState : Len(st.shards) \in Nat
           /\ state \in BuildState /\ synced.state \in BuildState
  BY LenProperties DEF TypeOK, BuildState

\* What is fsynced stays, so what a build state vouches for stays.
LEMMA VouchedStays ==
    ASSUME TypeOK, TypeOK', sealed <= sealed', flushed <= flushed',
           flushed <= Len(jsonl), flushed' <= Len(jsonl'),
           \A k \in 1 .. sealed : shards'[k] = shards[k],
           \A n \in 1 .. flushed : jsonl'[n] = jsonl[n],
           NEW st \in BuildState, Vouched(st)
    PROVE  Vouched(st)'
  <1>1. /\ Len(st.shards) \in Nat /\ sealed \in Nat /\ sealed' \in Nat /\ flushed \in Nat
        /\ flushed' \in Nat /\ jsonl \in Seq(Line) /\ jsonl' \in Seq(Line)
        /\ Len(jsonl) \in Nat /\ Len(jsonl') \in Nat
    BY LenProperties DEF TypeOK, BuildState
  <1>2. Len(st.shards) <= sealed /\ st.size \in 0 .. flushed
    BY DEF Vouched
  <1>3. SubSeq(jsonl', 1, st.size) = SubSeq(jsonl, 1, st.size)
    <2>1. /\ st.size \in Nat /\ st.size <= Len(jsonl) /\ st.size <= Len(jsonl')
          /\ \A n \in 1 .. st.size : jsonl[n] = jsonl'[n]
      BY <1>1, <1>2
    <2> QED
      BY <2>1, <1>1, FrontKept
  <1>4. \A k \in 1 .. Len(st.shards) : shards'[k] = st.shards[k]
    BY <1>1, <1>2 DEF Vouched
  <1>5. Len(st.shards) <= sealed' /\ st.size \in 0 .. flushed'
    BY <1>1, <1>2
  <1>6. st.size # 0 => jsonl'[st.size] = jsonl[st.size]
    BY <1>1, <1>2
  <1> QED
    BY <1>3, <1>4, <1>5, <1>6 DEF Vouched

\* A step that writes behind what is fsynced, and renames nothing but may commit the names.
LEMMA DiskStays ==
    ASSUME TypeOK, TypeOK', DiskInv, sealed <= sealed', flushed <= flushed',
           sealed' <= Len(shards'), flushed' <= Len(jsonl'),
           \A k \in 1 .. sealed : shards'[k] = shards[k],
           \A n \in 1 .. flushed : jsonl'[n] = jsonl[n],
           state' = state, synced'.state \in {synced.state, state},
           Complete(place, manifest)', Complete(synced.place, synced.manifest)'
    PROVE  DiskInv'
  <1>1. \A st \in BuildState : Vouched(st) => Vouched(st)'
    BY VouchedStays DEF DiskInv
  <1>2. state \in BuildState /\ synced.state \in BuildState
    BY DEF TypeOK
  <1>3. state' # NoState => Vouched(state)'
    BY <1>1, <1>2 DEF DiskInv, Vouched
  <1>4. synced'.state # NoState => Vouched(synced.state)'
    <2>1. CASE synced'.state = synced.state
      BY <2>1, <1>1, <1>2, SMTT(30) DEF DiskInv, Vouched
    <2>2. CASE synced'.state = state
      BY <2>2, <1>1, <1>2 DEF DiskInv, Vouched
    <2> QED
      BY <2>1, <2>2
  <1>5. Len(state.shards) \in Nat /\ state \in BuildState /\ Len(state.shards) <= Len(state.shards)
    BY Lengths
  <1>6. state' # NoState /\ synced'.state # NoState =>
           Len(synced'.state.shards) <= Len(state'.shards) /\ synced'.state.size <= state'.size
    BY <1>5, <1>2 DEF DiskInv, BuildState
  <1> QED
    BY <1>3, <1>4, <1>6 DEF DiskInv

\* Nothing is complete that is not under the output's name.
LEMMA NotOutput ==
    ASSUME NamesInv, place # "output"
    PROVE  synced.place # "output"
  BY DEF NamesInv

\* A step that changes no file.
LEMMA DiskSame ==
    ASSUME TypeOK, TypeOK', DiskInv, UNCHANGED <<place, state, manifest, shards, jsonl, durable>>
    PROVE  DiskInv'
  BY DEF DiskInv, Vouched, Complete, durable

\* What a job restores is what the build state vouches for, so it can be restored again.
LEMMA RestoreKeepsDisk ==
    ASSUME TypeOK, TypeOK', DiskInv, NamesInv, Restore
    PROVE  DiskInv'
  <1>1. /\ state # NoState /\ state' = state /\ synced' = synced
        /\ place = "staging" /\ place' = "staging" /\ synced.place # "output"
        /\ shards' = state.shards /\ sealed' = Len(state.shards)
        /\ jsonl' = SubSeq(jsonl, 1, state.size) /\ flushed' = state.size
    BY NotOutput DEF Restore, Restorable
  <1>2. Vouched(state)
    BY <1>1 DEF DiskInv
  <1>3. /\ jsonl \in Seq(Line) /\ Len(jsonl) \in Nat /\ flushed \in Nat /\ flushed <= Len(jsonl)
        /\ state.size \in 0 .. flushed /\ Len(state.shards) \in Nat
    BY <1>2, Lengths DEF TypeOK, DiskInv, Vouched
  <1>4. /\ jsonl' \in Seq(Line) /\ Len(jsonl') = state.size
        /\ \A n \in 1 .. state.size : jsonl'[n] = jsonl[n]
    BY <1>1, <1>3, FrontOf
  <1>5. ASSUME NEW st \in BuildState, Vouched(st), Len(st.shards) <= Len(state.shards),
               st.size <= state.size
        PROVE  Vouched(st)'
    <2>1. Len(st.shards) \in Nat /\ st.size \in 0 .. flushed
      BY <1>5, Lengths DEF Vouched
    <2>2. SubSeq(jsonl', 1, st.size) = SubSeq(jsonl, 1, st.size)
      <3>1. /\ st.size \in Nat /\ st.size <= Len(jsonl) /\ st.size <= Len(jsonl')
            /\ \A n \in 1 .. st.size : jsonl'[n] = jsonl[n]
        BY <1>3, <1>4, <1>5, <2>1
      <3> QED
        BY <3>1, <1>3, <1>4, FrontKept
    <2>3. \A k \in 1 .. Len(st.shards) : shards'[k] = st.shards[k]
      BY <1>1, <1>2, <1>3, <1>5, <2>1 DEF Vouched
    <2>4. st.size # 0 => jsonl'[st.size] = jsonl[st.size]
      BY <1>3, <1>4, <1>5, <2>1
    <2>5. Len(st.shards) <= sealed' /\ st.size \in 0 .. flushed'
      BY <1>1, <1>3, <1>5, <2>1
    <2> QED
      BY <1>5, <2>2, <2>3, <2>4, <2>5 DEF Vouched
  <1>6. state \in BuildState /\ synced.state \in BuildState
    BY DEF TypeOK
  <1>7. Vouched(state)'
    <2>1. Vouched(state) /\ Len(state.shards) <= Len(state.shards) /\ state.size <= state.size
      BY <1>2, <1>3
    <2> QED
      BY <2>1, <1>1, <1>5, <1>6 DEF Vouched
  <1>8. synced'.state # NoState => Vouched(synced.state)'
    <2>1. synced.state # NoState =>
             /\ Vouched(synced.state) /\ Len(synced.state.shards) <= Len(state.shards)
             /\ synced.state.size <= state.size
      BY <1>1 DEF DiskInv
    <2> QED
      BY <2>1, <1>1, <1>5, <1>6 DEF Vouched
  <1>9. sealed' <= Len(shards') /\ flushed' <= Len(jsonl')
    BY <1>1, <1>3, <1>4
  <1> QED
    BY <1>1, <1>7, <1>8, <1>9 DEF DiskInv, Complete

\* The new build state vouches for the shard that was just sealed.
LEMMA ReplaceKeepsDisk ==
    ASSUME TypeOK, TypeOK', DiskInv, NamesInv, WorkInv, ReplaceState
    PROVE  DiskInv'
  <1>1. /\ state # NoState /\ state' = [shards |-> table, size |-> Len(jsonl), next |-> next]
        /\ synced'.state = state /\ synced'.place = "staging" /\ place' = "staging"
        /\ UNCHANGED <<shards, jsonl, sealed, flushed>>
    BY DEF ReplaceState, Commit, WorkInv
  <1>2. /\ table = Append(state.shards, rows) /\ shards = table /\ sealed = Len(table)
        /\ Holds(jsonl, table) /\ jsonl # <<>> /\ jsonl[Len(jsonl)].row = rows[Len(rows)]
        /\ flushed = Len(jsonl) /\ next = rows[Len(rows)].index + 1
        /\ state.size <= Len(jsonl) /\ Vouched(state)
    BY <1>1 DEF WorkInv, ReplaceState, DiskInv
  <1>3. /\ jsonl \in Seq(Line) /\ Len(jsonl) \in Nat /\ Len(jsonl) # 0
        /\ state.shards \in Seq(Shard) /\ rows \in Shard /\ Len(table) \in Nat
    BY <1>2, Lengths, EmptySeq DEF TypeOK, BuildState, Shard
  <1>4. SubSeq(jsonl, 1, Len(jsonl)) = jsonl
    BY <1>3, SubSeqFull
  <1>5. Vouched(state)'
    <2>1. state'.shards = table /\ state'.size = Len(jsonl) /\ state'.next = next
      BY <1>1
    <2>2. Holds(SubSeq(jsonl', 1, state'.size), state'.shards)
      BY <1>1, <1>2, <1>4, <2>1
    <2>3. state'.size \in 0 .. flushed' /\ Len(state'.shards) <= sealed'
      BY <1>1, <1>2, <1>3, <2>1
    <2>4. \A k \in 1 .. Len(state'.shards) : shards'[k] = state'.shards[k]
      BY <1>1, <1>2, <2>1
    <2>5. state'.size # 0 /\ state'.next = jsonl'[state'.size].row.index + 1
      BY <1>1, <1>2, <1>3, <2>1
    <2> QED
      BY <2>2, <2>3, <2>4, <2>5 DEF Vouched
  <1>6. Vouched(synced.state)'
    BY <1>1, <1>2 DEF Vouched
  <1>7. Len(state.shards) <= Len(table)
    BY <1>2, <1>3, AppendProperties, LenProperties
  <1> QED
    BY <1>1, <1>2, <1>5, <1>6, <1>7 DEF DiskInv, Complete

LEMMA PowerLossKeepsDisk ==
    ASSUME TypeOK, TypeOK', DiskInv, NamesInv, PowerLoss
    PROVE  /\ DiskInv'
           /\ \A n \in 1 .. flushed : jsonl'[n] = jsonl[n]
           /\ synced.place = "output" => shards' = shards /\ jsonl' = jsonl
  <1>1. /\ state' = synced.state /\ synced' = synced /\ place' = synced.place
        /\ manifest' = synced.manifest /\ sealed' = sealed /\ flushed' = flushed
    BY DEF PowerLoss, durable
  <1>2. /\ Len(shards) \in Nat /\ Len(jsonl) \in Nat /\ sealed \in Nat /\ flushed \in Nat
        /\ sealed <= Len(shards) /\ flushed <= Len(jsonl) /\ jsonl \in Seq(Line)
        /\ shards \in Seq(Shard)
    BY Lengths DEF TypeOK, DiskInv
  <1>3. /\ sealed <= Len(shards') /\ flushed <= Len(jsonl')
        /\ \A k \in 1 .. sealed : shards'[k] = shards[k]
        /\ \A n \in 1 .. flushed : jsonl'[n] = jsonl[n]
        /\ sealed = Len(shards) => shards' = shards
        /\ flushed = Len(jsonl) => jsonl' = jsonl
    <2>1. CASE synced.place = "none"
      BY <2>1, <1>2 DEF PowerLoss, NamesInv
    <2>2. CASE synced.place # "none"
      <3>1. PICK n \in sealed .. Len(shards), torn \in SUBSET (sealed + 1 .. Len(shards)) :
               shards' = [k \in 1 .. n |-> IF k \in torn THEN Torn ELSE shards[k]]
        BY <2>2 DEF PowerLoss
      <3>2. PICK m \in flushed .. Len(jsonl) :
               \/ jsonl' = SubSeq(jsonl, 1, m)
               \/ m < Len(jsonl) /\ jsonl' = Append(SubSeq(jsonl, 1, m), TornLine)
        BY <2>2 DEF PowerLoss
      <3>3. Len(shards') = n
        <4>1. n \in Nat /\ shards' \in [1 .. n -> {IF k \in torn THEN Torn ELSE shards[k] : k \in 1 .. n}]
          BY <1>2, <3>1
        <4> QED
          BY <4>1, SeqFromFunction
      <3>4. \A k \in 1 .. sealed : k \notin torn /\ shards'[k] = shards[k]
        BY <1>2, <3>1
      <3>5. sealed = Len(shards) => shards' = shards
        <4>1. shards' \in Seq(Shard)
          BY DEF TypeOK
        <4> QED
          BY <4>1, <3>3, <3>4, <1>2, SeqEqual
      <3>6. m \in 0 .. Len(jsonl)
        BY <1>2
      <3> DEFINE front == SubSeq(jsonl, 1, m)
      <3>7. front \in Seq(Line) /\ Len(front) = m /\ \A i \in 1 .. m : front[i] = jsonl[i]
        BY <1>2, <3>6, FrontOf
      <3> HIDE DEF front
      <3>8. flushed <= Len(jsonl') /\ \A i \in 1 .. flushed : jsonl'[i] = jsonl[i]
        <4>1. CASE jsonl' = front
          BY <4>1, <3>7, <1>2
        <4>2. CASE jsonl' = Append(front, TornLine)
          <5>1. Len(jsonl') = m + 1 /\ \A i \in 1 .. m : jsonl'[i] = front[i]
            BY <4>2, <3>7, Empties, AppendProperties
          <5> QED
            BY <5>1, <3>7, <1>2
        <4> QED
          BY <3>2, <4>1, <4>2 DEF front
      <3>9. flushed = Len(jsonl) => jsonl' = jsonl
        <4>1. SUFFICES ASSUME flushed = Len(jsonl)
                       PROVE  jsonl' = jsonl
          OBVIOUS
        <4>2. m = Len(jsonl)
          BY <4>1, <1>2
        <4> QED
          BY <4>2, <3>2, <1>2, SubSeqFull
      <3> QED
        BY <1>2, <3>1, <3>3, <3>4, <3>5, <3>8, <3>9
    <2> QED
      BY <2>1, <2>2
  <1>4. synced.place = "output" => shards' = shards /\ jsonl' = jsonl
    BY <1>3 DEF DiskInv, Complete
  <1>5. Complete(synced.place, synced.manifest)'
    BY <1>1, <1>4 DEF DiskInv, Complete
  <1>6. synced.state \in BuildState /\ sealed <= sealed' /\ flushed <= flushed'
    <2>1. synced.state \in BuildState
      BY DEF TypeOK
    <2> QED
      BY <2>1, <1>1, <1>2
  <1>7. synced.state # NoState => Vouched(synced.state)'
    <2>1. \A st \in BuildState : Vouched(st) => Vouched(st)'
      BY <1>1, <1>2, <1>3, <1>6, VouchedStays
    <2> QED
      BY <2>1, <1>1, <1>6 DEF DiskInv, Vouched
  <1>8. synced.state # NoState => Vouched(state)'
    BY <1>7, <1>1 DEF Vouched
  <1>9. Complete(place, manifest)'
    BY <1>5, <1>1 DEF Complete
  <1>10. Len(synced.state.shards) <= Len(synced.state.shards)
         /\ synced.state.size <= synced.state.size
    BY <1>6, LenProperties DEF BuildState
  <1> QED
    BY <1>1, <1>2, <1>3, <1>4, <1>5, <1>7, <1>8, <1>9, <1>10 DEF DiskInv

\* A job writes train.jsonl at its end only, and so it does when it is killed.
LEMMA LinesOnlyGrow ==
    ASSUME TypeOK, AppendLines \/ Kill
    PROVE  Len(jsonl) <= Len(jsonl') /\ \A n \in 1 .. Len(jsonl) : jsonl'[n] = jsonl[n]
  <1>0. /\ Len(jsonl) \in Nat /\ jsonl \in Seq(Line) /\ Len(rows) \in Nat
        /\ NewLines \in Seq(Line) /\ Len(NewLines) = Len(rows)
    BY Lengths, NewLinesAre DEF TypeOK
  <1>1. ASSUME NEW some \in Seq(Line)
        PROVE  /\ jsonl \o some \in Seq(Line) /\ Len(jsonl) <= Len(jsonl \o some)
               /\ Len(jsonl \o some) \in Nat
               /\ \A n \in 1 .. Len(jsonl) : (jsonl \o some)[n] = jsonl[n]
    <2>1. Len(some) \in Nat
      BY LenProperties
    <2>2. /\ jsonl \o some \in Seq(Line) /\ Len(jsonl \o some) = Len(jsonl) + Len(some)
          /\ \A n \in 1 .. Len(jsonl) + Len(some) :
                (jsonl \o some)[n] = IF n <= Len(jsonl) THEN jsonl[n] ELSE some[n - Len(jsonl)]
      BY <1>0, ConcatProperties
    <2> QED
      BY <2>1, <2>2, <1>0
  <1>2. CASE jsonl' = jsonl
    BY <1>2, <1>0
  <1>3. CASE AppendLines
    BY <1>0, <1>1, <1>3 DEF AppendLines
  <1>4. ASSUME NEW m \in 0 .. Len(rows) - 1,
               jsonl' = Append(jsonl \o SubSeq(NewLines, 1, m), TornLine)
        PROVE  Len(jsonl) <= Len(jsonl') /\ \A n \in 1 .. Len(jsonl) : jsonl'[n] = jsonl[n]
    <2> DEFINE longer == jsonl \o SubSeq(NewLines, 1, m)
    <2>1. SubSeq(NewLines, 1, m) \in Seq(Line)
      BY <1>0, FrontOf
    <2>2. /\ longer \in Seq(Line) /\ Len(jsonl) <= Len(longer) /\ Len(longer) \in Nat
          /\ \A n \in 1 .. Len(jsonl) : longer[n] = jsonl[n]
      BY <1>1, <2>1
    <2>3. jsonl' = Append(longer, TornLine)
      BY <1>4
    <2> HIDE DEF longer
    <2>4. Len(jsonl') = Len(longer) + 1 /\ \A n \in 1 .. Len(longer) : jsonl'[n] = longer[n]
      BY <2>2, <2>3, Empties, AppendProperties
    <2>5. ASSUME NEW n \in 1 .. Len(jsonl)
          PROVE  jsonl'[n] = jsonl[n]
      <3>1. n \in 1 .. Len(longer)
        BY <2>2, <1>0
      <3> QED
        BY <3>1, <2>2, <2>4
    <2> QED
      BY <2>2, <2>4, <2>5, <1>0
  <1> QED
    BY <1>2, <1>3, <1>4 DEF Kill

LEMMA DiskKept ==
    ASSUME TypeOK, TypeOK', DiskInv, NamesInv, WorkInv, [Next]_vars
    PROVE  DiskInv'
  <1>0. /\ Len(shards) \in Nat /\ Len(jsonl) \in Nat /\ Len(table) \in Nat /\ Len(rows) \in Nat
        /\ sealed \in Nat /\ flushed \in Nat /\ shards \in Seq(Shard) /\ jsonl \in Seq(Line)
        /\ rows \in Shard /\ table \in Seq(Shard) /\ sealed <= Len(shards) /\ flushed <= Len(jsonl)
    BY Lengths DEF TypeOK, Shard, DiskInv
  <1>1. CASE CreateStaging
    BY <1>1, <1>0 DEF CreateStaging, NamesInv, DiskInv, Complete, durable
  <1>2. CASE WriteFirstState
    <2>1. /\ shards' = <<>> /\ jsonl' = <<>> /\ sealed' = 0 /\ flushed' = 0 /\ place' = "staging"
          /\ synced'.state = NoState /\ synced'.place = "staging"
          /\ state' = [shards |-> <<>>, size |-> 0, next |-> 0]
      BY <1>2 DEF WriteFirstState, WorkInv, Commit
    <2>2. SubSeq(<<>>, 1, 0) = <<>>
      BY SubSeqEmpty
    <2>3. Vouched(state)'
      <3>1. state'.shards = <<>> /\ state'.size = 0 /\ state'.next = 0
        BY <2>1
      <3>2. Holds(SubSeq(jsonl', 1, state'.size), state'.shards)
        BY <2>1, <2>2, <3>1, NothingHolds
      <3>3. Len(state'.shards) = 0
        BY <3>1
      <3> QED
        BY <2>1, <3>1, <3>2, <3>3 DEF Vouched
    <2> QED
      BY <2>1, <2>3 DEF DiskInv, Complete
  <1>3. CASE Restore
    BY <1>3, RestoreKeepsDisk
  <1>4. CASE RefuseStaging
    BY <1>4, DiskSame DEF RefuseStaging, files, durable
  <1>5. ASSUME NEW i \in Indices, Add(i)
        PROVE  DiskInv'
    BY <1>5, DiskSame DEF Add, AddRow, AddAfterFlush, files, durable
  <1>6. CASE SaveShard
    <2>1. /\ shards = table /\ sealed = Len(table) /\ place = "staging"
          /\ UNCHANGED <<place, state, manifest, jsonl, sealed, flushed, synced>>
      BY <1>6 DEF SaveShard, WorkInv, durable
    <2>2. shards' = Append(shards, rows)
      BY <1>6, <1>0, <2>1, SubSeqFull DEF SaveShard
    <2>3. Len(shards') = Len(shards) + 1 /\ \A k \in 1 .. sealed : shards'[k] = shards[k]
      BY <1>0, <2>1, <2>2, AppendProperties
    <2>4. Complete(place, manifest)' /\ Complete(synced.place, synced.manifest)'
      BY <2>1, NotOutput DEF Complete
    <2> QED
      BY <2>1, <2>3, <2>4, <1>0, DiskStays
  <1>7. CASE SealShard
    <2>1. /\ shards = Append(table, rows) /\ sealed = Len(table) /\ place = "staging"
          /\ synced'.state = state /\ synced'.place = "staging" /\ sealed' = Len(table) + 1
          /\ UNCHANGED <<place, state, manifest, shards, jsonl, flushed>>
      BY <1>7 DEF SealShard, WorkInv, Commit, files
    <2>2. Len(shards) = Len(table) + 1
      BY <1>0, <2>1, AppendProperties
    <2>3. Complete(place, manifest)' /\ Complete(synced.place, synced.manifest)'
      BY <2>1 DEF Complete
    <2> QED
      BY <2>1, <2>2, <2>3, <1>0, DiskStays
  <1>8. CASE AppendLines
    <2>1. /\ place = "staging" /\ jsonl' = jsonl \o NewLines
          /\ UNCHANGED <<place, state, manifest, shards, sealed, flushed, synced>>
      BY <1>8 DEF AppendLines, WorkInv, durable
    <2>2. flushed <= Len(jsonl') /\ \A n \in 1 .. flushed : jsonl'[n] = jsonl[n]
      <3>1. Len(jsonl) <= Len(jsonl') /\ \A n \in 1 .. Len(jsonl) : jsonl'[n] = jsonl[n]
        BY <1>8, LinesOnlyGrow
      <3>2. Len(jsonl') \in Nat
        BY LenProperties DEF TypeOK
      <3> QED
        BY <3>1, <3>2, <1>0
    <2>3. Complete(place, manifest)' /\ Complete(synced.place, synced.manifest)'
      BY <2>1, NotOutput DEF Complete
    <2> QED
      BY <2>1, <2>2, <2>3, <1>0, DiskStays
  <1>9. CASE SyncLines
    <2>1. /\ place = "staging" /\ flushed' = Len(jsonl)
          /\ synced'.state = state /\ synced'.place = "staging"
          /\ UNCHANGED <<place, state, manifest, shards, jsonl, sealed>>
      BY <1>9 DEF SyncLines, WorkInv, Commit, files
    <2>2. Complete(place, manifest)' /\ Complete(synced.place, synced.manifest)'
      BY <2>1 DEF Complete
    <2> QED
      BY <2>1, <2>2, <1>0, DiskStays
  <1>10. CASE ReplaceState
    BY <1>10, ReplaceKeepsDisk
  <1>11. CASE Finalize
    BY <1>11, DiskSame DEF Finalize, files, durable
  <1>12. CASE WriteManifest
    <2>1. /\ place = "staging" /\ synced'.state = state /\ synced'.place = "staging"
          /\ UNCHANGED <<place, state, shards, jsonl, sealed, flushed>>
      BY <1>12 DEF WriteManifest, WorkInv, Names
    <2>2. Complete(place, manifest)' /\ Complete(synced.place, synced.manifest)'
      BY <2>1 DEF Complete
    <2> QED
      BY <2>1, <2>2, <1>0, DiskStays
  <1>13. CASE Publish
    <2>1. /\ place = "staging" /\ state # NoState /\ table = state.shards /\ table # <<>>
          /\ shards = table /\ sealed = Len(table) /\ state.size = Len(jsonl)
          /\ flushed = Len(jsonl) /\ manifest = table /\ place' = "output"
          /\ UNCHANGED <<state, manifest, shards, jsonl, sealed, flushed, synced>>
      BY <1>13 DEF Publish, WorkInv, durable
    <2>2. Holds(jsonl, table)
      <3>1. SubSeq(jsonl, 1, Len(jsonl)) = jsonl
        BY <1>0, SubSeqFull
      <3> QED
        BY <2>1, <3>1 DEF DiskInv, Vouched
    <2>3. Complete(place, manifest)' /\ Complete(synced.place, synced.manifest)'
      BY <2>1, <2>2, NotOutput DEF Complete, NoManifest
    <2> QED
      BY <2>1, <2>3, <1>0, DiskStays
  <1>14. CASE RemoveState
    BY <1>14 DEF RemoveState, DiskInv, Vouched, Complete, durable
  <1>15. CASE Kill
    <2>1. CASE UNCHANGED <<shards, jsonl>>
      BY <1>15, <2>1, DiskSame DEF Kill
    <2>2. CASE pc = "save" /\ shards' = Append(SubSeq(shards, 1, Len(table)), Torn) /\ jsonl' = jsonl
      <3>1. /\ shards = table /\ sealed = Len(table) /\ place = "staging"
            /\ UNCHANGED <<place, state, manifest, jsonl, sealed, flushed, synced>>
        BY <1>15, <2>2 DEF Kill, WorkInv, durable
      <3>2. shards' = Append(shards, Torn)
        BY <1>0, <2>2, <3>1, SubSeqFull
      <3>3. Len(shards') = Len(shards) + 1 /\ \A k \in 1 .. sealed : shards'[k] = shards[k]
        BY <1>0, <3>1, <3>2, Empties, AppendProperties
      <3>4. Complete(place, manifest)' /\ Complete(synced.place, synced.manifest)'
        BY <3>1, NotOutput DEF Complete
      <3> QED
        BY <3>1, <3>3, <3>4, <1>0, DiskStays
    <2>3. CASE pc = "lines" /\ shards' = shards
      <3>1. /\ place = "staging"
            /\ UNCHANGED <<place, state, manifest, shards, sealed, flushed, synced>>
        BY <1>15, <2>3 DEF Kill, WorkInv, durable
      <3>2. flushed <= Len(jsonl') /\ \A n \in 1 .. flushed : jsonl'[n] = jsonl[n]
        <4>1. Len(jsonl) <= Len(jsonl') /\ \A n \in 1 .. Len(jsonl) : jsonl'[n] = jsonl[n]
          BY <1>15, LinesOnlyGrow
        <4>2. Len(jsonl') \in Nat
          BY LenProperties DEF TypeOK
        <4> QED
          BY <4>1, <4>2, <1>0
      <3>3. Complete(place, manifest)' /\ Complete(synced.place, synced.manifest)'
        BY <3>1, NotOutput DEF Complete
      <3> QED
        BY <3>1, <3>2, <3>3, <1>0, DiskStays
    <2> QED
      BY <1>15, <2>1, <2>2, <2>3 DEF Kill
  <1>16. CASE JournalCommit
    <2>1. /\ synced'.place = place /\ synced'.state = state /\ synced'.manifest = manifest
          /\ UNCHANGED <<place, state, manifest, shards, jsonl, sealed, flushed>>
      BY <1>16 DEF JournalCommit, Names, files
    <2>2. Complete(place, manifest)' /\ Complete(synced.place, synced.manifest)'
      BY <2>1 DEF Complete, DiskInv
    <2> QED
      BY <2>1, <2>2, <1>0, DiskStays
  <1>17. CASE PowerLoss
    BY <1>17, PowerLossKeepsDisk
  <1>18. CASE UNCHANGED vars
    BY <1>18, DiskSame DEF vars, files
  <1> QED
    BY <1>1, <1>2, <1>3, <1>4, <1>5, <1>6, <1>7, <1>8, <1>9, <1>10, <1>11, <1>12, <1>13, <1>14,
       <1>15, <1>16, <1>17, <1>18 DEF Next, Open, Flush, Closing
-----------------------------------------------------------------------------
(***************************************************************************)
(* The names, and the writer's memory.                                     *)
(***************************************************************************)
LEMMA NamesKept ==
    ASSUME TypeOK, NamesInv, WorkInv, [Next]_vars
    PROVE  NamesInv'
  <1>1. CASE CreateStaging
    BY <1>1 DEF CreateStaging, StartJob, NamesInv, durable
  <1>2. CASE WriteFirstState
    <2>1. /\ place = "staging" /\ place' = "staging" /\ synced'.place = "staging"
          /\ state' = [shards |-> <<>>, size |-> 0, next |-> 0]
      BY <1>2 DEF WriteFirstState, WorkInv, Commit
    <2>2. state' # NoState
      BY <2>1 DEF NoState
    <2> QED
      BY <2>1, <2>2 DEF NamesInv
  <1>3. CASE Restore
    BY <1>3 DEF Restore, Restorable, NamesInv
  <1>4. CASE RefuseStaging
    BY <1>4 DEF RefuseStaging, NamesInv, files, durable
  <1>5. ASSUME NEW i \in Indices, Add(i)
        PROVE  NamesInv'
    BY <1>5 DEF Add, AddRow, AddAfterFlush, files, durable, NamesInv, WorkInv
  <1>6. CASE SaveShard \/ SealShard \/ AppendLines \/ SyncLines
    <2>1. /\ place = "staging" /\ state # NoState /\ place' = place /\ state' = state
          /\ synced'.place \in {place, synced.place} /\ synced.place # "none"
      BY <1>6 DEF SaveShard, SealShard, AppendLines, SyncLines, WorkInv, Commit, files, durable,
                  NamesInv
    <2> QED
      BY <2>1 DEF NamesInv
  <1>7. CASE ReplaceState
    <2>1. /\ place = "staging" /\ place' = "staging" /\ synced'.place = "staging"
          /\ state' = [shards |-> table, size |-> Len(jsonl), next |-> next]
          /\ Len(jsonl) \in Nat
      BY <1>7, LenProperties DEF ReplaceState, WorkInv, Commit, TypeOK
    <2>2. state' # NoState
      BY <2>1 DEF NoState
    <2> QED
      BY <2>1, <2>2 DEF NamesInv
  <1>8. CASE Finalize
    BY <1>8 DEF Finalize, files, durable, NamesInv, WorkInv
  <1>9. CASE WriteManifest
    BY <1>9 DEF WriteManifest, NamesInv, WorkInv, Names
  <1>10. CASE Publish
    BY <1>10 DEF Publish, NamesInv, WorkInv, durable
  <1>11. CASE RemoveState
    BY <1>11 DEF RemoveState, NamesInv, WorkInv, durable
  <1>12. CASE Kill
    <2>1. /\ pc' = "down" /\ UNCHANGED <<place, state, synced, sealed, flushed>>
          /\ pc \notin {"save", "lines"} => UNCHANGED <<shards, jsonl>>
          /\ pc \in {"save", "lines"} => state # NoState
      BY <1>12 DEF Kill, durable, WorkInv
    <2> QED
      BY <2>1 DEF NamesInv
  <1>13. CASE JournalCommit
    <2>1. /\ synced'.place = place /\ synced'.state = state
          /\ UNCHANGED <<pc, place, state, shards, jsonl, sealed, flushed>>
      BY <1>13 DEF JournalCommit, Names, files
    <2> QED
      BY <2>1 DEF NamesInv
  <1>14. CASE PowerLoss
    BY <1>14 DEF PowerLoss, NamesInv, durable
  <1>15. CASE UNCHANGED vars
    BY <1>15 DEF vars, files, durable, NamesInv
  <1> QED
    BY <1>1, <1>2, <1>3, <1>4, <1>5, <1>6, <1>7, <1>8, <1>9, <1>10, <1>11, <1>12, <1>13, <1>14,
       <1>15 DEF Next, Open, Flush, Closing

\* An accepted row comes after those that wait.
LEMMA AddKeepsWork ==
    ASSUME TypeOK, TypeOK', WorkInv, NEW i \in Indices, Add(i)
    PROVE  WorkInv'
  <1>0. /\ pc = "ready" /\ Accepts(i) /\ i \in Int /\ last \in Int /\ next \in Int
        /\ rows \in Seq(Row) /\ Len(rows) \in Nat /\ state.next = next
        /\ \A j \in 1 .. Len(rows) : rows[j].index \in Int
        /\ place = "staging" /\ state # NoState /\ RowsInv /\ carry = <<>>
        /\ rows # <<>> => Len(rows) \in 1 .. Len(rows)
    <2>1. pc = "ready" /\ Accepts(i)
      BY DEF Add, AddRow, AddAfterFlush
    <2>2. rows \in Seq(Row) /\ Len(rows) \in Nat /\ last \in Int /\ next \in Int /\ i \in Int
      BY LenProperties, DatasetAssumption DEF TypeOK, Indices
    <2>3. ASSUME NEW j \in 1 .. Len(rows)
          PROVE  rows[j].index \in Int
      <3>1. rows[j] \in Row
        BY <2>2, ElementOfSeq
      <3> QED
        BY <3>1 DEF Row, Indices
    <2>4. rows # <<>> => Len(rows) \in 1 .. Len(rows)
      BY <2>2, EmptySeq
    <2>5. place = "staging" /\ state # NoState /\ RowsInv /\ state.next = next
      BY <2>1 DEF WorkInv
    <2>6. carry = <<>>
      BY <2>1, <2>5 DEF RowsInv
    <2> QED
      BY <2>1, <2>2, <2>3, <2>4, <2>5, <2>6
  <1>1. CASE AddRow(i)
    <2>1. rows' = Append(rows, [index |-> i, job |-> job]) /\ last' = i /\ carry' = <<>>
          /\ pc' \in {"ready", "save"}
          /\ UNCHANGED <<job, place, state, table, next, shards, jsonl, sealed, flushed>>
      BY <1>1, <1>0 DEF AddRow, files, durable
    <2>2. job > 0 /\ [index |-> i, job |-> job] \in Row
      <3>1. job > 0 /\ job \in 0 .. MaxJob
        BY <1>0 DEF WorkInv, TypeOK
      <3> QED
        BY <3>1, JobAssumption DEF Row
    <2>3. /\ Len(rows') = Len(rows) + 1 /\ rows' # <<>>
          /\ \A j \in 1 .. Len(rows) : rows'[j] = rows[j]
          /\ rows'[Len(rows) + 1] = [index |-> i, job |-> job]
      BY <2>1, <2>2, <1>0, AppendProperties
    <2>4. rows'[Len(rows')].index = i
      BY <2>3
    <2>5. \A j \in 1 .. Len(rows) : rows[j].index < i
      <3>1. SUFFICES ASSUME NEW j \in 1 .. Len(rows)
                     PROVE  rows[j].index < i
        OBVIOUS
      <3>2. rows # <<>> /\ Len(rows) \in 1 .. Len(rows) /\ rows[Len(rows)].index <= last /\ last < i
        BY <1>0, EmptySeq DEF RowsInv, Accepts
      <3>3. j = Len(rows) \/ rows[j].index < rows[Len(rows)].index
        BY <1>0, <3>2 DEF RowsInv, Ascending
      <3> QED
        BY <3>2, <3>3, <1>0
    <2>6. Ascending(rows)'
      <3>1. SUFFICES ASSUME NEW j \in 1 .. Len(rows) + 1, NEW k \in 1 .. Len(rows) + 1, j < k
                     PROVE  rows'[j].index < rows'[k].index
        BY <2>3 DEF Ascending
      <3>2. CASE k = Len(rows) + 1
        <4>1. j \in 1 .. Len(rows) /\ rows'[j].index < i
          BY <3>1, <3>2, <1>0, <2>3, <2>5
        <4> QED
          BY <4>1, <3>2, <2>3, <2>4
      <3>3. CASE k # Len(rows) + 1
        <4>1. j \in 1 .. Len(rows) /\ k \in 1 .. Len(rows)
          BY <3>1, <3>3, <1>0
        <4> QED
          BY <4>1, <3>1, <1>0, <2>3 DEF RowsInv, Ascending
      <3> QED
        BY <3>2, <3>3
    <2>7. rows'[1].index >= state'.next
      <3>1. CASE rows = <<>>
        <4>1. Len(rows) = 0
          BY <3>1
        <4>2. rows'[1].index = i
          BY <4>1, <2>3
        <4> QED
          BY <4>2, <2>1, <1>0 DEF Accepts
      <3>2. CASE rows # <<>>
        <4>1. 1 \in 1 .. Len(rows)
          BY <3>2, <1>0
        <4> QED
          BY <3>2, <4>1, <2>1, <2>3, <1>0 DEF RowsInv
      <3> QED
        BY <3>1, <3>2
    <2>8. RowsInv'
      <3>1. i <= last'
        BY <2>1, <1>0
      <3> QED
        BY <3>1, <2>1, <2>3, <2>4, <2>6, <2>7 DEF RowsInv
    <2> QED
      BY <2>1, <2>8, <1>0 DEF WorkInv
  <1>2. CASE AddAfterFlush(i)
    <2>1. carry' = << [index |-> i, job |-> job] >> /\ pc' = "save" /\ rows # <<>>
          /\ UNCHANGED <<job, rows, place, state, table, next, last, shards, jsonl, sealed, flushed>>
      BY <1>2 DEF AddAfterFlush, files, durable
    <2>2. Len(carry') = 1 /\ carry'[1].index = i
      BY <2>1
    <2>3. i > rows[Len(rows)].index
      BY <2>1, <1>0 DEF RowsInv, Accepts
    <2>4. RowsInv'
      BY <2>1, <2>2, <2>3, <1>0 DEF RowsInv, Ascending
    <2> QED
      BY <2>1, <2>4, <1>0 DEF WorkInv
  <1> QED
    BY <1>1, <1>2 DEF Add

LEMMA WorkKept ==
    ASSUME TypeOK, TypeOK', DiskInv, DiskInv', NamesInv, WorkInv, [Next]_vars
    PROVE  WorkInv'
  <1>0. /\ Len(shards) \in Nat /\ Len(jsonl) \in Nat /\ Len(table) \in Nat /\ Len(rows) \in Nat
        /\ shards \in Seq(Shard) /\ jsonl \in Seq(Line) /\ rows \in Shard /\ table \in Seq(Shard)
        /\ job \in Nat
    BY Lengths DEF TypeOK, Shard
  <1>1. CASE CreateStaging
    BY <1>1, <1>0 DEF CreateStaging, StartJob, Forget, WorkInv, NamesInv, durable
  <1>2. CASE WriteFirstState
    <2>1. /\ shards' = <<>> /\ jsonl' = <<>> /\ sealed' = 0 /\ flushed' = 0 /\ place' = "staging"
          /\ state' = [shards |-> <<>>, size |-> 0, next |-> 0] /\ pc' = "ready"
          /\ rows' = <<>> /\ carry' = <<>> /\ table' = <<>> /\ next' = 0 /\ job' = job /\ job > 0
      BY <1>2 DEF WriteFirstState, WorkInv, Commit, memory
    <2>2. state' # NoState /\ state'.shards = <<>> /\ state'.size = 0 /\ state'.next = 0
      BY <2>1 DEF NoState
    <2>3. RowsInv'
      BY <2>1 DEF RowsInv, Ascending
    <2> QED
      BY <2>1, <2>2, <2>3 DEF WorkInv
  <1>3. CASE Restore
    <2>1. /\ state # NoState /\ state' = state /\ place' = "staging" /\ pc' = "ready"
          /\ shards' = state.shards /\ sealed' = Len(state.shards)
          /\ jsonl' = SubSeq(jsonl, 1, state.size) /\ flushed' = state.size
          /\ rows' = <<>> /\ carry' = <<>> /\ table' = state.shards /\ next' = state.next
          /\ job' > 0
      BY <1>3, <1>0 DEF Restore, Restorable, Forget, StartJob
    <2>2. Len(jsonl') = state.size
      BY <2>1, <1>0, CursorInRange, FrontOf
    <2>3. RowsInv'
      BY <2>1 DEF RowsInv, Ascending
    <2> QED
      BY <2>1, <2>2, <2>3 DEF WorkInv
  <1>4. CASE RefuseStaging
    BY <1>4 DEF RefuseStaging, StartJob, WorkInv
  <1>5. ASSUME NEW i \in Indices, Add(i)
        PROVE  WorkInv'
    BY <1>5, AddKeepsWork
  <1>6. CASE SaveShard
    <2>1. shards = table
      BY <1>6 DEF SaveShard, WorkInv
    <2>2. shards' = Append(table, rows)
      BY <1>6, <1>0, <2>1, SubSeqFull DEF SaveShard
    <2> QED
      BY <1>6, <2>2 DEF SaveShard, WorkInv, RowsInv, Ascending, memory, durable
  <1>7. CASE SealShard
    <2>1. shards = Append(table, rows) /\ table = state.shards
      BY <1>7 DEF SealShard, WorkInv
    <2>2. shards[Len(table) + 1] = rows /\ Len(shards) = Len(table) + 1
      BY <2>1, <1>0, AppendProperties
    <2>3. table' = Append(state.shards, rows) /\ shards' = table' /\ sealed' = Len(table')
      BY <1>7, <2>1, <2>2 DEF SealShard, files
    <2> QED
      BY <1>7, <2>3 DEF SealShard, WorkInv, RowsInv, Ascending, files
  <1>8. CASE AppendLines
    <2>1. /\ state # NoState /\ table = Append(state.shards, rows) /\ RowsInv /\ rows # <<>>
          /\ state.size = Len(jsonl) /\ jsonl' = jsonl \o NewLines /\ pc' = "sync"
          /\ UNCHANGED <<job, rows, carry, table, next, last, place, state, shards, sealed, flushed>>
      BY <1>8 DEF AppendLines, WorkInv, RowsInv, memory, durable
    <2>2. Vouched(state) /\ state.shards \in Seq(Shard)
      BY <2>1 DEF DiskInv, TypeOK, BuildState
    <2>3. Holds(jsonl, state.shards)
      BY <2>1, <2>2, <1>0, SubSeqFull DEF Vouched
    <2>4. jsonl # <<>> => rows[1].index > jsonl[Len(jsonl)].row.index
      <3>1. SUFFICES ASSUME jsonl # <<>>
                     PROVE  rows[1].index > jsonl[Len(jsonl)].row.index
        OBVIOUS
      <3>2. Len(jsonl) # 0
        BY <3>1, <1>0, EmptySeq
      <3>3. state.next = jsonl[Len(jsonl)].row.index + 1 /\ state.next <= rows[1].index
        BY <2>1, <2>2, <3>2 DEF Vouched, RowsInv
      <3>4. jsonl[Len(jsonl)].row \in Row \cup {NoRow}
        <4>1. jsonl[Len(jsonl)] \in Line
          BY <1>0, <3>2, ElementOfSeq
        <4> QED
          BY <4>1 DEF Line
      <3>5. jsonl[Len(jsonl)].row.index \in Int
        BY <3>4 DEF Row, NoRow, Indices
      <3>6. rows[1] \in Row
        BY <2>1, <1>0, EmptySeq, ElementOfSeq DEF Shard
      <3>7. rows[1].index \in Int
        BY <3>6 DEF Row, Indices
      <3> QED
        BY <3>3, <3>5, <3>7
    <2>5. Len(table) = Len(state.shards) + 1
      BY <2>1, <2>2, <1>0, AppendProperties
    <2>6. /\ NewLines \in Seq(Line) /\ Len(NewLines) = Len(rows)
          /\ \A j \in 1 .. Len(rows) :
                NewLines[j] = [row |-> rows[j], shard |-> Len(state.shards) + 1, pos |-> j]
      BY <2>5, NewLinesAre
    <2>7. /\ Holds(jsonl', table) /\ jsonl' # <<>>
          /\ jsonl'[Len(jsonl')].row = rows[Len(rows)]
      <3>1. Ascending(rows)
        BY <2>1 DEF RowsInv
      <3> QED
        BY <2>1, <2>2, <2>3, <2>4, <2>6, <3>1, <1>0, HoldsMore, ZenonT(30)
    <2>8. state.size <= Len(jsonl')
      <3>1. Len(jsonl') = Len(jsonl) + Len(NewLines)
        BY <2>1, <2>6, <1>0, ConcatProperties
      <3> QED
        BY <2>1, <2>6, <3>1, <1>0
    <2>9. RowsInv' /\ job > 0 /\ place = "staging" /\ shards = table /\ sealed = Len(table)
      BY <1>8, <2>1 DEF RowsInv, Ascending, WorkInv, AppendLines
    <2> QED
      BY <2>1, <2>7, <2>8, <2>9 DEF WorkInv
  <1>9. CASE SyncLines
    BY <1>9 DEF SyncLines, WorkInv, RowsInv, Ascending, files
  <1>10. CASE ReplaceState
    <2>1. /\ state' = [shards |-> table, size |-> Len(jsonl), next |-> next]
          /\ rows' = carry /\ carry' = <<>> /\ place' = place
          /\ last' = IF carry = <<>> THEN last ELSE carry[1].index
          /\ UNCHANGED <<job, table, next, shards, jsonl, sealed, flushed>>
      BY <1>10 DEF ReplaceState
    <2>2. /\ job > 0 /\ place = "staging" /\ RowsInv /\ table = Append(state.shards, rows)
          /\ shards = table /\ sealed = Len(table) /\ flushed = Len(jsonl)
          /\ next = rows[Len(rows)].index + 1 /\ state # NoState
      BY <1>10 DEF ReplaceState, WorkInv
    <2>3. /\ state' # NoState /\ state'.shards = table /\ state'.size = Len(jsonl)
          /\ state'.next = next
      BY <2>1, <1>0 DEF NoState
    <2>4. table # <<>>
      <3>1. state.shards \in Seq(Shard)
        BY DEF TypeOK, BuildState
      <3> QED
        BY <2>2, <3>1, <1>0, AppendProperties
    <2>5. carry # <<>> => carry[1].index >= next
      <3>1. SUFFICES ASSUME carry # <<>>
                     PROVE  carry[1].index >= next
        OBVIOUS
      <3>2. /\ rows # <<>> /\ Len(carry) = 1 /\ carry[1].index > rows[Len(rows)].index
        BY <2>2, <3>1 DEF RowsInv
      <3>3. rows[Len(rows)] \in Row /\ carry[1] \in Row
        <4>1. /\ rows \in Seq(Row) /\ Len(rows) \in 1 .. Len(rows)
              /\ carry \in Seq(Row) /\ 1 \in 1 .. Len(carry)
          BY <3>2, <1>0, EmptySeq DEF TypeOK
        <4> QED
          BY <4>1, ElementOfSeq
      <3>4. rows[Len(rows)].index \in Int /\ carry[1].index \in Int
        BY <3>3 DEF Row, Indices
      <3> QED
        BY <3>2, <3>4, <2>2
    <2>6. CASE pc' = "manifest"
      BY <2>1, <2>2, <2>3, <2>4, <2>6 DEF WorkInv
    <2>7. CASE pc' \in {"ready", "save"}
      <3>1. pc' = "save" => rows' # <<>>
        BY <1>10, <2>1, <2>7 DEF ReplaceState
      <3>2. Ascending(rows)'
        BY <2>1, <2>2 DEF RowsInv, Ascending
      <3>3. rows' # <<>> => rows'[Len(rows')].index <= last' /\ rows'[1].index >= state'.next
        <4>1. SUFFICES ASSUME carry # <<>>
                       PROVE  carry[Len(carry)].index <= last' /\ carry[1].index >= next
          BY <2>1, <2>3
        <4>2. Len(carry) = 1 /\ carry[1] \in Row
          BY <2>2, <4>1, EmptySeq, ElementOfSeq, SMTT(30) DEF RowsInv, TypeOK
        <4>3. carry[1].index \in Int
          BY <4>2 DEF Row, Indices
        <4> QED
          BY <4>1, <4>2, <4>3, <2>1, <2>5
      <3>4. RowsInv'
        BY <2>1, <2>7, <3>1, <3>2, <3>3 DEF RowsInv
      <3> QED
        BY <2>1, <2>2, <2>3, <2>7, <3>4 DEF WorkInv
    <2> QED
      BY <1>10, <2>6, <2>7 DEF ReplaceState
  <1>11. CASE Finalize
    <2>1. /\ UNCHANGED <<job, rows, carry, table, next, last, place, state, manifest, shards, jsonl,
                         sealed, flushed>>
          /\ pc = "ready"
          /\ pc' = IF rows # <<>> THEN "save" ELSE IF table # <<>> THEN "manifest" ELSE "down"
      BY <1>11 DEF Finalize, files, durable
    <2>2. CASE rows # <<>>
      <3>1. RowsInv /\ pc' = "save"
        BY <2>1, <2>2 DEF WorkInv
      <3>2. RowsInv'
        BY <2>1, <2>2, <3>1 DEF RowsInv, Ascending
      <3> QED
        BY <2>1, <3>1, <3>2 DEF WorkInv
    <2>3. CASE rows = <<>>
      BY <2>1, <2>3 DEF WorkInv
    <2> QED
      BY <2>2, <2>3
  <1>12. CASE WriteManifest
    BY <1>12 DEF WriteManifest, WorkInv, memory
  <1>13. CASE Publish \/ RemoveState \/ Kill \/ PowerLoss
    BY <1>13 DEF Publish, RemoveState, Kill, PowerLoss, WorkInv, memory
  <1>14. CASE JournalCommit \/ UNCHANGED vars
    <2>1. UNCHANGED <<job, pc, rows, carry, table, next, last, place, state, manifest, shards,
                      jsonl, sealed, flushed>>
      BY <1>14 DEF JournalCommit, vars, memory, files, durable
    <2> QED
      BY <2>1 DEF WorkInv, RowsInv, Ascending
  <1> QED
    BY <1>1, <1>2, <1>3, <1>4, <1>5, <1>6, <1>7, <1>8, <1>9, <1>10, <1>11, <1>12, <1>13, <1>14
       DEF Next, Open, Flush, Closing
-----------------------------------------------------------------------------
(***************************************************************************)
(* What the invariant shows of the writer.                                 *)
(***************************************************************************)
LEMMA WriterInit ==
    ASSUME Init
    PROVE  WriterInv
  <1>1. TypeOK
    <2>1. \A S : <<>> \in Seq(S)
      BY Empties
    <2>2. NoState \in BuildState
      BY Empties
    <2>3. 0 \in 0 .. MaxJob /\ 0 \in 0 .. Length /\ -1 \in -1 .. Length - 1
      BY DatasetAssumption, JobAssumption
    <2>4. synced \in [place : {"none", "staging", "output"}, state : BuildState,
                      manifest : Seq(Shard)]
      BY <2>1, <2>2 DEF Init, Names, NoManifest
    <2> QED
      BY <2>1, <2>2, <2>3, <2>4 DEF Init, TypeOK, NoManifest
  <1>2. DiskInv /\ NamesInv /\ WorkInv
    BY DEF Init, Names, DiskInv, NamesInv, WorkInv, Complete
  <1> QED
    BY <1>1, <1>2 DEF WriterInv

LEMMA WriterStepKeeps ==
    ASSUME WriterInv, [Next]_vars
    PROVE  WriterInv'
  <1> USE DEF WriterInv
  <1>1. TypeOK'
    BY TypeKept
  <1>2. DiskInv'
    BY <1>1, DiskKept
  <1>3. NamesInv'
    BY NamesKept
  <1>4. WorkInv'
    BY <1>1, <1>2, WorkKept
  <1> QED
    BY <1>1, <1>2, <1>3, <1>4

LEMMA WriterAlways ==
    Spec => []WriterInv
  <1>1. Init => WriterInv
    BY WriterInit
  <1>2. WriterInv /\ [Next]_vars => WriterInv'
    BY WriterStepKeeps
  <1> QED
    BY <1>1, <1>2, PTL DEF Spec

\* The published artifact is whole, whatever happened while it was built and whatever
\* happens to the machine afterwards.
THEOREM ArtifactIsWhole ==
    Spec => []PublishedIsWhole
  <1>1. WriterInv => PublishedIsWhole
    BY DEF WriterInv, DiskInv, Complete, Holds, PublishedIsWhole
  <1> QED
    BY <1>1, WriterAlways, PTL

\* A staging directory with a build state can be resumed, without scoring a committed row
\* again.
THEOREM JobsResume ==
    Spec => []StagingResumable
  <1>1. ASSUME WriterInv
        PROVE  StagingResumable
    <2> SUFFICES ASSUME place = "staging", state # NoState
                 PROVE  /\ Restorable
                        /\ Resolve(SubSeq(jsonl, 1, state.size), state.shards)
                        /\ state.next = IF state.size = 0 THEN 0
                                        ELSE jsonl[state.size].row.index + 1
      BY DEF StagingResumable
    <2>1. /\ Vouched(state) /\ sealed <= Len(shards) /\ flushed <= Len(jsonl) /\ TypeOK
      BY <1>1 DEF WriterInv, DiskInv
    <2>2. /\ Len(state.shards) \in Nat /\ sealed \in Nat /\ flushed \in Nat
          /\ Len(shards) \in Nat /\ Len(jsonl) \in Nat
      BY <2>1, Lengths
    <2>3. Len(state.shards) <= Len(shards) /\ state.size <= Len(jsonl)
      BY <2>1, <2>2 DEF Vouched
    <2> QED
      BY <2>1, <2>3 DEF Vouched, Holds, Restorable
  <1> QED
    BY <1>1, WriterAlways, PTL

\* What a build state vouches for is in every later one and in the manifest.
LEMMA ShardsKept ==
    ASSUME WriterInv, [Next]_vars
    PROVE  \/ PowerLoss
           \/ /\ state # NoState /\ state' # NoState => Begins(state.shards, state'.shards)
              /\ place # "output" /\ place' = "output" => Begins(state.shards, manifest')
           \/ UNCHANGED vars
  <1>0. state.shards \in Seq(Shard) /\ Len(state.shards) \in Nat
    BY LenProperties DEF WriterInv, TypeOK, BuildState
  <1>1. Begins(state.shards, state.shards)
    BY <1>0 DEF Begins
  <1>2. CASE ReplaceState
    <2>1. state'.shards = Append(state.shards, rows) /\ place' = place /\ rows \in Shard
      BY <1>2 DEF ReplaceState, WriterInv, WorkInv, TypeOK, Shard
    <2>2. /\ Len(state'.shards) = Len(state.shards) + 1
          /\ \A k \in 1 .. Len(state.shards) : state'.shards[k] = state.shards[k]
      BY <2>1, <1>0, AppendProperties
    <2>3. Begins(state.shards, state'.shards)
      BY <2>2, <1>0 DEF Begins
    <2> QED
      BY <2>1, <2>3
  <1>3. CASE Publish
    <2>1. manifest' = state.shards /\ state' = state
      BY <1>3 DEF Publish, WriterInv, WorkInv
    <2> QED
      BY <2>1, <1>1
  <1>4. CASE WriteFirstState
    BY <1>4 DEF WriteFirstState, WriterInv, WorkInv
  <1>5. CASE RemoveState
    BY <1>5 DEF RemoveState, WriterInv, WorkInv
  <1>6. CASE /\ ~ReplaceState /\ ~Publish /\ ~WriteFirstState /\ ~RemoveState /\ ~PowerLoss
             /\ ~ UNCHANGED vars
    <2>1. state' = state /\ (place' = place \/ place' = "staging")
      BY <1>6 DEF Next, Open, Flush, Closing, CreateStaging, Restore, RefuseStaging, Add, AddRow,
                  AddAfterFlush, SaveShard, SealShard, AppendLines, SyncLines, Finalize,
                  WriteManifest, Kill, JournalCommit, files
    <2> QED
      BY <2>1, <1>1
  <1> QED
    BY <1>2, <1>3, <1>4, <1>5, <1>6

\* What a build state vouches for stays: every later state and the published manifest begin
\* with the same shards, unless a power loss takes the names back.
THEOREM ShardsStay ==
    Spec => CommittedShardsKept
  <1>1. WriterInv /\ [Next]_vars =>
           [\/ PowerLoss
            \/ /\ state # NoState /\ state' # NoState => Begins(state.shards, state'.shards)
               /\ place # "output" /\ place' = "output" => Begins(state.shards, manifest')]_vars
    BY ShardsKept
  <1> QED
    BY <1>1, WriterAlways, PTL DEF Spec, CommittedShardsKept

\* What a reader of lines obtains when the shards they name are those of the manifest.
RowsRead(lines, content) ==
    [n \in 1 .. Len(lines) |->
        IF /\ lines[n].shard \in 1 .. Len(content)
           /\ lines[n].pos \in 1 .. Len(content[lines[n].shard])
        THEN content[lines[n].shard][lines[n].pos] ELSE NoRow]

LEMMA RowsReadAre ==
    ASSUME NEW lines \in Seq(Line), NEW content \in Seq(Shard), content # <<>>,
           Holds(lines, content)
    PROVE  /\ RowsRead(lines, content) # <<>>
           /\ \A n \in 1 .. Len(RowsRead(lines, content)) : RowsRead(lines, content)[n] \in Row
           /\ Artifact!InSourceOrder(RowsRead(lines, content))
  <1> DEFINE seen == RowsRead(lines, content)
  <1>1. Len(lines) \in Nat /\ Len(lines) # 0
    BY EmptySeq DEF Holds
  <1>2. ASSUME NEW n \in 1 .. Len(lines)
        PROVE  /\ lines[n].shard \in 1 .. Len(content)
               /\ lines[n].pos \in 1 .. Len(content[lines[n].shard])
               /\ content[lines[n].shard][lines[n].pos] = lines[n].row
               /\ lines[n].row \in Row
    <2>1. /\ lines[n].shard \in 1 .. Len(content)
          /\ lines[n].pos \in 1 .. Len(content[lines[n].shard])
          /\ content[lines[n].shard][lines[n].pos] = lines[n].row
      BY DEF Holds, Resolve
    <2>2. content[lines[n].shard] \in Seq(Row)
      BY <2>1, ElementOfSeq DEF Shard
    <2> QED
      BY <2>1, <2>2, ElementOfSeq
  <1>3. seen = [n \in 1 .. Len(lines) |-> lines[n].row]
    BY <1>2 DEF RowsRead
  <1>4. seen \in [1 .. Len(lines) -> Row]
    BY <1>2, <1>3
  <1>5. seen \in Seq(Row) /\ Len(seen) = Len(lines)
    BY <1>1, <1>4, SeqFromFunction
  <1>6. \A n, m \in 1 .. Len(lines) : n < m => lines[n].row.index < lines[m].row.index
    BY DEF Holds, Resolve
  <1>7. \A n \in 1 .. Len(lines) : seen[n] = lines[n].row
    BY <1>3
  <1> HIDE DEF seen
  <1>8. Artifact!InSourceOrder(seen)
    BY <1>5, <1>6, <1>7 DEF Artifact!InSourceOrder
  <1>9. seen # <<>>
    BY <1>1, <1>5
  <1>10. \A n \in 1 .. Len(seen) : seen[n] \in Row
    BY <1>4, <1>5
  <1> QED
    BY <1>8, <1>9, <1>10 DEF seen

\* What a reader obtains of a published artifact.
LEMMA ViewIs ==
    ASSUME TypeOK, DiskInv
    PROVE  place = "output" =>
               /\ manifest \in Seq(Shard) /\ jsonl \in Seq(Line) /\ manifest # <<>>
               /\ Holds(jsonl, manifest) /\ View = RowsRead(jsonl, manifest)
  <1>1. SUFFICES ASSUME place = "output"
                 PROVE  /\ manifest \in Seq(Shard) /\ jsonl \in Seq(Line) /\ manifest # <<>>
                        /\ Holds(jsonl, manifest) /\ View = RowsRead(jsonl, manifest)
    OBVIOUS
  <1>2. /\ manifest \in Seq(Shard) /\ jsonl \in Seq(Line) /\ manifest # <<>>
        /\ Holds(jsonl, manifest) /\ manifest = shards /\ Len(manifest) \in Nat
    BY <1>1, LenProperties DEF DiskInv, Complete, NoManifest, TypeOK
  <1>3. \A n \in 1 .. Len(jsonl) :
           Read(jsonl[n]) = IF /\ jsonl[n].shard \in 1 .. Len(manifest)
                               /\ jsonl[n].pos \in 1 .. Len(manifest[jsonl[n].shard])
                            THEN manifest[jsonl[n].shard][jsonl[n].pos] ELSE NoRow
    BY <1>2 DEF Read
  <1> QED
    BY <1>1, <1>2, <1>3 DEF View, RowsRead

\* Once published, the artifact's content stays, but for a power loss that undoes it.
LEMMA OutputStays ==
    ASSUME WriterInv, [Next]_vars, place = "output"
    PROVE  /\ place' = "output" =>
                 /\ shards' = shards /\ jsonl' = jsonl /\ manifest' = manifest
                 /\ synced'.place \in {synced.place, "output"}
           /\ place' # "output" => synced.place # "output" /\ synced' = synced
  <1>1. pc \in {"down", "clean"}
    BY DEF WriterInv, WorkInv, TypeOK
  <1>2. CASE RemoveState \/ Kill \/ UNCHANGED vars
    BY <1>1, <1>2 DEF RemoveState, Kill, vars, files, durable
  <1>3. CASE JournalCommit
    BY <1>3 DEF JournalCommit, Names, files
  <1>4. CASE PowerLoss
    <2>1. place' = synced.place /\ manifest' = synced.manifest /\ synced' = synced
      BY <1>4 DEF PowerLoss, durable
    <2>2. CASE synced.place = "output"
      <3>1. shards' = shards /\ jsonl' = jsonl
        BY <1>4, <2>2, TypeKept, PowerLossKeepsDisk DEF WriterInv, Next
      <3>2. synced.manifest = manifest
        BY <2>2 DEF WriterInv, DiskInv, Complete
      <3> QED
        BY <2>1, <2>2, <3>1, <3>2
    <2> QED
      BY <2>1, <2>2
  <1>5. CASE \/ RemoveState \/ Kill \/ UNCHANGED vars \/ JournalCommit \/ PowerLoss
    BY <1>2, <1>3, <1>4, <1>5
  <1>6. CASE ~ (\/ RemoveState \/ Kill \/ UNCHANGED vars \/ JournalCommit \/ PowerLoss)
    BY <1>1, <1>6 DEF Next, Open, Flush, Closing, CreateStaging, Restore, RefuseStaging, Add, AddRow,
                  AddAfterFlush, SaveShard, SealShard, AppendLines, SyncLines, ReplaceState,
                  Finalize, WriteManifest, WriteFirstState, Publish
  <1> QED
    BY <1>5, <1>6

\* Nothing else puts the output's name in place.
LEMMA OnlyPublish ==
    ASSUME WriterInv, [Next]_vars, place # "output", place' = "output"
    PROVE  Publish
  BY DEF Next, vars, Open, Flush, Closing, CreateStaging, Restore, RefuseStaging, Add,
         AddRow, AddAfterFlush, SaveShard, SealShard, AppendLines, SyncLines,
         ReplaceState, Finalize, WriteManifest, WriteFirstState, RemoveState, Kill,
         JournalCommit, PowerLoss, files, WriterInv, NamesInv, WorkInv

\* Each step of the writer is one of the artifact that a reader sees, or none.
LEMMA StepIsArtifactStep ==
    ASSUME WriterInv, WriterInv', [Next]_vars
    PROVE  Artifact!Next \/ UNCHANGED <<View, synced.place = "output">>
  <1>1. CASE place # "output" /\ place' # "output"
    <2>1. View = <<>> /\ View' = <<>>
      BY <1>1 DEF View
    <2>2. synced.place # "output" /\ synced'.place # "output"
      BY <1>1 DEF WriterInv, NamesInv
    <2> QED
      BY <2>1, <2>2
  <1>2. CASE place # "output" /\ place' = "output"
    <2>1. Publish
      BY <1>2, OnlyPublish
    <2>2. synced' = synced /\ synced.place # "output"
      BY <1>2, <2>1, NotOutput DEF Publish, durable, WriterInv
    <2>3. View = <<>>
      BY <1>2 DEF View
    <2>4. View' # <<>> /\ (\A n \in 1 .. Len(View') : View'[n] \in Row)
          /\ Artifact!InSourceOrder(View')
      <3>1. /\ manifest = table /\ Holds(jsonl, table) /\ manifest = shards /\ manifest # <<>>
            /\ jsonl \in Seq(Line) /\ manifest \in Seq(Shard) /\ Len(manifest) \in Nat
            /\ UNCHANGED <<manifest, jsonl, shards>>
        <4>1. /\ manifest = table /\ shards = table /\ table # <<>> /\ state # NoState
              /\ table = state.shards /\ state.size = Len(jsonl)
              /\ UNCHANGED <<manifest, jsonl, shards>>
          BY <2>1 DEF Publish, WriterInv, WorkInv
        <4>2. jsonl \in Seq(Line) /\ manifest \in Seq(Shard) /\ SubSeq(jsonl, 1, Len(jsonl)) = jsonl
          BY SubSeqFull DEF WriterInv, TypeOK
        <4>3. Holds(jsonl, table)
          BY <4>1, <4>2 DEF WriterInv, DiskInv, Vouched
        <4> QED
          BY <4>1, <4>2, <4>3, LenProperties
      <3>2. View' = RowsRead(jsonl, manifest)
        <4>1. \A n \in 1 .. Len(jsonl) :
                 Read(jsonl[n])' = IF /\ jsonl[n].shard \in 1 .. Len(manifest)
                                      /\ jsonl[n].pos \in 1 .. Len(manifest[jsonl[n].shard])
                                   THEN manifest[jsonl[n].shard][jsonl[n].pos] ELSE NoRow
          BY <3>1 DEF Read
        <4> QED
          BY <1>2, <3>1, <4>1 DEF View, RowsRead
      <3> QED
        BY <3>1, <3>2, RowsReadAre
    <2> QED
      BY <2>2, <2>3, <2>4 DEF Artifact!Next, Artifact!Publish
  <1>3. CASE place = "output" /\ place' = "output"
    <2>1. View' = View
      BY <1>3, OutputStays DEF View, Read
    <2>2. View # <<>>
      BY <1>3, ViewIs, RowsReadAre DEF WriterInv
    <2>3. \/ synced'.place = synced.place
          \/ synced'.place = "output"
      BY <1>3, OutputStays
    <2>4. CASE synced'.place = synced.place
      BY <2>1, <2>4
    <2>5. CASE synced'.place = "output"
      BY <2>1, <2>2, <2>5 DEF Artifact!Next, Artifact!Settle
    <2> QED
      BY <2>3, <2>4, <2>5
  <1>4. CASE place = "output" /\ place' # "output"
    <2>1. synced.place # "output" /\ synced' = synced
      BY <1>4, OutputStays
    <2>2. View' = <<>>
      BY <1>4 DEF View
    <2> QED
      BY <2>1, <2>2 DEF Artifact!Next, Artifact!Undo
  <1> QED
    BY <1>1, <1>2, <1>3, <1>4

\* A reader sees no artifact or a whole one, and never two different ones.
THEOREM WriterImplementsArtifact ==
    Spec => ImplementsArtifact
  <1>1. Init => Artifact!Init
    BY DEF Init, Artifact!Init, View, Names
  <1>2. WriterInv /\ WriterInv' /\ [Next]_vars => [Artifact!Next]_(Artifact!vars)
    BY StepIsArtifactStep DEF Artifact!vars
  <1> QED
    BY <1>1, <1>2, WriterAlways, PTL DEF Spec, ImplementsArtifact, Artifact!Spec
-----------------------------------------------------------------------------
(***************************************************************************)
(* The pipeline: what it has submitted is accounted for.                   *)
(***************************************************************************)
Working == pc \in {"ready", "save", "seal", "lines", "sync", "replace"}

\* The members of a sequence.
In(s) == {s[k] : k \in 1 .. Len(s)}

Submitted == In(order)
Waiting   == {rows[j].index : j \in 1 .. Len(rows)} \cup {carry[j].index : j \in 1 .. Len(carry)}
Excused   == Denied \cup logged

\* The loop knows where each submitted row is; between two rounds the oldest one is running.
LoopInv ==
    /\ PipelineTypeOK
    /\ active \cup completed = Submitted /\ active \cap completed = {}
    /\ rejected \subseteq logged
    /\ \A j, k \in 1 .. Len(order) : j < k => order[j] < order[k]
    /\ \A k \in 1 .. Len(order) : order[k] < cursor
    /\ phase \in {"refill", "wait"} => ReadyRows = {}
    /\ phase = "drain" => order = <<>> /\ completed = {} /\ cursor = Length

\* A row that comes after all those that the writer has been given.
Ahead(i) ==
    /\ Accepts(i)
    /\ rows # <<>> => i > rows[Len(rows)].index
    /\ carry # <<>> => i > carry[1].index

\* The writer is given the rows in order, and every row before the cursor is somewhere.
HandoverInv ==
    /\ closing => carry = <<>>
    /\ pc \in {"first", "ready"} => ~closing
    /\ Working =>
           /\ Ahead(cursor) /\ \A i \in Submitted : Ahead(i)
           /\ 0 .. cursor - 1 \subseteq Excused \cup Published \cup Waiting \cup Submitted
           /\ closing => phase = "drain"

\* A build state's cursor passes no row over.
Covers(st) ==
    0 .. st.next - 1 \subseteq Excused \cup {jsonl[n].row.index : n \in 1 .. st.size}

CoverInv ==
    /\ state # NoState => Covers(state)
    /\ synced.state # NoState => Covers(synced.state)
    /\ pc \in {"manifest", "publish"} \/ place = "output" => Indices \subseteq Excused \cup Published

PipelineInv == WriterInv /\ LoopInv /\ HandoverInv /\ CoverInv

LEMMA AppendIn ==
    ASSUME NEW S, NEW s \in Seq(S), NEW e \in S
    PROVE  In(Append(s, e)) = In(s) \cup {e}
  <1>1. /\ Len(s) \in Nat /\ Len(Append(s, e)) = Len(s) + 1
        /\ \A k \in 1 .. Len(s) : Append(s, e)[k] = s[k]
        /\ Append(s, e)[Len(s) + 1] = e
    BY AppendProperties, LenProperties
  <1>2. \A k \in 1 .. Len(s) + 1 : Append(s, e)[k] \in In(s) \cup {e}
    BY <1>1 DEF In
  <1>3. \A x \in In(s) \cup {e} : \E k \in 1 .. Len(s) + 1 : x = Append(s, e)[k]
    BY <1>1 DEF In
  <1> QED
    BY <1>1, <1>2, <1>3 DEF In

LEMMA TailIn ==
    ASSUME NEW s \in Seq(Int), s # <<>>, \A j, k \in 1 .. Len(s) : j < k => s[j] < s[k]
    PROVE  /\ Head(s) = s[1] /\ Head(s) \in In(s)
           /\ In(Tail(s)) = In(s) \ {Head(s)}
           /\ \A i \in In(s) : Head(s) <= i
           /\ Tail(s) \in Seq(Int) /\ Len(Tail(s)) = Len(s) - 1 /\ Len(s) \in Nat
           /\ \A k \in 1 .. Len(Tail(s)) : Tail(s)[k] = s[k + 1]
           /\ \A j, k \in 1 .. Len(Tail(s)) : j < k => Tail(s)[j] < Tail(s)[k]
  <1>1. /\ Head(s) = s[1] /\ Tail(s) \in Seq(Int) /\ Len(Tail(s)) = Len(s) - 1
        /\ \A k \in 1 .. Len(Tail(s)) : Tail(s)[k] = s[k + 1]
        /\ Len(s) \in Nat /\ Len(s) > 0
    BY HeadTailProperties, EmptySeq
  <1>2. \A k \in 1 .. Len(s) : s[k] \in Int
    BY ElementOfSeq
  <1>3. Head(s) \in In(s) /\ \A i \in In(s) : Head(s) <= i
    <2>1. ASSUME NEW k \in 1 .. Len(s)
          PROVE  s[1] <= s[k]
      <3>1. k = 1 \/ 1 < k
        OBVIOUS
      <3> QED
        BY <3>1, <1>1, <1>2
    <2>2. s[1] \in In(s)
      BY <1>1 DEF In
    <2> QED
      BY <2>1, <2>2, <1>1 DEF In
  <1>4. In(Tail(s)) \subseteq In(s) \ {Head(s)}
    <2>1. ASSUME NEW k \in 1 .. Len(Tail(s))
          PROVE  Tail(s)[k] \in In(s) /\ Tail(s)[k] # Head(s)
      <3>1. k + 1 \in 1 .. Len(s) /\ 1 \in 1 .. Len(s) /\ 1 < k + 1 /\ Tail(s)[k] = s[k + 1]
        BY <1>1
      <3>2. s[1] < s[k + 1] /\ s[1] \in Int /\ s[k + 1] \in Int
        BY <3>1, <1>2
      <3>3. s[k + 1] \in In(s)
        BY <3>1 DEF In
      <3> QED
        BY <3>1, <3>2, <3>3, <1>1
    <2> QED
      BY <2>1 DEF In
  <1>5. In(s) \ {Head(s)} \subseteq In(Tail(s))
    <2>1. ASSUME NEW k \in 1 .. Len(s), s[k] # Head(s)
          PROVE  s[k] \in In(Tail(s))
      <3>1. k # 1
        BY <2>1, <1>1
      <3>2. k - 1 \in 1 .. Len(Tail(s)) /\ s[(k - 1) + 1] = s[k]
        BY <3>1, <1>1
      <3>3. Tail(s)[k - 1] = s[k]
        BY <3>2, <1>1
      <3> QED
        BY <3>2, <3>3 DEF In
    <2> QED
      BY <2>1 DEF In
  <1>6. \A j, k \in 1 .. Len(Tail(s)) : j < k => Tail(s)[j] < Tail(s)[k]
    <2>1. SUFFICES ASSUME NEW j \in 1 .. Len(Tail(s)), NEW k \in 1 .. Len(Tail(s)), j < k
                   PROVE  Tail(s)[j] < Tail(s)[k]
      OBVIOUS
    <2>2. /\ j + 1 \in 1 .. Len(s) /\ k + 1 \in 1 .. Len(s) /\ j + 1 < k + 1
          /\ Tail(s)[j] = s[j + 1] /\ Tail(s)[k] = s[k + 1]
      BY <2>1, <1>1
    <2> QED
      BY <2>2
  <1> QED
    BY <1>1, <1>3, <1>4, <1>5, <1>6

\* Each step of the pipeline is one of the writer, or none.
LEMMA PipelineStepsWriter ==
    ASSUME PipelineTypeOK, [PipelineNext]_allvars
    PROVE  [Next]_vars
  <1>1. CASE OpenWriter \/ WriterStep \/ Disturbed
    BY <1>1 DEF OpenWriter, WriterStep, Disturbed, Next
  <1>2. CASE CommitRow
    <2>1. PICK i \in ReadyRows \ rejected : Add(i)
      BY <1>2 DEF CommitRow
    <2>2. i \in Indices
      BY DEF ReadyRows, PipelineTypeOK
    <2> QED
      BY <2>1, <2>2 DEF Next
  <1>3. CASE Drain
    <2>1. CASE Finalize
      BY <2>1 DEF Next
    <2>2. CASE pc' = "down" /\ UNCHANGED <<job, memory, files, durable>>
      <3>1. Kill
        BY <1>3, <2>2 DEF Drain, Turn, Kill, files
      <3> QED
        BY <3>1 DEF Next
    <2> QED
      BY <1>3, <2>1, <2>2 DEF Drain
  <1>4. CASE \/ Submit \/ Refilled \/ Wait \/ TakeRow \/ TakeBadCase \/ TakenAll
             \/ SkipBadCase \/ CommittedAll \/ UNCHANGED allvars
    BY <1>4 DEF Submit, Refilled, Wait, TakeRow, TakeBadCase, TakenAll, SkipBadCase, CommittedAll,
                allvars
  <1> QED
    BY <1>1, <1>2, <1>3, <1>4 DEF PipelineNext, Loop

\* The oldest submitted row is the only one that can be committed.
LEMMA ReadyIs ==
    ASSUME PipelineTypeOK
    PROVE  /\ order \in Seq(Int) /\ Len(order) \in Nat
           /\ ReadyRows = IF order # <<>> THEN {order[1]} \cap completed ELSE {}
  <1>1. order \in Seq(Indices) /\ Indices \subseteq Int
    BY DEF PipelineTypeOK, Indices
  <1>2. order \in Seq(Int) /\ Len(order) \in Nat
    BY <1>1, SeqMonotonic, LenProperties
  <1>3. order # <<>> => Head(order) = order[1]
    BY <1>2, HeadTailProperties
  <1> QED
    BY <1>2, <1>3 DEF ReadyRows

LEMMA LoopStays ==
    ASSUME LoopInv, UNCHANGED loop, logged \subseteq logged', logged' \subseteq Indices
    PROVE  LoopInv'
  BY DEF LoopInv, loop, PipelineTypeOK, ReadyRows, Submitted, In

LEMMA SubmitKeepsLoop ==
    ASSUME LoopInv, Submit
    PROVE  LoopInv'
  <1>1. PICK i \in cursor .. Length - 1 :
           /\ active' = active \cup {i} /\ order' = Append(order, i) /\ cursor' = i + 1
    BY DEF Submit
  <1>2. UNCHANGED <<phase, done, completed, rejected, logged>> /\ phase = "refill"
    BY DEF Submit, Turn
  <1>3. /\ i \in Indices /\ i \in Int /\ cursor \in Int /\ cursor <= i /\ i < Length /\ i + 1 \in 0 .. Length
        /\ order \in Seq(Indices) /\ Len(order) \in Nat /\ Indices \subseteq Int
    BY LenProperties, DatasetAssumption DEF LoopInv, PipelineTypeOK, Indices
  <1>4. /\ order' \in Seq(Indices) /\ Len(order') = Len(order) + 1 /\ order' # <<>>
        /\ \A k \in 1 .. Len(order) : order'[k] = order[k] /\ order[k] \in Int /\ order[k] < cursor
        /\ order'[Len(order) + 1] = i
    <2>1. /\ order' \in Seq(Indices) /\ Len(order') = Len(order) + 1 /\ order' # <<>>
          /\ \A k \in 1 .. Len(order) : order'[k] = order[k]
          /\ order'[Len(order) + 1] = i
      BY <1>1, <1>3, AppendProperties
    <2>2. \A k \in 1 .. Len(order) : order[k] \in Int
      BY <1>3, ElementOfSeq
    <2>3. \A k \in 1 .. Len(order) : order[k] < cursor
      BY DEF LoopInv
    <2> QED
      BY <2>1, <2>2, <2>3
  <1>5. Submitted' = Submitted \cup {i}
    BY <1>1, <1>3, AppendIn DEF Submitted
  <1>6. i \notin completed
    <2>1. \A x \in Submitted : x < cursor /\ x \in Int
      BY <1>4 DEF Submitted, In
    <2>2. completed \subseteq Submitted
      BY DEF LoopInv
    <2> QED
      BY <1>3, <2>1, <2>2
  <1>7. \A j, k \in 1 .. Len(order') : j < k => order'[j] < order'[k]
    <2>1. SUFFICES ASSUME NEW j \in 1 .. Len(order) + 1, NEW k \in 1 .. Len(order) + 1, j < k
                   PROVE  order'[j] < order'[k]
      BY <1>4
    <2>2. j \in 1 .. Len(order)
      BY <2>1, <1>3
    <2>3. CASE k = Len(order) + 1
      BY <2>2, <2>3, <1>3, <1>4
    <2>4. CASE k \in 1 .. Len(order)
      BY <2>1, <2>2, <2>4, <1>4 DEF LoopInv
    <2> QED
      BY <2>3, <2>4, <1>3
  <1>8. \A k \in 1 .. Len(order') : order'[k] < cursor'
    <2>1. SUFFICES ASSUME NEW k \in 1 .. Len(order) + 1
                   PROVE  order'[k] < i + 1
      BY <1>1, <1>4
    <2>2. CASE k = Len(order) + 1
      BY <2>2, <1>3, <1>4
    <2>3. CASE k \in 1 .. Len(order)
      BY <2>3, <1>3, <1>4
    <2> QED
      BY <2>2, <2>3, <1>3
  <1>9. PipelineTypeOK'
    BY <1>1, <1>2, <1>3, <1>4 DEF LoopInv, PipelineTypeOK
  <1>10. ReadyRows' = {}
    <2>1. order'[1] \notin completed
      <3>1. CASE order = <<>>
        <4>1. Len(order) = 0
          BY <3>1
        <4> QED
          BY <4>1, <1>4, <1>6
      <3>2. CASE order # <<>>
        <4>1. 1 \in 1 .. Len(order)
          BY <3>2, <1>3, EmptySeq
        <4>2. order[1] \notin completed
          BY <3>2, <1>2, ReadyIs DEF LoopInv
        <4> QED
          BY <4>1, <4>2, <1>4
      <3> QED
        BY <3>1, <3>2
    <2>2. Head(order') = order'[1]
      BY <1>4, HeadTailProperties
    <2> QED
      BY <2>1, <2>2, <1>2 DEF ReadyRows
  <1> QED
    BY <1>1, <1>2, <1>5, <1>6, <1>7, <1>8, <1>9, <1>10 DEF LoopInv

\* The row that leaves the order is its first one.
LEMMA PopKeepsLoop ==
    ASSUME LoopInv, phase = "commit", phase' = "commit", NEW i \in ReadyRows,
           order' = Tail(order), completed' = completed \ {i}, rejected' = rejected \ {i},
           UNCHANGED <<cursor, active, done, logged>>
    PROVE  LoopInv'
  <1>1. /\ order # <<>> /\ i = order[1] /\ i \in completed /\ order \in Seq(Int)
    BY ReadyIs DEF LoopInv
  <1>2. \A j, k \in 1 .. Len(order) : j < k => order[j] < order[k]
    BY DEF LoopInv
  <1>3. /\ Head(order) = order[1] /\ Submitted' = Submitted \ {i} /\ Len(order) \in Nat
        /\ Len(order') = Len(order) - 1
        /\ \A k \in 1 .. Len(order') : order'[k] = order[k + 1]
        /\ \A j, k \in 1 .. Len(order') : j < k => order'[j] < order'[k]
    BY <1>1, <1>2, TailIn DEF Submitted
  <1>4. order' \in Seq(Indices)
    BY <1>1, HeadTailProperties DEF LoopInv, PipelineTypeOK
  <1>5. \A k \in 1 .. Len(order') : order'[k] < cursor'
    BY <1>3 DEF LoopInv
  <1>6. active' \cup completed' = Submitted' /\ active' \cap completed' = {}
    BY <1>1, <1>3 DEF LoopInv
  <1>7. PipelineTypeOK' /\ rejected' \subseteq logged'
    BY <1>4 DEF LoopInv, PipelineTypeOK
  <1> QED
    BY <1>3, <1>5, <1>6, <1>7 DEF LoopInv

LEMMA LoopKept ==
    ASSUME TypeOK', LoopInv, [PipelineNext]_allvars
    PROVE  LoopInv'
  <1>1. CASE OpenWriter
    <2>1. CASE pc' = "ready"
      <3>1. /\ phase' = "refill" /\ cursor' = next' /\ active' = {} /\ done' = {} /\ order' = <<>>
            /\ completed' = {} /\ rejected' = {} /\ logged' = logged
        BY <1>1, <2>1 DEF OpenWriter
      <3>2. next' \in 0 .. Length
        BY DEF TypeOK
      <3>3. <<>> \in Seq(Indices) /\ Len(<<>>) = 0
        BY Empties
      <3> QED
        BY <3>1, <3>2, <3>3 DEF LoopInv, PipelineTypeOK, Submitted, In, ReadyRows
    <2>2. CASE pc' # "ready"
      BY <1>1, <2>2, LoopStays DEF OpenWriter, LoopInv, PipelineTypeOK
    <2> QED
      BY <2>1, <2>2
  <1>2. CASE Submit
    BY <1>2, SubmitKeepsLoop
  <1>3. CASE Refilled
    <2>1. /\ UNCHANGED <<active, done, order, completed, rejected, logged>>
          /\ phase = "refill" /\ cursor' = IF Room THEN Length ELSE cursor
          /\ phase' = IF active # {} THEN "wait" ELSE "drain"
      BY <1>3 DEF Refilled, Turn
    <2>2. cursor' \in 0 .. Length /\ cursor <= cursor' /\ cursor \in Int
      BY <2>1, DatasetAssumption DEF LoopInv, PipelineTypeOK
    <2>3. \A k \in 1 .. Len(order) : order[k] < cursor'
      <3>1. ASSUME NEW k \in 1 .. Len(order)
            PROVE  order[k] < cursor'
        <4>1. order[k] < cursor /\ order[k] \in Int
          BY ReadyIs, ElementOfSeq DEF LoopInv
        <4> QED
          BY <4>1, <2>2
      <3> QED
        BY <3>1
    <2>4. ReadyRows' = {}
      BY <2>1 DEF LoopInv, ReadyRows
    <2>5. active = {} => order = <<>> /\ completed = {} /\ cursor' = Length
      <3>1. SUFFICES ASSUME active = {}
                     PROVE  order = <<>> /\ completed = {} /\ cursor' = Length
        OBVIOUS
      <3>2. order = <<>>
        <4>1. SUFFICES ASSUME order # <<>>
                       PROVE  FALSE
          OBVIOUS
        <4>2. 1 \in 1 .. Len(order)
          BY <4>1, ReadyIs, EmptySeq DEF LoopInv
        <4>3. order[1] \in completed
          BY <4>2, <3>1 DEF LoopInv, Submitted, In
        <4> QED
          BY <4>1, <4>3, <2>1, ReadyIs DEF LoopInv
      <3>3. completed = {}
        <4>1. Len(order) = 0
          BY <3>2
        <4> QED
          BY <4>1 DEF LoopInv, Submitted, In
      <3>4. Room
        <4>1. Cardinality({}) = 0
          BY FS_EmptySet
        <4> QED
          BY <3>1, <3>3, <4>1, PipelineAssumption DEF Room
      <3> QED
        BY <2>1, <3>2, <3>3, <3>4
    <2>6. PipelineTypeOK'
      BY <2>1, <2>2 DEF LoopInv, PipelineTypeOK
    <2> QED
      BY <2>1, <2>3, <2>4, <2>5, <2>6 DEF LoopInv, Submitted, In
  <1>4. CASE Wait
    BY <1>4 DEF Wait, Turn, LoopInv, PipelineTypeOK, Submitted, In
  <1>5. CASE TakeRow \/ TakeBadCase
    <2>1. PICK i \in done :
             /\ done' = done \ {i} /\ active' = active \ {i} /\ completed' = completed \cup {i}
             /\ \/ rejected' = rejected /\ logged' = logged
                \/ rejected' = rejected \cup {i} /\ logged' = logged \cup {i}
      BY <1>5 DEF TakeRow, TakeBadCase
    <2>2. UNCHANGED <<phase, cursor, order>> /\ phase = "take"
      BY <1>5 DEF TakeRow, TakeBadCase, Turn
    <2>3. i \in active /\ i \in Indices
      BY DEF LoopInv, PipelineTypeOK
    <2>4. PipelineTypeOK' /\ rejected' \subseteq logged'
      BY <2>1, <2>2, <2>3 DEF LoopInv, PipelineTypeOK
    <2>5. active' \cup completed' = Submitted' /\ active' \cap completed' = {}
      BY <2>1, <2>2, <2>3 DEF LoopInv, Submitted, In
    <2> QED
      BY <2>2, <2>4, <2>5 DEF LoopInv
  <1>6. CASE TakenAll
    BY <1>6 DEF TakenAll, Turn, LoopInv, PipelineTypeOK, Submitted, In
  <1>7. CASE CommitRow
    <2>1. PICK i \in ReadyRows \ rejected : order' = Tail(order) /\ completed' = completed \ {i}
      BY <1>7 DEF CommitRow
    <2>2. UNCHANGED <<phase, cursor, active, done, rejected, logged>> /\ phase = "commit"
      BY <1>7 DEF CommitRow, Turn
    <2>3. rejected' = rejected \ {i}
      BY <2>1, <2>2
    <2> QED
      BY <2>1, <2>2, <2>3, PopKeepsLoop
  <1>8. CASE SkipBadCase
    <2>1. PICK i \in ReadyRows \cap rejected :
             order' = Tail(order) /\ completed' = completed \ {i} /\ rejected' = rejected \ {i}
      BY <1>8 DEF SkipBadCase
    <2>2. UNCHANGED <<phase, cursor, active, done, logged>> /\ phase = "commit"
      BY <1>8 DEF SkipBadCase, Turn
    <2> QED
      BY <2>1, <2>2, PopKeepsLoop
  <1>9. CASE CommittedAll
    BY <1>9 DEF CommittedAll, Turn, LoopInv, PipelineTypeOK, Submitted, In, ReadyRows
  <1>10. CASE Drain \/ WriterStep \/ Disturbed \/ UNCHANGED allvars
    <2>1. UNCHANGED loop /\ logged' = logged
      BY <1>10 DEF Drain, WriterStep, Disturbed, allvars, pipeline
    <2> QED
      BY <2>1, LoopStays DEF LoopInv, PipelineTypeOK
  <1> QED
    BY <1>1, <1>2, <1>3, <1>4, <1>5, <1>6, <1>7, <1>8, <1>9, <1>10 DEF PipelineNext, Loop

LEMMA AheadUp ==
    ASSUME TypeOK, NEW i \in Int, NEW k \in Int, Ahead(i), i <= k
    PROVE  Ahead(k)
  <1>1. next \in Int /\ last \in Int
    BY DatasetAssumption DEF TypeOK
  <1>2. rows # <<>> => rows[Len(rows)].index \in Int
    <2>1. rows # <<>> => rows[Len(rows)] \in Row
      BY EmptySeq, LenProperties, ElementOfSeq DEF TypeOK
    <2> QED
      BY <2>1 DEF Row, Indices
  <1>3. carry # <<>> => carry[1].index \in Int
    <2>1. carry # <<>> => carry[1] \in Row
      BY EmptySeq, LenProperties, ElementOfSeq DEF TypeOK
    <2> QED
      BY <2>1 DEF Row, Indices
  <1>4. Accepts(k)
    BY <1>1 DEF Ahead, Accepts
  <1> QED
    BY <1>2, <1>3, <1>4 DEF Ahead

\* Before the build state is replaced, the rows of the shard are in train.jsonl.
LEMMA RowsPublished ==
    ASSUME WriterInv, pc = "replace"
    PROVE  {rows[j].index : j \in 1 .. Len(rows)} \subseteq Published
  <1>1. /\ table = Append(state.shards, rows) /\ Resolve(jsonl, table)
        /\ state.shards \in Seq(Shard) /\ rows \in Shard
    BY DEF WriterInv, WorkInv, Holds, TypeOK, BuildState, Shard
  <1>2. /\ Len(state.shards) \in Nat /\ Len(table) = Len(state.shards) + 1
        /\ table[Len(state.shards) + 1] = rows
    BY <1>1, AppendProperties, LenProperties
  <1>3. ASSUME NEW j \in 1 .. Len(rows)
        PROVE  rows[j].index \in Published
    <2>1. Len(table) \in 1 .. Len(table) /\ table[Len(table)] = rows
      BY <1>2
    <2>2. PICK n \in 1 .. Len(jsonl) : jsonl[n].shard = Len(table) /\ jsonl[n].pos = j
      BY <1>1, <2>1, ZenonT(30) DEF Resolve
    <2>3. jsonl[n].row = rows[j]
      BY <1>1, <2>1, <2>2 DEF Resolve
    <2> QED
      BY <2>3 DEF Published
  <1> QED
    BY <1>3

\* A step that leaves the writer's memory as it is, and drops no line.
LEMMA HandoverStays ==
    ASSUME HandoverInv, logged \subseteq logged', Published \subseteq Published',
           UNCHANGED <<rows, carry, next, last, closing, cursor, order>>, phase' = phase \/ ~closing,
           Working' => Working, pc' \in {"first", "ready"} => pc \in {"first", "ready"}
    PROVE  HandoverInv'
  <1>1. /\ Waiting' = Waiting /\ Submitted' = Submitted /\ Excused \subseteq Excused'
    BY DEF Waiting, Submitted, In, Excused
  <1>2. \A i : Ahead(i)' <=> Ahead(i)
    BY DEF Ahead, Accepts
  <1>3. closing' => carry' = <<>>
    BY DEF HandoverInv
  <1>4. pc' \in {"first", "ready"} => ~closing'
    BY DEF HandoverInv
  <1>5. Working' => /\ Ahead(cursor)' /\ (\A i \in Submitted' : Ahead(i)')
                    /\ 0 .. cursor' - 1 \subseteq Excused' \cup Published' \cup Waiting' \cup Submitted'
                    /\ closing' => phase' = "drain"
    BY <1>1, <1>2 DEF HandoverInv, Ahead, Accepts
  <1> QED
    BY <1>3, <1>4, <1>5 DEF HandoverInv

\* The integers below a bound, cut in two; and a predecessor.
LEMMA Cut ==
    \A c, d \in Int : 0 .. d - 1 \subseteq (0 .. c - 1) \cup (c .. d - 1)
  OBVIOUS

LEMMA Predecessor ==
    \A c, d \in Int : d = c - 1 => c >= c /\ c > d
  OBVIOUS

LEMMA HandoverTypes ==
    ASSUME TypeOK, PipelineTypeOK
    PROVE  /\ next \in Int /\ last \in Int /\ cursor \in Int /\ Length \in Nat
           /\ Len(rows) \in Nat /\ Len(carry) \in Nat /\ Len(jsonl) \in Nat
           /\ rows # <<>> => rows[Len(rows)].index \in Int
           /\ carry # <<>> => carry[1].index \in Int
           /\ Submitted \subseteq Int
  <1>1. rows # <<>> => rows[Len(rows)].index \in Int
    <2>1. rows # <<>> => rows[Len(rows)] \in Row
      BY EmptySeq, LenProperties, ElementOfSeq DEF TypeOK
    <2> QED
      BY <2>1 DEF Row, Indices
  <1>2. carry # <<>> => carry[1].index \in Int
    <2>1. carry # <<>> => carry[1] \in Row
      BY EmptySeq, LenProperties, ElementOfSeq DEF TypeOK
    <2> QED
      BY <2>1 DEF Row, Indices
  <1>3. Submitted \subseteq Int
    <2>1. order \in Seq(Int)
      BY ReadyIs
    <2>2. \A k \in 1 .. Len(order) : order[k] \in Int
      BY <2>1, ElementOfSeq
    <2> QED
      BY <2>2 DEF Submitted, In
  <1>4. next \in Int /\ last \in Int /\ cursor \in Int /\ Length \in Nat
    BY DatasetAssumption DEF TypeOK, PipelineTypeOK
  <1>5. Len(rows) \in Nat /\ Len(carry) \in Nat /\ Len(jsonl) \in Nat
    BY LenProperties DEF TypeOK
  <1> QED
    BY <1>1, <1>2, <1>3, <1>4, <1>5

\* A job that opens the writer begins at the cursor of the build state, which covers what is before.
LEMMA OpenHandsOver ==
    ASSUME WriterInv, WriterInv', LoopInv, HandoverInv, CoverInv, OpenWriter
    PROVE  HandoverInv'
  <1>1. CASE pc' = "ready"
    <2>1. /\ rows' = <<>> /\ carry' = <<>> /\ closing' = FALSE /\ last' = next' - 1
      BY <1>1 DEF OpenWriter, Open, CreateStaging, WriteFirstState, Restore, RefuseStaging,
                  StartJob, Forget, memory, WriterInv, WorkInv, HandoverInv
    <2>2. cursor' = next' /\ order' = <<>> /\ logged' = logged /\ next' \in Int
      BY <1>1, DatasetAssumption DEF OpenWriter, WriterInv, TypeOK
    <2>3. Ahead(cursor)'
      <3>1. cursor' >= next' /\ cursor' > last'
        <4>1. cursor' = next' /\ next' \in Int /\ last' \in Int /\ last' = next' - 1
          BY <2>1, <2>2, DatasetAssumption DEF WriterInv, TypeOK
        <4> QED
          BY <4>1, Predecessor
      <3> QED
        BY <2>1, <3>1 DEF Ahead, Accepts
    <2>4. Submitted' = {}
      <3>1. Len(order') = 0
        BY <2>2
      <3> QED
        BY <3>1 DEF Submitted, In
    <2>5. 0 .. next' - 1 \subseteq Excused' \cup Published'
      <3>1. CASE WriteFirstState
        <4>1. next' = 0
          BY <3>1 DEF WriteFirstState, WriterInv, WorkInv, memory
        <4> QED
          BY <4>1
      <3>2. CASE Restore
        <4>1. state # NoState /\ next' = state.next /\ jsonl' = SubSeq(jsonl, 1, state.size)
          BY <3>2 DEF Restore, Restorable
        <4>2. /\ 0 .. state.next - 1 \subseteq Excused \cup {jsonl[n].row.index : n \in 1 .. state.size}
          BY <4>1 DEF CoverInv, Covers
        <4>3. jsonl \in Seq(Line) /\ state.size \in 0 .. Len(jsonl)
          BY <4>1, CursorInRange DEF WriterInv, TypeOK
        <4>4. Len(jsonl') = state.size /\ \A n \in 1 .. state.size : jsonl'[n] = jsonl[n]
          BY <4>1, <4>3, FrontOf
        <4>5. {jsonl[n].row.index : n \in 1 .. state.size} \subseteq Published'
          BY <4>4 DEF Published
        <4> QED
          BY <4>1, <4>2, <4>5, <2>2 DEF Excused
      <3> QED
        BY <1>1, <3>1, <3>2 DEF OpenWriter, Open, CreateStaging, RefuseStaging, StartJob
    <2> QED
      BY <1>1, <2>1, <2>2, <2>3, <2>4, <2>5 DEF HandoverInv
  <1>2. CASE pc' # "ready"
    <2>1. \/ pc' = "first" /\ carry' = <<>> /\ closing' = FALSE
          \/ pc' = "down" /\ UNCHANGED memory
      BY <1>2 DEF OpenWriter, Open, CreateStaging, WriteFirstState, Restore, RefuseStaging,
                  StartJob, Forget
    <2> QED
      BY <2>1 DEF HandoverInv, Working, memory
  <1> QED
    BY <1>1, <1>2

\* The cursor only moves past rows that it submits and rows that are denied.
LEMMA RefillHandsOver ==
    ASSUME WriterInv, LoopInv, HandoverInv, Submit \/ Refilled
    PROVE  HandoverInv'
  <1>0. /\ pc = "ready" /\ Working /\ ~closing /\ UNCHANGED <<vars, logged>>
        /\ cursor \in Int /\ Length \in Nat /\ Submitted \subseteq Int /\ order \in Seq(Indices)
        /\ cursor <= Length
    BY HandoverTypes DEF Submit, Refilled, Turn, Working, WriterInv, LoopInv, PipelineTypeOK
  <1>1. Ahead(cursor) /\ \A i \in Submitted : Ahead(i)
    BY <1>0 DEF HandoverInv
  <1>2. 0 .. cursor - 1 \subseteq Excused \cup Published \cup Waiting \cup Submitted
    BY <1>0 DEF HandoverInv
  <1>3. \A k : Ahead(k)' <=> Ahead(k)
    BY <1>0 DEF Ahead, Accepts, vars, memory
  <1>4. Excused' = Excused /\ Published' = Published /\ Waiting' = Waiting
    BY <1>0 DEF Excused, Published, Waiting, vars, memory, files
  <1>5. Working' /\ ~closing'
    BY <1>0 DEF Working, vars, memory
  <1>6. /\ cursor' \in Int /\ cursor <= cursor'
        /\ Submitted \subseteq Submitted' /\ Submitted' \subseteq Submitted \cup cursor .. cursor' - 1
        /\ cursor .. cursor' - 1 \subseteq Denied \cup Submitted'
    <2>1. CASE Submit
      <3>1. PICK i \in cursor .. Length - 1 :
               cursor .. i - 1 \subseteq Denied /\ order' = Append(order, i) /\ cursor' = i + 1
        BY <2>1 DEF Submit
      <3>2. i \in Int /\ cursor <= i /\ i \in Indices
        BY <1>0, <3>1 DEF Indices, LoopInv, PipelineTypeOK
      <3>3. Submitted' = Submitted \cup {i}
        BY <1>0, <3>1, <3>2, AppendIn DEF Submitted
      <3>4. cursor .. cursor' - 1 = (cursor .. i - 1) \cup {i}
        BY <1>0, <3>1, <3>2
      <3> QED
        BY <1>0, <3>1, <3>2, <3>3, <3>4
    <2>2. CASE Refilled
      <3>1. /\ order' = order /\ cursor' = IF Room THEN Length ELSE cursor
            /\ Room => cursor .. Length - 1 \subseteq Denied
        BY <2>2 DEF Refilled
      <3>2. Submitted' = Submitted
        BY <3>1 DEF Submitted, In
      <3>3. cursor .. cursor - 1 = {}
        BY <1>0
      <3> QED
        BY <1>0, <3>1, <3>2, <3>3
    <2> QED
      BY <2>1, <2>2
  <1>7. Ahead(cursor') /\ \A i \in Submitted' : Ahead(i)
    <2>1. Ahead(cursor')
      BY <1>0, <1>1, <1>6, AheadUp DEF WriterInv
    <2>2. ASSUME NEW i \in cursor .. cursor' - 1
          PROVE  Ahead(i)
      BY <1>0, <1>1, <1>6, <2>2, AheadUp DEF WriterInv
    <2> QED
      BY <1>1, <1>6, <2>1, <2>2
  <1>8. 0 .. cursor' - 1 \subseteq Excused' \cup Published' \cup Waiting' \cup Submitted'
    <2>1. 0 .. cursor' - 1 \subseteq (0 .. cursor - 1) \cup (cursor .. cursor' - 1)
      BY <1>0, <1>6, Cut
    <2>2. Denied \subseteq Excused
      BY DEF Excused
    <2> QED
      BY <1>2, <1>4, <1>6, <2>1, <2>2
  <1>9. Ahead(cursor)' /\ \A i \in Submitted' : Ahead(i)'
    <2>1. Ahead(cursor)' <=> Ahead(cursor')
      BY <1>0 DEF Ahead, Accepts, vars, memory
    <2> QED
      BY <1>3, <1>7, <2>1
  <1> QED
    BY <1>5, <1>8, <1>9 DEF HandoverInv

\* The row that leaves the order comes before all others that are there.
LEMMA CommitHandsOver ==
    ASSUME WriterInv, LoopInv, HandoverInv, CommitRow \/ SkipBadCase
    PROVE  HandoverInv'
  <1>0. /\ pc = "ready" /\ Working /\ ~closing /\ UNCHANGED <<cursor, closing, logged>>
        /\ cursor \in Int /\ Submitted \subseteq Int /\ TypeOK /\ PipelineTypeOK
        /\ carry = <<>> /\ jsonl' = jsonl /\ next' = next
    <2>1. pc = "ready" /\ ~closing /\ UNCHANGED <<cursor, closing, logged, jsonl, next>>
      BY DEF CommitRow, SkipBadCase, Turn, Add, AddRow, AddAfterFlush, files, vars, memory
    <2>2. TypeOK /\ PipelineTypeOK /\ carry = <<>>
      BY <2>1 DEF WriterInv, LoopInv, WorkInv, RowsInv
    <2> QED
      BY <2>1, <2>2, HandoverTypes DEF Working
  <1>1. Ahead(cursor) /\ \A i \in Submitted : Ahead(i)
    BY <1>0 DEF HandoverInv
  <1>2. 0 .. cursor - 1 \subseteq Excused \cup Published \cup Waiting \cup Submitted
    BY <1>0 DEF HandoverInv
  <1>3. Excused' = Excused /\ Published' = Published
    BY <1>0 DEF Excused, Published
  <1>4. ASSUME NEW i, i \in ReadyRows, order' = Tail(order)
        PROVE  /\ i \in Submitted /\ Submitted' = Submitted \ {i} /\ i < cursor /\ i \in Indices
               /\ \A k \in Submitted' : i < k
    <2>1. order # <<>> /\ i = order[1] /\ order \in Seq(Int) /\ Len(order) \in Nat
      BY <1>0, <1>4, ReadyIs
    <2>2. \A j, k \in 1 .. Len(order) : j < k => order[j] < order[k]
      BY DEF LoopInv
    <2>3. i \in Submitted /\ Submitted' = Submitted \ {i} /\ \A k \in Submitted : i <= k
      BY <1>4, <2>1, <2>2, TailIn DEF Submitted
    <2>4. 1 \in 1 .. Len(order)
      BY <2>1, EmptySeq
    <2>5. i < cursor
      BY <2>1, <2>4 DEF LoopInv
    <2>6. i \in Indices
      BY <2>1, <2>4, <1>0, ElementOfSeq DEF PipelineTypeOK
    <2>7. \A k \in Submitted \ {i} : i < k
      BY <2>3, <1>0
    <2> QED
      BY <2>3, <2>5, <2>6, <2>7
  <1>5. CASE SkipBadCase
    <2>1. PICK i \in ReadyRows \cap rejected : order' = Tail(order)
      BY <1>5 DEF SkipBadCase
    <2>2. i \in Excused /\ Submitted' = Submitted \ {i}
      BY <1>4, <2>1 DEF LoopInv, Excused
    <2>3. UNCHANGED vars
      BY <1>5 DEF SkipBadCase
    <2>4. Waiting' = Waiting /\ Working' /\ \A k : Ahead(k)' <=> Ahead(k)
      BY <1>0, <2>3 DEF vars, memory, Waiting, Working, Ahead, Accepts
    <2>5. Ahead(cursor)' <=> Ahead(cursor)
      BY <1>0, <2>3 DEF vars, memory, Ahead, Accepts
    <2>6. 0 .. cursor' - 1 \subseteq Excused' \cup Published' \cup Waiting' \cup Submitted'
      BY <1>0, <1>2, <1>3, <2>2, <2>4
    <2> QED
      BY <1>0, <1>1, <2>2, <2>4, <2>5, <2>6 DEF HandoverInv
  <1>6. CASE CommitRow
    <2>1. PICK i \in ReadyRows \ rejected : order' = Tail(order) /\ Add(i)
      BY <1>6 DEF CommitRow
    <2>2. /\ i \in Submitted /\ Submitted' = Submitted \ {i} /\ i < cursor /\ i \in Int
          /\ \A k \in Submitted' : i < k
          /\ [index |-> i, job |-> job] \in Row
      <3>1. job \in 1 .. MaxJob
        BY <1>0, JobAssumption DEF WriterInv, WorkInv, TypeOK
      <3>2. i \in Indices
        BY <1>4, <2>1
      <3> QED
        BY <1>4, <2>1, <3>1, <3>2 DEF Row, Indices
    <2>3. ASSUME NEW k \in Int, i < k, Ahead(k)
          PROVE  /\ rows' = Append(rows, [index |-> i, job |-> job]) /\ last' = i /\ carry' = <<>>
                     => k >= next' /\ k > last' /\ (rows' # <<>> => k > rows'[Len(rows')].index)
                 /\ rows' = rows /\ last' = last /\ carry' = <<[index |-> i, job |-> job]>>
                     => k >= next' /\ k > last' /\ (rows' # <<>> => k > rows'[Len(rows')].index)
                        /\ k > carry'[1].index
      <3>1. k >= next /\ k > last /\ (rows # <<>> => k > rows[Len(rows)].index)
        BY <2>3 DEF Ahead, Accepts
      <3>2. Append(rows, [index |-> i, job |-> job])[Len(Append(rows, [index |-> i, job |-> job]))]
              = [index |-> i, job |-> job]
        BY <1>0, <2>2, AppendProperties DEF TypeOK
      <3>3. <<[index |-> i, job |-> job]>>[1].index = i
        OBVIOUS
      <3>4. [index |-> i, job |-> job].index = i
        OBVIOUS
      <3> QED
        BY <1>0, <2>3, <3>1, <3>2, <3>3, <3>4
    <2>4. \/ rows' = Append(rows, [index |-> i, job |-> job]) /\ last' = i /\ carry' = <<>>
          \/ rows' = rows /\ last' = last /\ carry' = <<[index |-> i, job |-> job]>>
      BY <1>0, <2>1 DEF Add, AddRow, AddAfterFlush
    <2>5. ASSUME NEW k \in Int, i < k, Ahead(k)
          PROVE  /\ k >= next' /\ k > last' /\ (rows' # <<>> => k > rows'[Len(rows')].index)
                 /\ carry' # <<>> => k > carry'[1].index
      BY <2>3, <2>4, <2>5
    <2>6. Waiting' = Waiting \cup {i}
      <3>1. CASE rows' = Append(rows, [index |-> i, job |-> job]) /\ carry' = <<>>
        <4>1. /\ Len(rows') = Len(rows) + 1 /\ rows'[Len(rows) + 1] = [index |-> i, job |-> job]
              /\ \A j \in 1 .. Len(rows) : rows'[j] = rows[j]
              /\ Len(rows) \in Nat
          BY <1>0, <2>2, <3>1, AppendProperties, LenProperties DEF TypeOK
        <4>2. rows'[Len(rows) + 1].index = i
          BY <4>1
        <4>3. {rows'[j].index : j \in 1 .. Len(rows')} = {rows[j].index : j \in 1 .. Len(rows)} \cup {i}
          <5>1. \A j \in 1 .. Len(rows') : j \in 1 .. Len(rows) \/ j = Len(rows) + 1
            BY <4>1
          <5>2. 1 .. Len(rows) \subseteq 1 .. Len(rows') /\ Len(rows) + 1 \in 1 .. Len(rows')
            BY <4>1
          <5> QED
            BY <4>1, <4>2, <5>1, <5>2
        <4>4. carry' = carry
          BY <1>0, <3>1
        <4> QED
          BY <4>3, <4>4 DEF Waiting
      <3>2. CASE rows' = rows /\ carry' = <<[index |-> i, job |-> job]>>
        <4>1. Len(carry') = 1 /\ carry'[1].index = i
          BY <3>2
        <4>2. {carry'[j].index : j \in 1 .. Len(carry')} = {i}
          BY <4>1
        <4>3. {carry[j].index : j \in 1 .. Len(carry)} = {}
          <5>1. Len(carry) = 0
            BY <1>0
          <5> QED
            BY <5>1
        <4> QED
          BY <3>2, <4>2, <4>3 DEF Waiting
      <3> QED
        BY <2>4, <3>1, <3>2
    <2>7. Working' /\ ~closing'
      BY <1>0, <2>1 DEF Add, AddRow, AddAfterFlush, Working
    <2>8. \A k \in Submitted' : Ahead(k)'
      <3>1. ASSUME NEW k \in Submitted'
            PROVE  Ahead(k)'
        <4>1. k \in Int /\ i < k /\ Ahead(k)
          BY <1>0, <1>1, <2>2
        <4> QED
          BY <4>1, <2>5 DEF Ahead, Accepts
      <3> QED
        BY <3>1
    <2>9. Ahead(cursor)'
      <3>1. /\ cursor >= next' /\ cursor > last' /\ (rows' # <<>> => cursor > rows'[Len(rows')].index)
            /\ carry' # <<>> => cursor > carry'[1].index
        BY <1>0, <1>1, <2>2, <2>5
      <3> QED
        BY <1>0, <3>1 DEF Ahead, Accepts
    <2>10. 0 .. cursor' - 1 \subseteq Excused' \cup Published' \cup Waiting' \cup Submitted'
      BY <1>0, <1>2, <1>3, <2>2, <2>6
    <2> QED
      BY <2>7, <2>8, <2>9, <2>10 DEF HandoverInv
  <1> QED
    BY <1>5, <1>6

\* Once the build state is replaced, the rows of the shard are published and wait no more.
LEMMA ReplaceHandsOver ==
    ASSUME WriterInv, LoopInv, HandoverInv, ReplaceState, UNCHANGED pipeline
    PROVE  HandoverInv'
  <1>0. /\ Working /\ TypeOK /\ PipelineTypeOK /\ RowsInv
        /\ UNCHANGED <<cursor, order, logged, phase, closing, jsonl, next>>
        /\ rows' = carry /\ carry' = <<>> /\ last' = IF carry = <<>> THEN last ELSE carry[1].index
        /\ closing => pc' = "manifest"
    BY DEF ReplaceState, pipeline, loop, Working, WriterInv, WorkInv, LoopInv
  <1>1. /\ Submitted' = Submitted /\ Excused' = Excused /\ Published' = Published
    BY <1>0 DEF Submitted, In, Excused, Published
  <1>2. carry # <<>> => Len(carry) = 1
    BY <1>0 DEF RowsInv
  <1>3. ASSUME NEW i, Ahead(i)
        PROVE  /\ i >= next' /\ i > last' /\ (rows' # <<>> => i > rows'[Len(rows')].index)
               /\ carry' = <<>>
    BY <1>0, <1>2, <1>3 DEF Ahead, Accepts
  <1>4. Ahead(cursor) /\ \A i \in Submitted : Ahead(i)
    BY <1>0 DEF HandoverInv
  <1>5. Ahead(cursor)'
    <2>1. /\ cursor >= next' /\ cursor > last' /\ (rows' # <<>> => cursor > rows'[Len(rows')].index)
          /\ carry' = <<>>
      BY <1>3, <1>4
    <2> QED
      BY <1>0, <2>1 DEF Ahead, Accepts
  <1>6. \A i \in Submitted' : Ahead(i)'
    BY <1>1, <1>3, <1>4 DEF Ahead, Accepts
  <1>7. Waiting \subseteq Published \cup Waiting'
    <2>1. {rows[j].index : j \in 1 .. Len(rows)} \subseteq Published
      BY RowsPublished DEF ReplaceState
    <2>2. {carry[j].index : j \in 1 .. Len(carry)} \subseteq Waiting'
      BY <1>0 DEF Waiting
    <2> QED
      BY <2>1, <2>2 DEF Waiting
  <1>8. 0 .. cursor - 1 \subseteq Excused \cup Published \cup Waiting \cup Submitted
    BY <1>0 DEF HandoverInv
  <1>9. 0 .. cursor' - 1 \subseteq Excused' \cup Published' \cup Waiting' \cup Submitted'
    BY <1>0, <1>1, <1>7, <1>8
  <1>10. closing' => carry' = <<>> /\ phase' = "drain" /\ pc' = "manifest"
    BY <1>0 DEF HandoverInv
  <1> QED
    BY <1>5, <1>6, <1>9, <1>10 DEF HandoverInv

LEMMA HandoverKept ==
    ASSUME WriterInv, WriterInv', LoopInv, HandoverInv, CoverInv, [PipelineNext]_allvars
    PROVE  HandoverInv'
  <1>1. CASE OpenWriter
    BY <1>1, OpenHandsOver
  <1>2. CASE Submit \/ Refilled
    BY <1>2, RefillHandsOver
  <1>3. CASE Wait \/ TakeRow \/ TakeBadCase \/ TakenAll \/ CommittedAll \/ UNCHANGED allvars
    <2>1. /\ UNCHANGED <<vars, cursor, order>> /\ logged \subseteq logged'
          /\ phase' = phase \/ ~closing
      BY <1>3 DEF Wait, TakeRow, TakeBadCase, TakenAll, CommittedAll, Turn, allvars, pipeline, loop
    <2>2. Published' = Published /\ Working' = Working
      BY <2>1 DEF vars, files, Published, Working
    <2> QED
      BY <2>1, <2>2, HandoverStays DEF vars, memory
  <1>4. CASE CommitRow \/ SkipBadCase
    BY <1>4, CommitHandsOver
  <1>5. CASE Drain
    <2>1. CASE pc' = "down"
      BY <1>5, <2>1 DEF Drain, Finalize, HandoverInv, Working, memory, WriterInv, WorkInv, RowsInv
    <2>2. CASE pc' # "down"
      <3>1. /\ Finalize /\ pc = "ready" /\ phase = "drain" /\ UNCHANGED pipeline /\ Working
            /\ closing' = TRUE /\ carry = <<>> /\ UNCHANGED <<rows, carry, next, last, jsonl>>
            /\ pc' # "ready" /\ pc' # "first"
        BY <1>5, <2>2 DEF Drain, Finalize, Turn, Working, WriterInv, WorkInv, RowsInv, files
      <3>2. /\ Submitted' = Submitted /\ Excused' = Excused /\ Published' = Published
            /\ Waiting' = Waiting /\ cursor' = cursor /\ phase' = "drain"
        BY <3>1 DEF Submitted, In, Excused, Published, Waiting, pipeline, loop
      <3>3. Ahead(cursor)' <=> Ahead(cursor)
        BY <3>1, <3>2 DEF Ahead, Accepts
      <3>4. \A i : Ahead(i)' <=> Ahead(i)
        BY <3>1, <3>2 DEF Ahead, Accepts
      <3> QED
        BY <3>1, <3>2, <3>3, <3>4 DEF HandoverInv
    <2> QED
      BY <2>1, <2>2
  <1>6. CASE WriterStep
    <2>0. /\ UNCHANGED <<cursor, order, logged, phase>> /\ logged \subseteq logged'
          /\ UNCHANGED pipeline
      BY <1>6 DEF WriterStep, pipeline, loop
    <2>1. CASE SaveShard \/ SealShard
      <3>1. /\ UNCHANGED <<rows, carry, next, last, closing, jsonl>> /\ Working
            /\ pc' \notin {"first", "ready"}
        BY <2>1 DEF SaveShard, SealShard, memory, files, Working
      <3>2. Published' = Published
        BY <3>1 DEF Published
      <3> QED
        BY <2>0, <3>1, <3>2, HandoverStays
    <2>2. CASE AppendLines
      <3>1. UNCHANGED <<rows, carry, next, last, closing>> /\ Working /\ pc' = "sync"
        BY <2>2 DEF AppendLines, memory, Working
      <3>2. Len(jsonl) <= Len(jsonl') /\ \A n \in 1 .. Len(jsonl) : jsonl'[n] = jsonl[n]
        BY <2>2, LinesOnlyGrow DEF WriterInv
      <3>3. Len(jsonl) \in Nat /\ Len(jsonl') \in Nat
        BY LenProperties DEF WriterInv, TypeOK
      <3>4. 1 .. Len(jsonl) \subseteq 1 .. Len(jsonl')
        BY <3>2, <3>3
      <3>5. Published \subseteq Published'
        BY <3>2, <3>4 DEF Published
      <3> QED
        BY <2>0, <3>1, <3>5, HandoverStays
    <2>3. CASE SyncLines
      <3>1. /\ UNCHANGED <<rows, carry, last, closing, jsonl>> /\ Working /\ pc' = "replace"
            /\ next' = rows[Len(rows)].index + 1 /\ rows # <<>>
        BY <2>3 DEF SyncLines, memory, files, Working, WriterInv, WorkInv, RowsInv
      <3>2. /\ Submitted' = Submitted /\ Excused' = Excused /\ Published' = Published
            /\ Waiting' = Waiting
        BY <2>0, <3>1 DEF Submitted, In, Excused, Published, Waiting
      <3>3. ASSUME NEW i \in Int, Ahead(i)
            PROVE  Accepts(i)' /\ Ahead(i)'
        <4>1. i > rows[Len(rows)].index /\ rows[Len(rows)].index \in Int /\ i > last
          BY <3>1, <3>3, HandoverTypes DEF Ahead, Accepts, WriterInv, LoopInv
        <4>2. i >= rows[Len(rows)].index + 1
          BY <4>1
        <4> QED
          BY <3>1, <3>3, <4>1, <4>2 DEF Ahead, Accepts
      <3>4. cursor \in Int /\ Submitted \subseteq Int /\ next \in Int
        BY HandoverTypes DEF WriterInv, LoopInv
      <3>5. Ahead(cursor) /\ \A i \in Submitted : Ahead(i)
        BY <3>1 DEF HandoverInv
      <3>6. Ahead(cursor)'
        <4>1. cursor > rows[Len(rows)].index /\ rows[Len(rows)].index \in Int /\ cursor > last
          BY <3>1, <3>5, HandoverTypes DEF Ahead, Accepts, WriterInv, LoopInv
        <4>2. cursor >= rows[Len(rows)].index + 1
          BY <3>4, <4>1
        <4> QED
          BY <2>0, <3>1, <3>5, <4>1, <4>2 DEF Ahead, Accepts
      <3>7. \A i \in Submitted' : Ahead(i)'
        BY <3>2, <3>3, <3>4, <3>5
      <3> QED
        BY <2>0, <3>1, <3>2, <3>6, <3>7 DEF HandoverInv
    <2>4. CASE ReplaceState
      BY <2>0, <2>4, ReplaceHandsOver
    <2>5. CASE Closing
      BY <2>5 DEF Closing, WriteManifest, Publish, RemoveState, memory, HandoverInv, Working
    <2> QED
      BY <1>6, <2>1, <2>2, <2>3, <2>4, <2>5 DEF WriterStep, Flush
  <1>7. CASE Disturbed
    <2>1. CASE Kill \/ PowerLoss
      BY <2>1 DEF Kill, PowerLoss, memory, HandoverInv, Working
    <2>2. CASE JournalCommit
      <3>1. /\ UNCHANGED <<pc, rows, carry, next, last, closing, jsonl, cursor, order, logged, phase>>
        BY <1>7, <2>2 DEF JournalCommit, Disturbed, memory, files, pipeline, loop
      <3>2. Published' = Published /\ Working' = Working /\ logged \subseteq logged'
        BY <3>1 DEF Published, Working
      <3> QED
        BY <3>1, <3>2, HandoverStays
    <2> QED
      BY <1>7, <2>1, <2>2 DEF Disturbed
  <1> QED
    BY <1>1, <1>2, <1>3, <1>4, <1>5, <1>6, <1>7 DEF PipelineNext, Loop

\* No step touches the lines that a build state vouches for.
LEMMA VouchedLinesStay ==
    ASSUME WriterInv, WriterInv', [Next]_vars
    PROVE  /\ state # NoState => \A n \in 1 .. state.size : jsonl'[n] = jsonl[n]
           /\ synced.state # NoState => \A n \in 1 .. synced.state.size : jsonl'[n] = jsonl[n]
  <1>0. /\ TypeOK /\ TypeOK' /\ DiskInv /\ NamesInv /\ jsonl \in Seq(Line)
        /\ Len(jsonl) \in Nat /\ flushed \in Nat /\ flushed <= Len(jsonl)
    BY LenProperties DEF WriterInv, TypeOK, DiskInv
  <1>1. state # NoState => state.size \in 0 .. flushed
    BY <1>0 DEF DiskInv, Vouched
  <1>2. synced.state # NoState => synced.state.size \in 0 .. flushed
    BY <1>0 DEF DiskInv, Vouched
  <1>3. CASE \A n \in 1 .. flushed : jsonl'[n] = jsonl[n]
    <2>1. ASSUME NEW size \in 0 .. flushed
          PROVE  1 .. size \subseteq 1 .. flushed
      BY <1>0
    <2> QED
      BY <1>1, <1>2, <1>3, <2>1
  <1>4. CASE AppendLines \/ Kill
    <2>1. \A n \in 1 .. Len(jsonl) : jsonl'[n] = jsonl[n]
      BY <1>0, <1>4, LinesOnlyGrow
    <2>2. 1 .. flushed \subseteq 1 .. Len(jsonl)
      BY <1>0
    <2> QED
      BY <1>3, <2>1, <2>2
  <1>5. CASE PowerLoss
    BY <1>0, <1>3, <1>5, PowerLossKeepsDisk
  <1>6. CASE CreateStaging
    BY <1>0, <1>6 DEF CreateStaging, NamesInv
  <1>7. CASE Restore
    <2>1. state # NoState /\ jsonl' = SubSeq(jsonl, 1, state.size) /\ state.size \in 0 .. Len(jsonl)
      BY <1>0, <1>7, CursorInRange DEF Restore, Restorable
    <2>2. \A n \in 1 .. state.size : jsonl'[n] = jsonl[n]
      BY <1>0, <2>1, FrontOf
    <2>3. synced.state # NoState => 1 .. synced.state.size \subseteq 1 .. state.size
      <3>1. synced.state # NoState => synced.state.size <= state.size
        BY <1>0, <2>1 DEF DiskInv
      <3>2. ASSUME NEW a \in Int, NEW b \in Int, a <= b
            PROVE  1 .. a \subseteq 1 .. b
        BY <3>2
      <3>3. synced.state # NoState => synced.state.size \in Int /\ state.size \in Int
        BY <1>0, <1>2, <2>1
      <3> QED
        BY <3>1, <3>2, <3>3
    <2> QED
      BY <2>2, <2>3
  <1>8. CASE UNCHANGED jsonl
    BY <1>8
  <1>9. \/ UNCHANGED jsonl \/ AppendLines \/ Kill \/ PowerLoss \/ CreateStaging \/ Restore
    BY DEF Next, vars, Open, Flush, Closing, RefuseStaging, Add, AddRow, AddAfterFlush, SaveShard,
           SealShard, SyncLines, ReplaceState, Finalize, WriteManifest, Publish, WriteFirstState,
           RemoveState, JournalCommit, files
  <1> QED
    BY <1>4, <1>5, <1>6, <1>7, <1>8, <1>9

\* A build state is written before the first row and after a shard; else it is one there was.
LEMMA BuildStates ==
    ASSUME [Next]_vars
    PROVE  /\ synced'.state \in {synced.state, state}
           /\ state' \in {state, synced.state, NoState} \/ WriteFirstState \/ ReplaceState
  <1>1. state' \in {state, synced.state, NoState} \/ WriteFirstState \/ ReplaceState
    BY DEF Next, vars, Open, Flush, Closing, CreateStaging, Restore, RefuseStaging, Add, AddRow,
           AddAfterFlush, SaveShard, SealShard, AppendLines, SyncLines, Finalize, WriteManifest,
           Publish, RemoveState, Kill, JournalCommit, PowerLoss, files
  <1>2. UNCHANGED synced \/ Commit \/ synced' = Names \/ synced' = [Names EXCEPT !.manifest = table]
    BY DEF Next, vars, Open, Flush, Closing, CreateStaging, Restore, RefuseStaging, Add, AddRow,
           AddAfterFlush, SaveShard, SealShard, AppendLines, SyncLines, Finalize, WriteManifest,
           WriteFirstState, ReplaceState, Publish, RemoveState, Kill, JournalCommit, PowerLoss, durable
  <1>3. synced'.state \in {synced.state, state}
    BY <1>2 DEF Commit, Names
  <1> QED
    BY <1>1, <1>3

\* The cursor of a new build state is past the shard's last row, and before all that is to come.
LEMMA ReplaceCovers ==
    ASSUME WriterInv, LoopInv, HandoverInv, ReplaceState, UNCHANGED pipeline
    PROVE  Covers(state)'
  <1>0. /\ Working /\ TypeOK /\ PipelineTypeOK /\ RowsInv /\ rows # <<>>
        /\ next = rows[Len(rows)].index + 1 /\ jsonl' = jsonl /\ logged' = logged
        /\ state' = [shards |-> table, size |-> Len(jsonl), next |-> next]
    BY DEF ReplaceState, pipeline, Working, WriterInv, WorkInv, RowsInv, LoopInv
  <1>1. /\ rows[Len(rows)].index \in Int /\ cursor \in Int /\ Submitted \subseteq Int
        /\ carry # <<>> => carry[1].index \in Int
    BY <1>0, HandoverTypes
  <1>2. Ahead(cursor) /\ \A i \in Submitted : Ahead(i)
    BY <1>0 DEF HandoverInv
  <1>3. 0 .. cursor - 1 \subseteq Excused \cup Published \cup Waiting \cup Submitted
    BY <1>0 DEF HandoverInv
  <1>4. ASSUME NEW i \in 0 .. next - 1
        PROVE  i \in Excused \cup Published
    <2>1. i \in Int /\ 0 <= i /\ i <= rows[Len(rows)].index
      BY <1>0, <1>1
    <2>2. i \in 0 .. cursor - 1
      <3>1. cursor > rows[Len(rows)].index
        BY <1>0, <1>2 DEF Ahead
      <3> QED
        BY <1>1, <2>1, <3>1
    <2>3. i \notin Submitted
      <3>1. i \in Submitted => i > rows[Len(rows)].index
        BY <1>0, <1>2 DEF Ahead
      <3> QED
        BY <1>1, <2>1, <3>1
    <2>4. i \notin {carry[j].index : j \in 1 .. Len(carry)}
      <3>1. CASE carry = <<>>
        <4>1. Len(carry) = 0
          BY <3>1
        <4> QED
          BY <4>1
      <3>2. CASE carry # <<>>
        <4>1. Len(carry) = 1 /\ carry[1].index > rows[Len(rows)].index
          BY <1>0, <3>2 DEF RowsInv
        <4>2. \A j \in 1 .. Len(carry) : carry[j].index = carry[1].index
          BY <4>1
        <4>3. i # carry[1].index
          BY <1>1, <2>1, <3>2, <4>1
        <4> QED
          BY <4>2, <4>3
      <3> QED
        BY <3>1, <3>2
    <2>5. {rows[j].index : j \in 1 .. Len(rows)} \subseteq Published
      BY RowsPublished DEF ReplaceState
    <2> QED
      BY <1>3, <2>2, <2>3, <2>4, <2>5 DEF Waiting
  <1>5. state'.next = next /\ state'.size = Len(jsonl)
    BY <1>0
  <1>6. {jsonl'[n].row.index : n \in 1 .. state'.size} = Published
    BY <1>0, <1>5 DEF Published
  <1>7. Excused' = Excused
    BY <1>0 DEF Excused
  <1> QED
    BY <1>4, <1>5, <1>6, <1>7 DEF Covers

\* When the writer finalizes, nothing is left in the loop or in its memory.
LEMMA AllCovered ==
    ASSUME WriterInv, LoopInv, HandoverInv,
           \/ pc = "ready" /\ rows = <<>> /\ phase = "drain"
           \/ pc = "replace" /\ closing
    PROVE  Indices \subseteq Excused \cup Published
  <1>0. Working /\ phase = "drain" /\ carry = <<>>
    BY DEF HandoverInv, Working, WriterInv, WorkInv, RowsInv
  <1>1. order = <<>> /\ cursor = Length
    BY <1>0 DEF LoopInv
  <1>2. Submitted = {}
    <2>1. Len(order) = 0
      BY <1>1
    <2> QED
      BY <2>1 DEF Submitted, In
  <1>3. {carry[j].index : j \in 1 .. Len(carry)} = {}
    <2>1. Len(carry) = 0
      BY <1>0
    <2> QED
      BY <2>1
  <1>4. {rows[j].index : j \in 1 .. Len(rows)} \subseteq Published
    <2>1. CASE rows = <<>>
      <3>1. Len(rows) = 0
        BY <2>1
      <3> QED
        BY <3>1
    <2>2. CASE pc = "replace"
      BY <2>2, RowsPublished
    <2> QED
      BY <2>1, <2>2
  <1>5. 0 .. cursor - 1 \subseteq Excused \cup Published \cup Waiting \cup Submitted
    BY <1>0 DEF HandoverInv
  <1> QED
    BY <1>1, <1>2, <1>3, <1>4, <1>5 DEF Waiting, Indices

LEMMA CoverKept ==
    ASSUME WriterInv, WriterInv', LoopInv, HandoverInv, CoverInv, [PipelineNext]_allvars
    PROVE  CoverInv'
  <1>0. [Next]_vars
    BY PipelineStepsWriter DEF LoopInv
  <1>1. logged \subseteq logged' /\ Excused \subseteq Excused'
    BY DEF PipelineNext, allvars, pipeline, OpenWriter, Loop, Submit, Refilled, Wait, TakeRow,
           TakeBadCase, TakenAll, CommitRow, SkipBadCase, CommittedAll, Drain, WriterStep,
           Disturbed, Excused
  <1>2. ASSUME NEW st, Covers(st), \A n \in 1 .. st.size : jsonl'[n] = jsonl[n]
        PROVE  0 .. st.next - 1 \subseteq Excused' \cup {jsonl'[n].row.index : n \in 1 .. st.size}
    BY <1>1, <1>2 DEF Covers
  <1>3. state # NoState =>
           0 .. state.next - 1 \subseteq Excused' \cup {jsonl'[n].row.index : n \in 1 .. state.size}
    BY <1>0, <1>2, VouchedLinesStay DEF CoverInv
  <1>4. synced.state # NoState =>
           0 .. synced.state.next - 1
             \subseteq Excused' \cup {jsonl'[n].row.index : n \in 1 .. synced.state.size}
    BY <1>0, <1>2, VouchedLinesStay DEF CoverInv
  <1>5. synced'.state # NoState => Covers(synced.state)'
    BY <1>0, <1>3, <1>4, BuildStates DEF Covers
  <1>6. state' # NoState => Covers(state)'
    <2>1. CASE WriteFirstState
      <3>1. state'.next = 0
        BY <2>1 DEF WriteFirstState
      <3> QED
        BY <3>1 DEF Covers
    <2>2. CASE ReplaceState
      <3>1. UNCHANGED pipeline
        BY <2>2 DEF ReplaceState, PipelineNext, allvars, OpenWriter, Open, CreateStaging,
                    WriteFirstState, Restore, RefuseStaging, StartJob, Loop, Submit, Refilled, Wait,
                    TakeRow, TakeBadCase, TakenAll, CommitRow, SkipBadCase, CommittedAll, Drain,
                    Turn, WriterStep, Disturbed
      <3> QED
        BY <2>2, <3>1, ReplaceCovers
    <2>3. CASE state' \in {state, synced.state, NoState}
      BY <1>3, <1>4, <2>3 DEF Covers
    <2> QED
      BY <1>0, <2>1, <2>2, <2>3, BuildStates
  <1>7. pc' \in {"manifest", "publish"} \/ place' = "output" =>
           jsonl' = jsonl /\ Indices \subseteq Excused \cup Published
    <2>1. CASE place' = "output"
      <3>1. CASE place = "output"
        BY <1>0, <2>1, <3>1, OutputStays DEF CoverInv
      <3>2. CASE place # "output"
        <4>1. Publish
          BY <1>0, <2>1, <3>2, OnlyPublish
        <4> QED
          BY <4>1 DEF Publish, CoverInv
      <3> QED
        BY <3>1, <3>2
    <2>2. CASE pc' = "publish" /\ place' # "output"
      <3>1. jsonl' = jsonl /\ pc \in {"manifest", "publish"}
        BY <1>0, <2>2 DEF Next, vars, Open, Flush, Closing, CreateStaging, Restore, RefuseStaging,
             Add, AddRow, AddAfterFlush, SaveShard, SealShard, AppendLines, SyncLines, Finalize,
             WriteManifest, WriteFirstState, ReplaceState, Publish, RemoveState, Kill, JournalCommit,
             PowerLoss, files
      <3> QED
        BY <3>1 DEF CoverInv
    <2>3. CASE pc' = "manifest"
      <3>1. \/ pc = "manifest" /\ jsonl' = jsonl
            \/ Drain /\ Finalize
            \/ ReplaceState
        BY <2>3 DEF PipelineNext, allvars, OpenWriter, Loop, Submit, Refilled, Wait,
             TakeRow, TakeBadCase, TakenAll, CommitRow, SkipBadCase, CommittedAll, Drain,
             Turn, WriterStep, Disturbed, vars, Open, Flush, Closing, CreateStaging, Restore,
             RefuseStaging, StartJob, Add, AddRow, AddAfterFlush, SaveShard, SealShard, AppendLines,
             SyncLines, WriteManifest, WriteFirstState, Publish, RemoveState, Kill, JournalCommit,
             PowerLoss, files
      <3>2. CASE Drain /\ Finalize
        <4>1. pc = "ready" /\ rows = <<>> /\ phase = "drain" /\ jsonl' = jsonl
          BY <2>3, <3>2 DEF Drain, Turn, Finalize, files
        <4> QED
          BY <4>1, AllCovered
      <3>3. CASE ReplaceState
        <4>1. pc = "replace" /\ closing /\ jsonl' = jsonl
          BY <2>3, <3>3 DEF ReplaceState
        <4> QED
          BY <4>1, AllCovered
      <3> QED
        BY <3>1, <3>2, <3>3 DEF CoverInv
    <2> QED
      BY <2>1, <2>2, <2>3
  <1>8. pc' \in {"manifest", "publish"} \/ place' = "output" => Indices \subseteq Excused' \cup Published'
    BY <1>1, <1>7 DEF Published
  <1> QED
    BY <1>5, <1>6, <1>8 DEF CoverInv

LEMMA PipelineStarts ==
    ASSUME PipelineInit
    PROVE  PipelineInv
  <1>1. WriterInv
    BY WriterInit DEF PipelineInit
  <1>2. order = <<>> /\ Len(order) = 0 /\ <<>> \in Seq(Indices) /\ 0 \in 0 .. Length
    BY Empties, DatasetAssumption DEF PipelineInit
  <1>3. PipelineTypeOK
    BY <1>2 DEF PipelineInit, PipelineTypeOK
  <1>4. LoopInv
    BY <1>2, <1>3 DEF PipelineInit, LoopInv, Submitted, In, ReadyRows
  <1>5. HandoverInv /\ CoverInv
    BY DEF PipelineInit, Init, Names, HandoverInv, Working, CoverInv
  <1> QED
    BY <1>1, <1>4, <1>5 DEF PipelineInv

LEMMA PipelineStepKeeps ==
    ASSUME PipelineInv, [PipelineNext]_allvars
    PROVE  PipelineInv'
  <1> USE DEF PipelineInv
  <1>1. [Next]_vars
    BY PipelineStepsWriter DEF LoopInv
  <1>2. WriterInv'
    BY <1>1, WriterStepKeeps
  <1>3. LoopInv'
    BY <1>2, LoopKept DEF WriterInv
  <1>4. HandoverInv'
    BY <1>2, HandoverKept
  <1>5. CoverInv'
    BY <1>2, CoverKept
  <1> QED
    BY <1>2, <1>3, <1>4, <1>5

LEMMA PipelineAlways ==
    PipelineSpec => []PipelineInv
  <1>1. PipelineInit => PipelineInv
    BY PipelineStarts
  <1>2. PipelineInv /\ [PipelineNext]_allvars => PipelineInv'
    BY PipelineStepKeeps
  <1> QED
    BY <1>1, <1>2, PTL DEF PipelineSpec

\* The published artifact holds every row of the source, except the denied ones and the
\* logged bad cases, whatever was killed, lost or completed out of order on the way.
THEOREM NoRowPassedOver ==
    PipelineSpec => []NothingPassedOver
  <1>1. PipelineInv => NothingPassedOver
    BY DEF PipelineInv, CoverInv, Excused, NothingPassedOver
  <1> QED
    BY <1>1, PipelineAlways, PTL

\* produce_detection_pseudo_kd_artifact never gives the writer a row that its add refuses,
\* and never reaches the end with a row in the reorder buffer.
THEOREM NoRowRefused ==
    PipelineSpec => []NeverRefused
  <1>1. PipelineInv => NeverRefused
    <2>1. SUFFICES ASSUME PipelineInv
                   PROVE  NeverRefused
      OBVIOUS
    <2>2. ASSUME phase = "commit", pc = "ready", NEW i \in ReadyRows
          PROVE  Accepts(i)
      <3>1. i \in Submitted
        BY <2>1 DEF PipelineInv, LoopInv, ReadyRows
      <3> QED
        BY <2>1, <2>2, <3>1 DEF PipelineInv, HandoverInv, Working, Ahead
    <2>3. phase = "drain" => order = <<>> /\ completed = {}
      BY <2>1 DEF PipelineInv, LoopInv
    <2> QED
      BY <2>2, <2>3 DEF NeverRefused
  <1> QED
    BY <1>1, PipelineAlways, PTL

\* With the pipeline at work the writer still does only what its own specification allows:
\* what is proved of the writer alone holds of the whole producer.
THEOREM PipelineImplementsWriter ==
    PipelineSpec => Spec
  <1>1. PipelineInit => Init
    BY DEF PipelineInit
  <1>2. PipelineInv /\ [PipelineNext]_allvars => [Next]_vars
    BY PipelineStepsWriter DEF PipelineInv, LoopInv
  <1> QED
    BY <1>1, <1>2, PipelineAlways, PTL DEF PipelineSpec, Spec
=============================================================================
