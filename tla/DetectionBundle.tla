--------------------------- MODULE DetectionBundle ---------------------------
(***************************************************************************)
(* A new version of a distillation bundle (scripts/tasks): paper images    *)
(* that have newly arrived are labelled by the teacher, filtered against   *)
(* the bundle's rows (filter_detection_distillation_candidates.py), and    *)
(* added to a copy of the bundle, which is made of hard links where it can *)
(* be and published by a rename                                            *)
(* (finalize_detection_distillation_bundle.py).                            *)
(*                                                                         *)
(* A file of labels is named after an image without its suffix; its content *)
(* is the row whose labels it holds.  How an image fares until the filter  *)
(* compares it with others (verdict), which images are near and how sure   *)
(* the teacher is of its labels are choices.                               *)
(***************************************************************************)
EXTENDS Integers, Sequences, FiniteSets, SequencesExt, Graphs

CONSTANTS
    Old, New,    \* rows of the bundle and of the new images: numbers, in the order of files
    Stemmings,   \* what the files may be named: row -> name without suffix; the bundle's differ
    MaxRun       \* bound: runs of the finalization

VARIABLES
    stem, verdict, links,    \* what the scripts are given; links: one file system
    near,        \* pairs of images the filter takes for duplicates
    filtered,    \* what the filter wrote
    content,     \* inode of a file of labels -> the row whose labels it holds
    run, pc,
    todo,        \* rows whose labels are to be written
    gt,          \* gt_standard of the staging directory: name -> inode
    artifact,    \* offline_kd/detection of the staging directory
    index,       \* index.jsonl of the staging directory: row -> entry
    reasons,     \* audit/exclusions.jsonl of the staging directory
    output       \* the published bundle, if any

given   == <<stem, verdict, links>>
filter  == <<near, filtered>>
staging == <<todo, gt, artifact, index, reasons>>
vars    == <<given, filter, content, run, pc, staging, output>>

Rows == Old \cup New
Stems == {stem[r] : r \in Rows}
InOrder(S) == SetToSortSeq(S, <)

Inode(n, s) == <<n, s>>    \* n is the run that made the file
NoFile == <<>>
NoRef == <<>>

\* The artifact made of some shards, each a sequence of rows, and its references.
ArtifactOf(id, shards) ==
    [id |-> id, shards |-> shards,
     refs |-> [r \in UNION {Range(shards[k]) : k \in DOMAIN shards} |->
                  LET k == CHOOSE k \in DOMAIN shards : r \in Range(shards[k]) IN
                  [id |-> id, shard |-> k, row |-> CHOOSE j \in DOMAIN shards[k] : shards[k][j] = r]]]

\* The row a reference leads to in an artifact.
Resolves(a, ref, r) ==
    /\ ref.id = a.id
    /\ ref.shard \in DOMAIN a.shards /\ ref.row \in DOMAIN a.shards[ref.shard]
    /\ a.shards[ref.shard][ref.row] = r

\* The bundle as package_detection_distillation.py publishes it.
OldArtifact == ArtifactOf(0, <<InOrder(Old)>>)
Entry(status, file, ref) == [status |-> status, gt |-> file, kd |-> ref]
OldIndex == [r \in Old |-> Entry("accepted", stem[r], OldArtifact.refs[r])]

Unpublished == [artifact |-> <<>>, index |-> <<>>, gt |-> <<>>, reasons |-> {}]
Unfiltered  == [accepted |-> {}, drop |-> {}, excluded |-> {}]

Init ==
    /\ stem \in Stemmings /\ links \in BOOLEAN
    /\ verdict \in [New -> {"screened", "bad", "rule", "clean"}]
    /\ near = {} /\ filtered = Unfiltered
    /\ content = [f \in (0 .. MaxRun) \X Stems |->
                     IF f[1] = 0 /\ \E r \in Old : stem[r] = f[2]
                     THEN CHOOSE r \in Old : stem[r] = f[2] ELSE 0]
    /\ run = 0 /\ pc = "filter"
    /\ todo = {} /\ gt = <<>> /\ artifact = <<>> /\ index = <<>> /\ reasons = {}
    /\ output = Unpublished

-----------------------------------------------------------------------------
(***************************************************************************)
(* The filter.                                                             *)
(***************************************************************************)
\* Rows with valid labels that pass the rules and are not near an image of the eval sets.
Clean == {r \in New : verdict[r] = "clean"}

\* The images that a chain of near ones connects to r.
Cluster(r, pairs) ==
    LET kept == Old \cup Clean
        connected == ConnectionsIn([node |-> kept,
                                    edge |-> {e \in kept \X kept : {e[1], e[2]} \in pairs}]) IN
    {q \in kept : q = r \/ connected[r, q]}

\* The row whose labels the teacher is surest of, the first one on a tie.
Surer(p, q, nll) == nll[p] < nll[q] \/ (nll[p] = nll[q] /\ p < q)

\* A cluster with a new row keeps one row.
Dropped(pairs, nll) ==
    {r \in Old \cup Clean :
        /\ Cluster(r, pairs) \cap New # {}
        /\ \E q \in Cluster(r, pairs) : Surer(q, r, nll)}

Filter ==
    /\ pc = "filter"
    /\ near' \in SUBSET {{p, q} : p \in Rows, q \in Clean}
    /\ \E nll \in [Rows -> {1, 2}] :
          LET dropped == Dropped(near', nll) IN
          filtered' = [accepted |-> Clean \ dropped, drop |-> dropped \cap Old,
                       excluded |-> {r \in New : verdict[r] = "rule"} \cup dropped]
    /\ pc' = "down"
    /\ UNCHANGED <<given, content, run, staging, output>>

-----------------------------------------------------------------------------
(***************************************************************************)
(* The finalization.                                                       *)
(***************************************************************************)
Goto(where) == pc' = where /\ UNCHANGED <<given, filter>>

\* A staging directory is filled with links to the bundle's files, or copies of them.
CopyTree ==
    /\ pc = "down" /\ run < MaxRun /\ output = Unpublished
    /\ run' = run + 1
    /\ gt' = [s \in {stem[r] : r \in Old} |-> Inode(IF links THEN 0 ELSE run', s)]
    /\ content' = [f \in DOMAIN content |->
                      IF ~ links /\ f[1] = run' THEN content[Inode(0, f[2])] ELSE content[f]]
    /\ artifact' = OldArtifact /\ index' = OldIndex /\ reasons' = {}
    /\ todo' = filtered.accepted
    /\ Goto("labels")
    /\ UNCHANGED output

\* _write_gt, in threads: the file is opened under its name and written.
WriteLabels(r) ==
    LET file == IF stem[r] \in DOMAIN gt THEN gt[stem[r]] ELSE Inode(run, stem[r]) IN
    /\ pc = "labels" /\ r \in todo
    /\ content' = [content EXCEPT ![file] = r]
    /\ gt' = [s \in DOMAIN gt \cup {stem[r]} |-> IF s = stem[r] THEN file ELSE gt[s]]
    /\ todo' = todo \ {r}
    /\ Goto("labels")
    /\ UNCHANGED <<run, artifact, index, reasons, output>>

\* The rows of a shard that stay: the file is linked if all do, else rewritten.
Subset(shard, keep) == SelectSeq(shard, LAMBDA r : r \in keep)

\* Mutant: a row keeps its place in the rewritten shard.
SamePlace(id, old, new) ==
    LET a == ArtifactOf(id, SelectSeq(<<old, new>>, LAMBDA s : s # <<>>)) IN
    [a EXCEPT !.refs = [r \in DOMAIN a.refs |->
        IF r \in Old THEN [a.refs[r] EXCEPT !.row = OldArtifact.refs[r].row] ELSE a.refs[r]]]

\* The shards of both artifacts, numbered anew; the places of their rows are counted anew.
Repacked(id, old, new) == ArtifactOf(id, SelectSeq(<<old, new>>, LAMBDA s : s # <<>>))

Inferred == {r \in New : verdict[r] \in {"rule", "clean"}}

\* The artifact is built in a directory of its own; the index is the old one, with the
\* dropped rows changed and the new ones added; both are renamed into place.
Install ==
    LET new == Repacked(run, Subset(InOrder(Old), Old \ filtered.drop),
                             Subset(InOrder(Inferred), filtered.accepted)) IN
    /\ pc = "labels" /\ todo = {}
    /\ artifact' = new
    /\ index' = [r \in Rows |->
          IF r \in Old
          THEN IF r \in filtered.drop THEN Entry("excluded", NoFile, NoRef) ELSE index[r]
          ELSE IF r \in filtered.accepted THEN Entry("accepted", stem[r], new.refs[r])
          ELSE Entry(IF verdict[r] = "screened" \/ r \in filtered.excluded
                     THEN "excluded" ELSE "inference_bad_case", NoFile, NoRef)]
    /\ Goto("drop")
    /\ UNCHANGED <<content, run, todo, gt, reasons, output>>

\* The files of labels of dropped rows are unlinked.
DropLabels ==
    /\ pc = "drop"
    /\ gt' = [s \in DOMAIN gt \ {stem[r] : r \in filtered.drop} |-> gt[s]]
    /\ Goto("audit")
    /\ UNCHANGED <<content, run, todo, artifact, index, reasons, output>>

\* The summaries and exclusions are written, and the directory is renamed.
Audit ==
    /\ pc = "audit"
    /\ reasons' = reasons
           \cup {<<r, "excluded">> : r \in {q \in New : verdict[q] = "screened"} \cup filtered.excluded}
           \cup {<<r, "inference_bad_case">> :
                    r \in {q \in New : verdict[q] # "screened"}
                              \ (filtered.accepted \cup filtered.excluded)}
    /\ Goto("publish")
    /\ UNCHANGED <<content, run, todo, gt, artifact, index, output>>

Publish ==
    /\ pc = "publish"
    /\ output' = [artifact |-> artifact, index |-> index, gt |-> gt, reasons |-> reasons]
    /\ Goto("done")
    /\ UNCHANGED <<content, run, staging>>

\* The run is killed, or raises; the next one has a staging directory of its own.
Stop ==
    /\ pc \in {"labels", "drop", "audit", "publish"}
    /\ todo' = {} /\ gt' = <<>> /\ artifact' = <<>> /\ index' = <<>> /\ reasons' = {}
    /\ Goto("down")
    /\ UNCHANGED <<content, run, output>>

Next ==
    \/ Filter \/ CopyTree \/ (\E r \in New : WriteLabels(r)) \/ Install \/ DropLabels
    \/ Audit \/ Publish \/ Stop

Spec == Init /\ [][Next]_vars

-----------------------------------------------------------------------------
(***************************************************************************)
(* Properties.                                                             *)
(***************************************************************************)
\* No other row's file of labels has the name of r's.
OwnName(r) == \A q \in Rows : stem[q] = stem[r] => q = r

\* The published bundle: the rows of its artifact are the old ones that were not dropped and the
\* accepted new ones, each resolves to its own distribution, has its own labels and an index entry
\* that says so; every other row has neither labels nor a reference, and its reason is recorded
\* once; and no new row is near another that is published.
BundleWhole ==
    output # Unpublished =>
        LET rows == DOMAIN output.artifact.refs IN
        /\ rows = (Old \ filtered.drop) \cup filtered.accepted
        /\ \A r \in rows :
              /\ Resolves(output.artifact, output.artifact.refs[r], r)
              /\ output.index[r].status = "accepted"
              /\ OwnName(r) => /\ output.index[r].gt \in DOMAIN output.gt
                               /\ content[output.gt[output.index[r].gt]] = r
              /\ r \in New => output.index[r].kd = output.artifact.refs[r]
        /\ \A r \in Rows \ rows :
              /\ output.index[r] = Entry(output.index[r].status, NoFile, NoRef)
              /\ OwnName(r) => stem[r] \notin DOMAIN output.gt
              /\ {e \in output.reasons : e[1] = r} = {<<r, output.index[r].status>>}
        /\ \A p, q \in rows : p # q /\ p \in New => {p, q} \notin near

\* The bundle that the new version was made from stays as it was.
OldBundleUntouched == \A r \in Old : content[Inode(0, stem[r])] = r
=============================================================================
