--------------------------- MODULE ModelArtifact ---------------------------
(***************************************************************************)
(* Building the base model from local files that other programs may        *)
(* rewrite meanwhile, on ranks that may see different copies of them.      *)
(*                                                                         *)
(* The bytes are identified twice: for the plan, before the load, and for  *)
(* the closure after it (_distributed_complete_local_identity).  The first *)
(* rank of each node hashes the files, the others only compare their stat  *)
(* entries with its, and hash themselves if these differ.  Around the load *)
(* each rank compares stat entries (the load guard).  A rank that raises   *)
(* says so in the next gather, so that no peer waits for it in vain.       *)
(*                                                                         *)
(* A file has a content and a version, which stands for its size, times    *)
(* and inode.  A rewrite gives it a new version, or keeps the old one: the *)
(* code must also notice a rewrite of the same size and times.             *)
(***************************************************************************)
EXTENDS Naturals, FiniteSets, Nodes

CONSTANTS NumFiles,     \* files of the artifact, at least 1
          MaxWrites,    \* bound: rewrites and errors in all
          MaxErrors     \* bound: of them, calls that raise by themselves (input and output)

VARIABLES mount,           \* rank -> the copy of the files it sees, named by a rank that sees it
          artifact,        \* copy -> file -> its content and version
          silent,          \* copies and files rewritten without a new version
          writes, errors,  \* counted against their bounds
          building,        \* rank -> what it does, or the gather it waits in
          file,            \* rank -> the file it is at
          stage,           \* rank -> "plan" or "closure"
          own,             \* rank -> it hashes the files although it leads no node
          ok,              \* rank -> the status it brings to the gather
          stat,            \* rank -> file -> version (file_stat_manifest)
          digest,          \* rank -> file -> content (file_manifest)
          plan,            \* rank -> the identity of the resolved model plan
          loaded           \* rank -> file -> content the loader read

topology == <<leader, mount>>
files == <<artifact, silent, writes>>
modelVars == <<topology, files, errors, building, file, stage, own, ok, stat, digest, plan, loaded>>

ModelFile == 1 .. NumFiles
Content == {1, 2}
Blank == [f \in ModelFile |-> 0]

Passes == {"inventory", "base", "before", "read", "after", "final", "check",
           "capture", "load", "verify"}
Gathers == {"enter", "first", "second", "third", "prepared", "finalized"}

\* What rank r sees of a file.
Version(r, f) == artifact[mount[r]][f].version
Bytes(r, f) == artifact[mount[r]][f].content

Leaders == {r \in Workers : leader[r] = r}

-----------------------------------------------------------------------------
(* What each rank does by itself *)

Go(r, where, f) ==
    /\ building' = [building EXCEPT ![r] = where]
    /\ file' = [file EXCEPT ![r] = f]

\* Mutant: an error of a rank that hashes for itself is raised at once.
MeetUnconverged(r) ==
    CASE building[r] = "check" -> "third"
      [] building[r] = "capture" -> "prepared"
      [] building[r] = "verify" -> "finalized"
      [] building[r] = "load" -> "dead"
      [] OTHER -> IF own[r] THEN "failed" ELSE "first"

\* Where a rank that raises meets its peers; the loader is in no gather's care.
Meet(r) ==
    CASE building[r] = "check" -> "third"
      [] building[r] = "capture" -> "prepared"
      [] building[r] = "verify" -> "finalized"
      [] building[r] = "load" -> "dead"
      [] OTHER -> IF own[r] THEN "second" ELSE "first"

Raise(r) ==
    /\ Go(r, Meet(r), 1)
    /\ ok' = [ok EXCEPT ![r] = FALSE]
    /\ UNCHANGED <<stage, stat, digest, loaded>>

\* The pass goes on with the next file, and after the last one with what follows.
OnTo(r, where) == IF file[r] < NumFiles THEN Go(r, building[r], file[r] + 1) ELSE Go(r, where, 1)

\* A stat entry is taken: by a rank that hopes to reuse its leader's digests, or as the
\* baseline of a rank that hashes.
Take(r) ==
    /\ building[r] \in {"inventory", "base"}
    /\ stat' = [stat EXCEPT ![r][file[r]] = Version(r, file[r])]
    /\ OnTo(r, IF building[r] = "base" THEN "before" ELSE "first")
    /\ UNCHANGED <<stage, ok, digest, loaded>>

\* One file is hashed between two looks at its stat entry (_full_file_snapshot).
Read(r) ==
    /\ building[r] = "read"
    /\ digest' = [digest EXCEPT ![r][file[r]] = Bytes(r, file[r])]
    /\ Go(r, "after", file[r])
    /\ UNCHANGED <<stage, ok, stat, loaded>>

\* A stat entry must be what it was.
Compare(r) ==
    /\ building[r] \in {"before", "after", "final", "check", "capture", "verify"}
    /\ LET expected == IF building[r] \in {"capture", "verify"} THEN plan[r].stat ELSE stat[r]
       IN  IF Version(r, file[r]) # expected[file[r]] THEN Raise(r)
           ELSE /\ CASE building[r] = "before" -> Go(r, "read", file[r])
                     [] building[r] = "after" -> IF file[r] < NumFiles THEN Go(r, "before", file[r] + 1)
                                                              ELSE Go(r, "final", 1)
                     [] OTHER -> OnTo(r, Meet(r))
                /\ UNCHANGED <<stage, ok, stat, digest, loaded>>

\* The loader reads the files; then the closure begins.
Load(r) ==
    /\ building[r] = "load"
    /\ loaded' = [loaded EXCEPT ![r][file[r]] = Bytes(r, file[r])]
    /\ OnTo(r, "enter")
    /\ stage' = [stage EXCEPT ![r] = IF file[r] < NumFiles THEN @ ELSE "closure"]
    /\ UNCHANGED <<ok, stat, digest>>

Error(r) ==
    /\ building[r] \in Passes /\ errors < MaxErrors /\ errors + writes < MaxWrites
    /\ errors' = errors + 1
    /\ Raise(r)

Local(r) ==
    /\ Take(r) \/ Read(r) \/ Compare(r) \/ Load(r)
    /\ UNCHANGED errors

-----------------------------------------------------------------------------
(* Gathers: all ranks are in one, and leave it with the same result *)

In(gather) == \A r \in Workers : building[r] = gather

\* All ranks go on with what each does next and bring a good status to the next gather.
Proceed(where) ==
    /\ building' = [r \in Workers |-> where[r]]
    /\ file' = [r \in Workers |-> 1]
    /\ ok' = [r \in Workers |-> TRUE]

\* All ranks raise: out of the pipeline, or within the stage that runs the closure.
RaiseTogether ==
    /\ building' = [r \in Workers |-> IF stage[r] = "closure" /\ building[r] # "finalized"
                              THEN "finalized" ELSE "failed"]
    /\ ok' = [r \in Workers |-> FALSE]
    /\ UNCHANGED <<file, own, plan>>

\* Making the process group waits for every rank; then the leaders hash.
Enter ==
    /\ In("enter")
    /\ Proceed([r \in Workers |-> IF r \in Leaders THEN "base" ELSE "inventory"])
    /\ own' = [r \in Workers |-> FALSE]
    /\ UNCHANGED plan

\* Mutant: another copy of the files is taken for the leader's.
VersionsDiffer == {r \in Workers : stat[r] # stat[leader[r]]}

\* Ranks whose stat manifest, device included, is not their leader's.
Differing == {r \in Workers : mount[r] # mount[leader[r]] \/ stat[r] # stat[leader[r]]}

First ==
    /\ In("first")
    /\ IF (\E r \in Workers : ~ok[r]) \/ \E q, r \in Leaders : digest[q] # digest[r]
       THEN RaiseTogether
       ELSE /\ Proceed([r \in Workers |-> IF Differing = {} THEN "check"
                                        ELSE IF r \in Differing THEN "base" ELSE "second"])
            /\ own' = [r \in Workers |-> r \in Differing]
            /\ UNCHANGED plan

Second ==
    /\ In("second")
    /\ IF (\E r \in Workers : ~ok[r])
          \/ \E r \in Workers : own[r] /\ digest[r] # digest[leader[r]]
       THEN RaiseTogether
       ELSE Proceed([r \in Workers |-> "check"]) /\ UNCHANGED <<own, plan>>

\* The identity is settled; the closure's must be the plan's.
Third ==
    /\ In("third")
    /\ IF \E r \in Workers : ~ok[r] THEN RaiseTogether
       ELSE IF \A r \in Workers : stage[r] = "plan"
       THEN /\ plan' = [r \in Workers |-> [digest |-> digest[leader[r]], stat |-> stat[r]]]
            /\ Proceed([r \in Workers |-> "capture"])
            /\ UNCHANGED own
       ELSE IF \E r \in Workers : digest[leader[r]] # plan[r].digest THEN RaiseTogether
       ELSE Proceed([r \in Workers |-> "verify"]) /\ UNCHANGED <<own, plan>>

\* The stages "model-prepare" and "model-finalize" converge.
ConvergeStage(gather, next) ==
    /\ In(gather)
    /\ IF \E r \in Workers : ~ok[r] THEN RaiseTogether
       ELSE Proceed([r \in Workers |-> next]) /\ UNCHANGED <<own, plan>>

Meeting ==
    /\ Enter \/ First \/ Second \/ Third
       \/ ConvergeStage("prepared", "load") \/ ConvergeStage("finalized", "done")
    /\ UNCHANGED <<topology, files, errors, stage, stat, digest, loaded>>

-----------------------------------------------------------------------------
(* Other programs *)

Put(m, f, content, version) ==
    /\ writes + errors < MaxWrites
    /\ writes' = writes + 1
    /\ artifact' = [artifact EXCEPT ![m][f] = [content |-> content, version |-> version]]
    /\ UNCHANGED <<topology, errors, building, file, stage, own, ok, stat, digest, plan, loaded>>

Rewrite(m, f) ==
    /\ \E c \in Content : Put(m, f, c, artifact[m][f].version + 1)
    /\ UNCHANGED silent

\* Same size and times.  Undoing it in the same way would leave no trace at all.
RewriteSilently(m, f) ==
    /\ <<m, f>> \notin silent
    /\ Put(m, f, 3 - artifact[m][f].content, artifact[m][f].version)
    /\ silent' = silent \cup {<<m, f>>}

-----------------------------------------------------------------------------
Copies == {mount[r] : r \in Workers}

ModelInit ==
    /\ Grouped
    /\ mount \in [Workers -> Workers] /\ \A r \in Workers : mount[mount[r]] = mount[r]
    /\ artifact \in [Workers -> [ModelFile -> [content : Content, version : {0}]]]
    /\ \A m \in Workers \ Copies : artifact[m] = [f \in ModelFile |-> [content |-> 1, version |-> 0]]
    /\ silent = {} /\ writes = 0 /\ errors = 0
    /\ building = [r \in Workers |-> "enter"] /\ file = [r \in Workers |-> 1]
    /\ stage = [r \in Workers |-> "plan"]
    /\ own = [r \in Workers |-> FALSE] /\ ok = [r \in Workers |-> TRUE]
    /\ stat = [r \in Workers |-> Blank] /\ digest = [r \in Workers |-> Blank]
    /\ plan = [r \in Workers |-> [digest |-> Blank, stat |-> Blank]]
    /\ loaded = [r \in Workers |-> Blank]

BuildStep(r) ==
    /\ Local(r) \/ Error(r)
    /\ UNCHANGED <<topology, files, own, plan>>

ModelNext ==
    \/ \E r \in Workers : BuildStep(r)
    \/ Meeting
    \/ \E m \in Copies, f \in ModelFile : Rewrite(m, f) \/ RewriteSilently(m, f)

ModelSpec == ModelInit /\ [][ModelNext]_modelVars

-----------------------------------------------------------------------------
(* Properties *)

\* A build that succeeds read on every rank, from whichever copy, the very bytes its plan
\* identified, whatever was rewritten meanwhile, and however (but for a silent rewrite
\* that is silently undone).
BuiltFromIdentified ==
    \A q, r \in Workers : building[r] = "done" => loaded[q] = plan[r].digest

\* No rank waits in a gather that another has left or will not reach: whatever raises on
\* one rank alone, but for the loader, all ranks raise.
NoneStranded ==
    \A q, r \in Workers :
        building[q] \in Gathers /\ (\A p \in Workers : building[p] # "dead") =>
            /\ building[r] \notin {"failed", "done"}
            /\ building[r] \in Gathers => building[r] = building[q]
=============================================================================
