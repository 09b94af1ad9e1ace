---------------------------- MODULE ResumeGuard ----------------------------
(***************************************************************************)
(* Resuming from a directory of checkpoints while something writes there:  *)
(* another job that saves by the protocol (its marker is invalid while its *)
(* files change), or anything else that replaces a file.                   *)
(*                                                                         *)
(* Every rank looks for the newest valid checkpoint, verifies its contents *)
(* once, takes the identity of the marker and the stat tokens of all files *)
(* (ResolvedResumeCheckpoint), and compares these again in the preflight   *)
(* and just before training (validate_resolved_resume_checkpoint_guard).   *)
(* In between the ranks agree on what they resolved.                       *)
(*                                                                         *)
(* A content is the number of the write it comes from, which also stands   *)
(* for its stat token.  A marker is 0 if there is none, negative if it is  *)
(* only prepared, and otherwise the number its files must have.            *)
(***************************************************************************)
EXTENDS Integers, Sequences

CONSTANTS Readers,
          Names,    \* file names in the order of sorted(), each once, and "marker" among them
          Small,    \* the files a backend's marker knows by content, not only by size
          Steps,    \* a checkpoint of each of these steps exists: positive and finitely many
          MaxSaves  \* bound: saves and foreign writes while the job starts

VARIABLES protocol,     \* "committed_manifest" or "backend_native" (planned)
          checkpoints,  \* checkpoint -> name -> content
          writer,       \* the save under way: its step and number, step 0 if there is none
          clock,        \* number of the last write
          resuming,     \* each rank: what it does
          round,        \* 0 while resolving, then which guard
          at,           \* the checkpoint it looks at or has resolved
          k,            \* position in Names of the file it is at
          mark,         \* commit_fingerprint: the marker it read
          guard,        \* stat_guard: the tokens it took
          resumed,      \* what it loaded
          late,         \* ghost: the checkpoint changed where the guard does not see it
          touched       \* ghost: something was written since the job started

rank == <<resuming, round, at, k, mark, guard, resumed>>
resumeVars == <<protocol, checkpoints, writer, clock, rank, late, touched>>

Name == {Names[i] : i \in DOMAIN Names}
Files == Name \ {"marker"}
Backend == protocol = "backend_native"
Hashed == IF Backend THEN Small ELSE Files
Position(n) == CHOOSE i \in DOMAIN Names : Names[i] = n

\* Where the next file to hash is, from position i on: one position, or none.
NextHashed(i) ==
    {j \in i .. Len(Names) : Names[j] \in Hashed /\ \A l \in i .. j - 1 : Names[l] \notin Hashed}

Nothing == [n \in Name |-> 0]
NoSave == [step |-> 0, number |-> 0]

\* What an honest validation of checkpoint s finds, if nothing changes meanwhile.
Valid(s) ==
    /\ checkpoints[s]["marker"] > 0
    /\ \A f \in Hashed : checkpoints[s][f] = checkpoints[s]["marker"]

-----------------------------------------------------------------------------
(* The ranks *)

\* Set rank r's fields; the others keep theirs.
Become(r, p, rd, s, i, m, g) ==
    /\ resuming' = [resuming EXCEPT ![r] = p]
    /\ round' = [round EXCEPT ![r] = rd]
    /\ at' = [at EXCEPT ![r] = s]
    /\ k' = [k EXCEPT ![r] = i]
    /\ mark' = [mark EXCEPT ![r] = m]
    /\ guard' = [guard EXCEPT ![r] = g]
    /\ UNCHANGED <<protocol, checkpoints, writer, clock, touched>>

Fails(r) == Become(r, "failed", round[r], at[r], 1, 0, Nothing)

\* Mutant: only the newest checkpoint is tried.
NoOlder(s) == 0

\* Newest first: the checkpoint to try after s, 0 if there is none.
Older(s) ==
    LET older == {t \in Steps : t < s}
    IN  IF older = {} THEN 0 ELSE CHOOSE t \in older : \A u \in older : u <= t

Newest == CHOOSE t \in Steps : \A u \in Steps : u <= t

\* Go on verifying from position i; after the last file the tokens are next.
HashFrom(r, i, rd, m, g) ==
    \/ \E j \in NextHashed(i) : Become(r, "hash", rd, at[r], j, m, g)
    \/ /\ \A j \in i .. Len(Names) : Names[j] \notin Hashed
       /\ Become(r, "stat", rd, at[r], 1, m, g)

\* Read the marker of the candidate; one without a valid marker is passed over.
ReadMarker(r) ==
    /\ resuming[r] = "resolve"
    /\ IF at[r] = 0 THEN Fails(r)
       ELSE IF checkpoints[at[r]]["marker"] > 0
            THEN HashFrom(r, 1, 0, checkpoints[at[r]]["marker"], Nothing)
            ELSE Become(r, "resolve", 0, Older(at[r]), 1, 0, Nothing)
    /\ late' = [late EXCEPT ![r] = FALSE]
    /\ UNCHANGED resumed

\* Compare the next file's content with the marker.  A mismatch rejects the candidate, or
\* ends the job if it was resolved already (the backend's guard validates once more).
Hash(r) ==
    /\ resuming[r] = "hash"
    /\ IF checkpoints[at[r]][Names[k[r]]] = mark[r]
       THEN HashFrom(r, k[r] + 1, round[r], mark[r], guard[r])
       ELSE IF round[r] = 0 THEN Become(r, "resolve", 0, Older(at[r]), 1, 0, Nothing)
       ELSE Fails(r)
    /\ UNCHANGED <<resumed, late>>

\* Take the next file's token, or compare it with the one taken; a missing file raises.
StatFile(r) ==
    /\ resuming[r] = "stat"
    /\ LET n == Names[k[r]]
           token == checkpoints[at[r]][n]
           last == k[r] = Len(Names)
       IN  IF token = 0 THEN Fails(r)
           ELSE IF round[r] = 0
           THEN Become(r, IF last THEN "guard" ELSE "stat", IF last THEN 1 ELSE 0, at[r],
                   IF last THEN 1 ELSE k[r] + 1, mark[r], [guard[r] EXCEPT ![n] = token])
           ELSE IF guard[r][n] # token THEN Fails(r)
           ELSE Become(r, IF last THEN "ready" ELSE "stat", round[r], at[r], k[r] + 1, mark[r], guard[r])
    /\ UNCHANGED <<resumed, late>>

\* Mutant: the guard does not read the marker again.
GuardMarkerUnread(r) ==
    /\ resuming[r] = "guard"
    /\ IF Backend THEN HashFrom(r, 1, round[r], mark[r], guard[r])
       ELSE Become(r, "stat", round[r], at[r], 1, mark[r], guard[r])
    /\ UNCHANGED <<resumed, late>>

\* The guard begins: the marker must still be the one that was verified.
GuardMarker(r) ==
    /\ resuming[r] = "guard"
    /\ IF checkpoints[at[r]]["marker"] # mark[r] THEN Fails(r)
       ELSE IF Backend THEN HashFrom(r, 1, round[r], mark[r], guard[r])
       ELSE Become(r, "stat", round[r], at[r], 1, mark[r], guard[r])
    /\ UNCHANGED <<resumed, late>>

\* The trainer reads the files.
LoadFile(r) ==
    /\ resuming[r] = "load"
    /\ LET n == Names[k[r]]
           last == k[r] = Len(Names)
       IN  /\ resumed' = [resumed EXCEPT ![r][n] = checkpoints[at[r]][n]]
           /\ Become(r, IF last THEN "done" ELSE "load", round[r], at[r],
                 IF last THEN k[r] ELSE k[r] + 1, mark[r], guard[r])
    /\ UNCHANGED late

\* A startup stage ends: all ranks succeeded and resolved the same generation, or all fail.
AgreeOnStage ==
    /\ \A r \in Readers : resuming[r] \in {"ready", "failed"}
    /\ LET agreed == \A q, r \in Readers : resuming[r] = "ready" /\ at[q] = at[r] /\ mark[q] = mark[r]
       IN  /\ agreed \/ \E r \in Readers : resuming[r] = "ready"
           /\ resuming' = [r \in Readers |-> IF ~agreed THEN "failed"
                                        ELSE IF round[r] = 1 THEN "guard" ELSE "load"]
           /\ round' = [r \in Readers |-> IF agreed THEN 2 ELSE round[r]]
    /\ k' = [r \in Readers |-> 1]
    /\ UNCHANGED <<protocol, checkpoints, writer, clock, at, mark, guard, resumed, late, touched>>

-----------------------------------------------------------------------------
(* The others *)

\* Rank r has compared name n in its last guard.
Compared(r, n) ==
    round[r] = 2 /\ \/ resuming[r] = "stat" /\ k[r] > Position(n)
                    \/ resuming[r] \in {"ready", "load", "done"}

\* Rank r has verified name n and has no token of it yet.
Unguarded(r, n) ==
    round[r] = 0 /\ \/ resuming[r] = "hash" /\ k[r] > Position(n)
                    \/ resuming[r] = "stat" /\ k[r] <= Position(n)

Write(s, n, content) ==
    /\ checkpoints' = [checkpoints EXCEPT ![s][n] = content]
    /\ touched' = TRUE
    /\ UNCHANGED <<protocol, rank>>

\* Another job saves step s: first it revokes the marker, or prepares a new one.
BeginSave(s) ==
    /\ writer = NoSave /\ clock < MaxSaves
    /\ clock' = clock + 1
    /\ writer' = [step |-> s, number |-> clock + 1]
    /\ Write(s, "marker", IF Backend THEN -(clock + 1) ELSE 0)
    /\ late' = [r \in Readers |-> late[r] \/ (at[r] = s /\ Compared(r, "marker"))]

WriteFile(f) ==
    /\ writer # NoSave /\ checkpoints[writer.step][f] # writer.number
    /\ Write(writer.step, f, writer.number)
    /\ UNCHANGED <<writer, clock, late>>

\* When all files are written the marker is published.
PublishMarker ==
    /\ writer # NoSave
    /\ \A f \in Files : checkpoints[writer.step][f] = writer.number
    /\ Write(writer.step, "marker", writer.number)
    /\ writer' = NoSave
    /\ UNCHANGED <<clock, late>>

\* The other job is killed.
KillSave ==
    /\ writer # NoSave /\ writer' = NoSave
    /\ UNCHANGED <<protocol, checkpoints, clock, rank, late, touched>>

\* Something outside of the protocol replaces a file.
Replace(s, f) ==
    /\ clock < MaxSaves
    /\ clock' = clock + 1
    /\ Write(s, f, clock + 1)
    /\ late' = [r \in Readers |-> late[r] \/ (at[r] = s /\ (Compared(r, f) \/ Unguarded(r, f)))]
    /\ UNCHANGED writer

-----------------------------------------------------------------------------
\* Each checkpoint is whole or was left by a save that was killed: write number s is the
\* one that published step s, and the last write is the one that was not finished.
ResumeInit ==
    /\ protocol \in {"committed_manifest", "backend_native"}
    /\ clock = 1 + Newest
    /\ checkpoints \in [Steps -> [Name -> -clock .. clock]]
    /\ \A s \in Steps :
           /\ \A f \in Files : checkpoints[s][f] \in {clock, s}
           /\ checkpoints[s]["marker"] \in {s, IF Backend THEN -clock ELSE 0}
           /\ checkpoints[s]["marker"] = s => \A f \in Files : checkpoints[s][f] = s
    /\ writer = NoSave
    /\ resuming = [r \in Readers |-> "resolve"] /\ round = [r \in Readers |-> 0]
    /\ at = [r \in Readers |-> Newest] /\ k = [r \in Readers |-> 1]
    /\ mark = [r \in Readers |-> 0] /\ guard = [r \in Readers |-> Nothing]
    /\ resumed = [r \in Readers |-> Nothing]
    /\ late = [r \in Readers |-> FALSE] /\ touched = FALSE

ResumeStep(r) ==
    ReadMarker(r) \/ Hash(r) \/ StatFile(r) \/ GuardMarker(r) \/ LoadFile(r)

\* What is written when the job has started or failed is not its concern.
OtherStep ==
    /\ ~ \A r \in Readers : resuming[r] \in {"done", "failed"}
    /\ \/ \E s \in Steps : BeginSave(s) \/ \E f \in Hashed : Replace(s, f)
       \/ \E f \in Files : WriteFile(f)
       \/ PublishMarker \/ KillSave

ResumeNext == (\E r \in Readers : ResumeStep(r)) \/ AgreeOnStage \/ OtherStep

ResumeSpec == ResumeInit /\ [][ResumeNext]_resumeVars

-----------------------------------------------------------------------------
(* Properties *)

\* What a job has loaded is, on every rank, one generation of one checkpoint, the one that
\* was verified, whatever is saved or replaced while it starts: but for a file replaced
\* between its verification and its first stat, or anything after the last guard.
LoadedIsVerified ==
    \A q, r \in Readers : resuming[q] = "done" /\ resuming[r] = "done" /\ ~late[q] /\ ~late[r] =>
        /\ at[q] = at[r] /\ mark[q] = mark[r]
        /\ \A f \in Files : resumed[r][f] = mark[r]

\* If nothing is written meanwhile, every rank resolves the newest valid checkpoint and
\* no rank fails as long as there is one.
UntouchedResolvesNewest ==
    ~touched =>
        \A r \in Readers :
            /\ resuming[r] = "failed" => \A s \in Steps : ~Valid(s)
            /\ round[r] > 0 => Valid(at[r]) /\ \A s \in Steps : s > at[r] => ~Valid(s)
=============================================================================
