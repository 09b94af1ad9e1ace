---------------------------- MODULE StartupProofs ----------------------------
(***************************************************************************)
(* What a job depends on from its start, for any ranks and any bounds: the *)
(* checkpoint it resumes from (ResumeGuard) and the cache of its records   *)
(* (RecordCache), which others may be writing; the plan it builds of its   *)
(* model (ModelArtifact); and the planned batches it goes on with, from    *)
(* the state that a checkpoint keeps (PlannedSampler).                     *)
(***************************************************************************)
EXTENDS PlannedSampler, ResumeGuard, ModelArtifact, RecordCache, FiniteSetTheorems, TLAPS

-----------------------------------------------------------------------------
(***************************************************************************)
(* The checkpoint to resume from (ResumeGuard).                            *)
(***************************************************************************)
\* The names are those of a directory; the marker is none of the files it speaks of; there
\* are finitely many checkpoints, so that one of any of them is the newest.
GuardConstants ==
    /\ Names \in Seq(Name) /\ \A i, j \in DOMAIN Names : Names[i] = Names[j] => i = j
    /\ "marker" \in Name /\ Small \subseteq Files
    /\ Steps \subseteq Nat \ {0} /\ Steps # {}
    /\ \A S \in SUBSET Steps : S # {} => \E t \in S : \A u \in S : u <= t

\* Where a rank has read a marker.
Marked == {"hash", "stat", "guard", "ready", "load", "done"}

GuardShape ==
    /\ protocol \in {"committed_manifest", "backend_native"}
    /\ clock \in Nat
    /\ checkpoints \in [Steps -> [Name -> Int]]
    /\ writer \in [step : Steps \cup {0}, number : Nat]
    /\ resuming \in [Readers -> Marked \cup {"resolve", "failed"}]
    /\ round \in [Readers -> 0 .. 2]
    /\ at \in [Readers -> Steps \cup {0}]
    /\ k \in [Readers -> Nat]
    /\ mark \in [Readers -> Nat]
    /\ guard \in [Readers -> [Name -> Int]]
    /\ resumed \in [Readers -> [Name -> Int]]
    /\ late \in [Readers -> BOOLEAN]
    /\ touched \in BOOLEAN

Saving(s) == writer # NoSave /\ writer.step = s

\* Numbers grow, and while a checkpoint is saved it has no valid marker.
Numbered ==
    /\ writer # NoSave => writer.step \in Steps /\ writer.number \in 1 .. clock
    /\ \A s \in Steps :
          /\ \A n \in Name : checkpoints[s][n] <= clock
          /\ Saving(s) => checkpoints[s]["marker"] <= 0
          /\ checkpoints[s]["marker"] > 0 =>
                \A f \in Files \ Hashed : checkpoints[s][f] = checkpoints[s]["marker"]

\* The marker is still the one rank r verified; once it is not, it never is again.
Held(r) == checkpoints[at[r]]["marker"] = mark[r]

\* Rank r has a token of name n; its guard has begun; it has loaded name n.
Taken(r, n) ==
    \/ round[r] > 0 /\ resuming[r] \in Marked
    \/ round[r] = 0 /\ resuming[r] = "stat" /\ k[r] > Position(n)
Guarding(r) ==
    \/ round[r] = 1 /\ resuming[r] \in {"hash", "stat", "ready"}
    \/ round[r] = 2 /\ resuming[r] \in Marked
HasRead(r, n) == (resuming[r] = "load" /\ k[r] > Position(n)) \/ resuming[r] = "done"

InOrder(r) ==
    /\ resuming[r] = "resolve" => round[r] = 0
    /\ resuming[r] \in {"load", "done"} => round[r] = 2
    /\ resuming[r] \in {"guard", "ready"} => round[r] > 0
    /\ resuming[r] = "hash" => k[r] \in DOMAIN Names /\ Names[k[r]] \in Hashed
    /\ resuming[r] \in {"stat", "load"} => k[r] \in DOMAIN Names

\* While the marker is held, what was verified, what the tokens are of, and what the last
\* guard has compared is of its generation.
HeldIsWhole(r) ==
    \A f \in Files :
        /\ f \in Hashed /\ Unguarded(r, f) => checkpoints[at[r]][f] = mark[r]
        /\ Taken(r, f) => guard[r][f] = mark[r]
        /\ Compared(r, f) => checkpoints[at[r]][f] = mark[r]

MarkIsSound(r) ==
    /\ at[r] \in Steps /\ mark[r] \in 1 .. clock
    /\ Saving(at[r]) => mark[r] # writer.number
    /\ (Taken(r, "marker") /\ Held(r)) \/ Guarding(r) => guard[r]["marker"] = mark[r]
    /\ ~late[r] =>
          /\ Held(r) => HeldIsWhole(r)
          /\ Compared(r, "marker") => Held(r)
          /\ \A f \in Files : HasRead(r, f) => resumed[r][f] = mark[r]

RankSound(r) == InOrder(r) /\ (resuming[r] \in Marked => MarkIsSound(r))

Agreed ==
    \A q, r \in Readers :
        round[q] = 2 /\ round[r] = 2 /\ resuming[q] \in Marked /\ resuming[r] \in Marked =>
            at[q] = at[r] /\ mark[q] = mark[r]

\* While nothing is written, a valid marker is true, and a rank passes over no valid one.
DiskUntouched ==
    ~touched =>
        /\ writer = NoSave
        /\ \A s \in Steps :
              /\ \A f \in Files : checkpoints[s][f] > 0
              /\ checkpoints[s]["marker"] > 0 => Valid(s)

IsNewest(s) == Valid(s) /\ \A t \in Steps : t > s => ~Valid(t)

RankUntouched(r) ==
    ~touched =>
        /\ resuming[r] = "failed" => \A s \in Steps : ~Valid(s)
        /\ resuming[r] = "resolve" => \A t \in Steps : t > at[r] => ~Valid(t)
        /\ round[r] > 0 => resuming[r] \in Marked
        /\ resuming[r] \in Marked =>
              /\ IsNewest(at[r]) /\ Held(r)
              /\ \A n \in Name : Taken(r, n) => guard[r][n] = checkpoints[at[r]][n]

GuardInv ==
    /\ GuardShape /\ Numbered /\ Agreed /\ DiskUntouched
    /\ \A r \in Readers : RankSound(r) /\ RankUntouched(r)

-----------------------------------------------------------------------------
LEMMA Positions ==
    ASSUME GuardConstants
    PROVE  /\ Len(Names) \in Nat /\ DOMAIN Names = 1 .. Len(Names)
           /\ \A i \in DOMAIN Names : Names[i] \in Name /\ Position(Names[i]) = i
           /\ \A n \in Name : Position(n) \in DOMAIN Names /\ Names[Position(n)] = n
<1>1. Len(Names) \in Nat /\ DOMAIN Names = 1 .. Len(Names)
  BY DEF GuardConstants
<1>2. ASSUME NEW n \in Name PROVE Position(n) \in DOMAIN Names /\ Names[Position(n)] = n
  <2>1. \E i \in DOMAIN Names : Names[i] = n BY DEF Name
  <2> QED BY <2>1 DEF Position
<1>3. ASSUME NEW i \in DOMAIN Names PROVE Names[i] \in Name /\ Position(Names[i]) = i
  <2>1. Names[i] \in Name BY DEF Name
  <2> QED BY <1>2, <2>1 DEF GuardConstants
<1> QED BY <1>1, <1>2, <1>3

LEMMA HashedAreFiles ==
    ASSUME GuardConstants
    PROVE  Hashed \subseteq Files /\ Files \subseteq Name /\ "marker" \notin Files
BY DEF GuardConstants, Hashed, Files

LEMMA NextHashedIs ==
    ASSUME GuardConstants, NEW i \in Nat \ {0}, NEW j \in NextHashed(i)
    PROVE  /\ j \in DOMAIN Names /\ Names[j] \in Hashed /\ j \in Nat
           /\ \A n \in Hashed : j > Position(n) => i > Position(n)
<1>1. j \in i .. Len(Names) /\ Names[j] \in Hashed /\ \A l \in i .. j - 1 : Names[l] \notin Hashed
  BY DEF NextHashed
<1>2. j \in DOMAIN Names /\ j \in Nat BY <1>1, Positions
<1>3. ASSUME NEW n \in Hashed, j > Position(n), ~(i > Position(n)) PROVE FALSE
  <2>1. Position(n) \in DOMAIN Names /\ Names[Position(n)] = n
    BY Positions, HashedAreFiles
  <2>2. Position(n) \in Nat BY <2>1, Positions
  <2>3. Position(n) \in i .. j - 1 BY <1>2, <1>3, <2>2
  <2> QED BY <1>1, <1>3, <2>1, <2>3
<1> QED BY <1>1, <1>2, <1>3

-----------------------------------------------------------------------------
LEMMA InitGuard ==
    ASSUME GuardConstants, ResumeInit
    PROVE  GuardInv
<1>1. Newest \in Steps /\ \A u \in Steps : u <= Newest
  <2>1. \E t \in Steps : \A u \in Steps : u <= t BY DEF GuardConstants
  <2> QED BY <2>1 DEF Newest
<1>2. Newest \in Nat /\ clock = 1 + Newest BY <1>1 DEF ResumeInit, GuardConstants
<1>3. Nothing \in [Name -> Int] BY DEF Nothing
<1>4. NoSave \in [step : Steps \cup {0}, number : Nat] BY DEF NoSave
<1>5. GuardShape
  <2>1. checkpoints \in [Steps -> [Name -> Int]] BY <1>2 DEF ResumeInit
  <2>2. guard \in [Readers -> [Name -> Int]] /\ resumed \in [Readers -> [Name -> Int]]
    BY <1>3 DEF ResumeInit
  <2>3. writer \in [step : Steps \cup {0}, number : Nat] BY <1>4 DEF ResumeInit
  <2>4. at \in [Readers -> Steps \cup {0}] /\ k \in [Readers -> Nat] /\ round \in [Readers -> 0 .. 2]
    BY <1>1 DEF ResumeInit
  <2>5. resuming \in [Readers -> Marked \cup {"resolve", "failed"}] /\ mark \in [Readers -> Nat]
    BY DEF ResumeInit
  <2>6. late \in [Readers -> BOOLEAN] /\ touched \in BOOLEAN
    BY DEF ResumeInit
  <2>7. protocol \in {"committed_manifest", "backend_native"} /\ clock \in Nat
    BY <1>2 DEF ResumeInit
  <2> QED BY <2>1, <2>2, <2>3, <2>4, <2>5, <2>6, <2>7 DEF GuardShape
<1>6. ASSUME NEW s \in Steps
      PROVE  /\ s \in Nat \ {0} /\ s < clock
             /\ \A f \in Files : checkpoints[s][f] \in {clock, s}
             /\ checkpoints[s]["marker"] \in {s, IF Backend THEN -clock ELSE 0}
             /\ checkpoints[s]["marker"] = s => \A f \in Files : checkpoints[s][f] = s
  BY <1>1, <1>2 DEF ResumeInit, GuardConstants
<1>7. ASSUME NEW s \in Steps
      PROVE  /\ \A n \in Name : checkpoints[s][n] <= clock
             /\ checkpoints[s]["marker"] > 0 => checkpoints[s]["marker"] = s
             /\ \A f \in Files : checkpoints[s][f] > 0
  BY <1>2, <1>6 DEF Files
<1>8. Numbered
  BY <1>6, <1>7 DEF ResumeInit, Numbered, Saving
<1>9. DiskUntouched
  BY <1>6, <1>7, HashedAreFiles DEF ResumeInit, DiskUntouched, Valid
<1>10. Agreed BY DEF ResumeInit, Agreed
<1>11. ASSUME NEW r \in Readers PROVE RankSound(r) /\ RankUntouched(r)
  BY <1>1, <1>2 DEF ResumeInit, RankSound, RankUntouched, InOrder, Marked, GuardConstants
<1> QED BY <1>5, <1>8, <1>9, <1>10, <1>11 DEF GuardInv

-----------------------------------------------------------------------------
LEMMA OlderIsNext ==
    ASSUME GuardConstants, NEW s \in Steps
    PROVE  Older(s) \in Steps \cup {0} /\ \A t \in Steps : t > Older(s) => t >= s
<1> DEFINE older == {t \in Steps : t < s}
<1>1. Steps \subseteq Nat BY DEF GuardConstants
<1>2. CASE older = {} BY <1>1, <1>2 DEF Older
<1>3. CASE older # {}
  <2>1. \E t \in older : \A u \in older : u <= t BY <1>3 DEF GuardConstants
  <2>2. Older(s) \in older /\ \A u \in older : u <= Older(s) BY <1>3, <2>1 DEF Older
  <2>3. ASSUME NEW t \in Steps, t > Older(s), ~(t >= s) PROVE FALSE
    <3>1. t \in Nat /\ s \in Nat /\ Older(s) \in Nat BY <1>1, <2>2
    <3>2. t \in older BY <2>3, <3>1
    <3>3. t <= Older(s) BY <2>2, <3>2
    <3> QED BY <2>3, <3>1, <3>3
  <2> QED BY <2>2, <2>3
<1> QED BY <1>2, <1>3

\* What a rank's step leaves to be shown of the other ranks and of the world.
Alone(r) ==
    /\ UNCHANGED <<protocol, checkpoints, writer, clock, touched>>
    /\ \A q \in Readers \ {r} :
          /\ resuming'[q] = resuming[q] /\ round'[q] = round[q] /\ at'[q] = at[q]
          /\ k'[q] = k[q] /\ mark'[q] = mark[q] /\ guard'[q] = guard[q]
          /\ late'[q] = late[q] /\ resumed'[q] = resumed[q]

Kept(r) ==
    /\ GuardShape' /\ Alone(r)
    /\ RankSound(r)' /\ RankUntouched(r)'
    /\ round'[r] = 2 /\ resuming'[r] \in Marked =>
           round[r] = 2 /\ resuming[r] \in Marked /\ at'[r] = at[r] /\ mark'[r] = mark[r]

LEMMA RankFacts ==
    ASSUME GuardConstants, GuardInv, NEW r \in Readers
    PROVE  /\ RankSound(r) /\ RankUntouched(r) /\ DiskUntouched /\ Numbered
           /\ round[r] \in 0 .. 2 /\ at[r] \in Steps \cup {0} /\ k[r] \in Nat /\ mark[r] \in Nat
           /\ guard[r] \in [Name -> Int] /\ resumed[r] \in [Name -> Int] /\ late[r] \in BOOLEAN
           /\ clock \in Nat /\ Steps \subseteq Nat \ {0} /\ Nothing \in [Name -> Int]
           /\ checkpoints \in [Steps -> [Name -> Int]] /\ "marker" \in Name
<1>1. Nothing \in [Name -> Int] BY DEF Nothing
<1>2. GuardShape /\ DiskUntouched /\ Numbered /\ RankSound(r) /\ RankUntouched(r)
  BY DEF GuardInv
<1>3. Steps \subseteq Nat \ {0} /\ "marker" \in Name BY DEF GuardConstants
<1> QED BY <1>1, <1>2, <1>3, Zenon DEF GuardShape

\* A rank that fails while nothing is written has no valid checkpoint to resume.
LEMMA FailsKeeps ==
    ASSUME GuardConstants, GuardInv, NEW r \in Readers, Fails(r),
           resumed' = resumed, late' \in [Readers -> BOOLEAN],
           \A q \in Readers \ {r} : late'[q] = late[q],
           ~touched => round[r] = 0 /\ \A s \in Steps : ~Valid(s)
    PROVE  Kept(r)
<1>1. /\ GuardShape' /\ resuming'[r] = "failed" /\ round'[r] = round[r] /\ Alone(r)
  <2>1. /\ at[r] \in Steps \cup {0} /\ "failed" \in Marked \cup {"resolve", "failed"}
        /\ round[r] \in 0 .. 2 /\ 0 \in Nat /\ 1 \in Nat /\ Nothing \in [Name -> Int] /\ GuardShape
        /\ resumed' \in [Readers -> [Name -> Int]]
    BY RankFacts DEF GuardInv, GuardShape
  <2>2. Become(r, "failed", round[r], at[r], 1, 0, Nothing) BY DEF Fails
  <2> QED BY <2>1, <2>2 DEF Become, GuardShape, Alone
<1>2. RankSound(r)'
  BY <1>1 DEF RankSound, InOrder, Marked
<1>3. ~touched' => \A s \in Steps : ~Valid(s)'
  BY <1>1 DEF Alone, Valid, Hashed, Backend
<1>4. RankUntouched(r)'
  BY <1>1, <1>3 DEF RankUntouched, Alone, Marked
<1> QED BY <1>1, <1>2, <1>4 DEF Kept, Marked

\* A candidate that is passed over while nothing is written is not valid.
LEMMA PassOverKeeps ==
    ASSUME GuardConstants, GuardInv, NEW r \in Readers, at[r] \in Steps,
           Become(r, "resolve", 0, Older(at[r]), 1, 0, Nothing),
           resumed' = resumed, late' \in [Readers -> BOOLEAN],
           \A q \in Readers \ {r} : late'[q] = late[q],
           ~touched => \A t \in Steps : t >= at[r] => ~Valid(t)
    PROVE  Kept(r)
<1>1. /\ GuardShape' /\ resuming'[r] = "resolve" /\ round'[r] = 0 /\ at'[r] = Older(at[r])
      /\ Alone(r)
  <2>1. /\ Older(at[r]) \in Steps \cup {0} /\ "resolve" \in Marked \cup {"resolve", "failed"}
        /\ 0 \in 0 .. 2 /\ 0 \in Nat /\ 1 \in Nat /\ Nothing \in [Name -> Int] /\ GuardShape
        /\ resumed' \in [Readers -> [Name -> Int]]
    BY RankFacts, OlderIsNext DEF GuardInv, GuardShape
  <2> QED BY <2>1 DEF Become, GuardShape, Alone
<1>2. RankSound(r)'
  BY <1>1 DEF RankSound, InOrder, Marked
<1>3. ~touched' => \A t \in Steps : t > at'[r] => ~Valid(t)'
  BY <1>1, OlderIsNext DEF Alone, Valid, Hashed, Backend
<1>4. RankUntouched(r)'
  BY <1>1, <1>3 DEF RankUntouched, Alone, Marked
<1> QED BY <1>1, <1>2, <1>4 DEF Kept, Marked

\* A rank that resolves has verified the files before position i, and goes on from there.
LEMMA VerifyKeeps ==
    ASSUME GuardConstants, GuardInv, NEW r \in Readers, NEW i \in Nat \ {0}, NEW m \in 1 .. clock,
           NEW g \in [Name -> Int], at[r] \in Steps, HashFrom(r, i, 0, m, g),
           resumed' = resumed, late' \in [Readers -> BOOLEAN],
           \A q \in Readers \ {r} : late'[q] = late[q],
           Saving(at[r]) => m # writer.number,
           ~late'[r] /\ checkpoints[at[r]]["marker"] = m =>
               \A f \in Hashed : i > Position(f) => checkpoints[at[r]][f] = m,
           ~touched => IsNewest(at[r]) /\ checkpoints[at[r]]["marker"] = m
    PROVE  Kept(r)
<1>1. PICK p \in {"hash", "stat"}, j \in Nat :
          /\ Become(r, p, 0, at[r], j, m, g)
          /\ j \in DOMAIN Names
          /\ p = "hash" =>
                 Names[j] \in Hashed /\ \A n \in Hashed : j > Position(n) => i > Position(n)
          /\ p = "stat" => j = 1 /\ \A n \in Hashed : i > Position(n)
  <2>1. CASE \E j \in NextHashed(i) : Become(r, "hash", 0, at[r], j, m, g)
    <3>1. PICK j \in NextHashed(i) : Become(r, "hash", 0, at[r], j, m, g) BY <2>1
    <3> QED BY <3>1, NextHashedIs
  <2>2. CASE (\A j \in i .. Len(Names) : Names[j] \notin Hashed) /\ Become(r, "stat", 0, at[r], 1, m, g)
    <3>1. ASSUME NEW n \in Hashed PROVE i > Position(n)
      <4>1. Position(n) \in DOMAIN Names /\ Names[Position(n)] = n
        BY Positions, HashedAreFiles
      <4> QED BY <2>2, <4>1, Positions
    <3>2. 1 \in DOMAIN Names /\ 1 \in Nat
      <4>1. Position("marker") \in 1 .. Len(Names) BY Positions, RankFacts
      <4> QED BY <4>1, Positions
    <3> QED BY <2>2, <3>1, <3>2
  <2> QED BY <2>1, <2>2 DEF HashFrom
<1>2. /\ GuardShape' /\ resuming'[r] = p /\ round'[r] = 0 /\ at'[r] = at[r] /\ k'[r] = j
      /\ mark'[r] = m /\ guard'[r] = g /\ Alone(r)
  <2>1. /\ at[r] \in Steps \cup {0} /\ p \in Marked \cup {"resolve", "failed"}
        /\ 0 \in 0 .. 2 /\ m \in Nat /\ GuardShape
        /\ resumed' \in [Readers -> [Name -> Int]]
    BY RankFacts DEF GuardInv, GuardShape, Marked
  <2> QED BY <1>1, <2>1 DEF Become, GuardShape, Alone
<1>3. \A n \in Name : ~(1 > Position(n))
  BY Positions
<1>4. InOrder(r)'
  <2>1. Hashed' = Hashed BY <1>2 DEF Alone, Hashed, Backend
  <2>2. CASE p = "hash" BY <1>1, <1>2, <2>1, <2>2 DEF InOrder
  <2>3. CASE p = "stat" BY <1>1, <1>2, <2>3 DEF InOrder
  <2> QED BY <2>2, <2>3
<1>5. /\ \A n \in Name : ~Taken(r, n)' /\ ~Compared(r, n)' /\ ~HasRead(r, n)'
      /\ ~Guarding(r)'
  BY <1>1, <1>2, <1>3 DEF Taken, Compared, HasRead, Guarding
<1>6. Held(r)' <=> checkpoints[at[r]]["marker"] = m
  BY <1>2 DEF Held, Alone
<1>7. ASSUME NEW f \in Files, f \in Hashed, Unguarded(r, f)' PROVE i > Position(f)
  BY <1>1, <1>2, <1>7 DEF Unguarded
<1>8. /\ checkpoints' = checkpoints /\ clock' = clock /\ writer' = writer /\ touched' = touched
      /\ Hashed' = Hashed /\ Saving(at[r])' = Saving(at[r])
  BY <1>2 DEF Alone, Hashed, Backend, Saving
<1>9. MarkIsSound(r)'
  <2>1. ~late'[r] /\ Held(r)' => HeldIsWhole(r)'
    BY <1>2, <1>5, <1>6, <1>7, <1>8, HashedAreFiles DEF HeldIsWhole
  <2>2. /\ at'[r] \in Steps /\ mark'[r] \in 1 .. clock'
        /\ Saving(at[r])' => mark'[r] # writer'.number
    BY <1>2, <1>8
  <2> QED BY <1>2, <1>5, <1>8, <2>1, <2>2, RankFacts, HashedAreFiles DEF MarkIsSound
<1>10. \A s \in Steps : Valid(s)' = Valid(s)
  BY <1>8 DEF Valid
<1>11. RankUntouched(r)'
  BY <1>1, <1>2, <1>5, <1>6, <1>8, <1>10 DEF RankUntouched, IsNewest, Marked
<1> QED BY <1>2, <1>4, <1>9, <1>11 DEF Kept, RankSound

\* In a guard, a rank that hashes or is about to compare tokens keeps what it has.
LEMMA GuardKeeps ==
    ASSUME GuardConstants, GuardInv, NEW r \in Readers, resuming[r] \in {"hash", "guard"},
           round[r] > 0, guard[r]["marker"] = mark[r],
           \/ HashFrom(r, 1, round[r], mark[r], guard[r])
           \/ resuming[r] = "hash" /\ HashFrom(r, k[r] + 1, round[r], mark[r], guard[r])
           \/ Become(r, "stat", round[r], at[r], 1, mark[r], guard[r]),
           UNCHANGED <<resumed, late>>
    PROVE  Kept(r)
<1>0. RankSound(r) /\ MarkIsSound(r) /\ resuming[r] \in Marked
  BY RankFacts DEF RankSound, Marked
<1>1. PICK p \in {"hash", "stat"}, j \in Nat :
          /\ Become(r, p, round[r], at[r], j, mark[r], guard[r])
          /\ j \in DOMAIN Names
          /\ p = "hash" => Names[j] \in Hashed
          /\ p = "stat" => j = 1
  <2>1. ASSUME NEW i \in Nat \ {0}, NEW j \in NextHashed(i)
        PROVE  j \in DOMAIN Names /\ Names[j] \in Hashed /\ j \in Nat
    BY NextHashedIs
  <2>2. 1 \in DOMAIN Names
    <3>1. Position("marker") \in 1 .. Len(Names) BY Positions, RankFacts
    <3> QED BY <3>1, Positions
  <2>3. k[r] + 1 \in Nat \ {0} BY RankFacts
  <2> QED BY <2>1, <2>2, <2>3 DEF HashFrom
<1>2. /\ GuardShape' /\ resuming'[r] = p /\ round'[r] = round[r] /\ at'[r] = at[r] /\ k'[r] = j
      /\ mark'[r] = mark[r] /\ guard'[r] = guard[r] /\ Alone(r)
  <2>1. /\ at[r] \in Steps \cup {0} /\ p \in Marked \cup {"resolve", "failed"}
        /\ round[r] \in 0 .. 2 /\ mark[r] \in Nat /\ guard[r] \in [Name -> Int] /\ GuardShape
        /\ resumed' \in [Readers -> [Name -> Int]] /\ late' \in [Readers -> BOOLEAN]
    BY RankFacts DEF GuardInv, GuardShape, Marked
  <2> QED BY <1>1, <2>1 DEF Become, GuardShape, Alone
<1>3. /\ checkpoints' = checkpoints /\ clock' = clock /\ writer' = writer /\ touched' = touched
      /\ Hashed' = Hashed /\ Saving(at[r])' = Saving(at[r]) /\ late' = late
  BY <1>2 DEF Alone, Hashed, Backend, Saving
<1>4. InOrder(r)'
  <2>1. CASE p = "hash" BY <1>1, <1>2, <1>3, <2>1 DEF InOrder
  <2>2. CASE p = "stat" BY <1>1, <1>2, <2>2 DEF InOrder
  <2> QED BY <2>1, <2>2
<1>5. \A n \in Name : ~(1 > Position(n))
  BY Positions
<1>6. /\ \A n \in Name : Taken(r, n) /\ ~Compared(r, n)' /\ ~HasRead(r, n)' /\ ~Unguarded(r, n)'
  BY <1>0, <1>1, <1>2, <1>5, RankFacts DEF Taken, Compared, HasRead, Unguarded
<1>7. Held(r)' <=> Held(r)
  BY <1>2, <1>3 DEF Held
<1>8. ~late'[r] /\ Held(r)' => HeldIsWhole(r)'
  BY <1>0, <1>2, <1>3, <1>6, <1>7, HashedAreFiles DEF HeldIsWhole, MarkIsSound
<1>9. MarkIsSound(r)'
  BY <1>0, <1>2, <1>3, <1>6, <1>8, RankFacts, HashedAreFiles DEF MarkIsSound
<1>10. \A s \in Steps : Valid(s)' = Valid(s)
  BY <1>3 DEF Valid
<1>11. RankUntouched(r)'
  <2>1. ~touched => /\ IsNewest(at[r]) /\ Held(r)
                    /\ \A n \in Name : guard[r][n] = checkpoints[at[r]][n]
    BY <1>0, <1>6, RankFacts DEF RankUntouched
  <2>2. resuming'[r] \in Marked /\ resuming'[r] \notin {"failed", "resolve"}
    BY <1>2 DEF Marked
  <2>3. at[r] \in Steps BY <1>0 DEF MarkIsSound
  <2>4. ~touched' => IsNewest(at[r])' /\ Held(r)'
    BY <1>2, <1>3, <1>7, <1>10, <2>1, <2>3 DEF IsNewest
  <2>5. ~touched' => \A n \in Name : guard'[r][n] = checkpoints'[at'[r]][n]
    BY <1>2, <1>3, <2>1
  <2> QED BY <2>2, <2>4, <2>5 DEF RankUntouched
<1> QED BY <1>0, <1>2, <1>4, <1>9, <1>11 DEF Kept, RankSound

LEMMA ReadMarkerKeeps ==
    ASSUME GuardConstants, GuardInv, NEW r \in Readers, ReadMarker(r)
    PROVE  Kept(r)
<1>1. /\ resuming[r] = "resolve" /\ round[r] = 0 /\ resumed' = resumed
      /\ late' = [late EXCEPT ![r] = FALSE] /\ late' \in [Readers -> BOOLEAN]
      /\ \A q \in Readers \ {r} : late'[q] = late[q]
  BY RankFacts DEF ReadMarker, RankSound, InOrder, GuardInv, GuardShape
<1>2. ~touched => \A t \in Steps : t > at[r] => ~Valid(t)
  BY <1>1, RankFacts DEF RankUntouched
<1>3. CASE at[r] = 0
  <2>1. ~touched => round[r] = 0 /\ \A s \in Steps : ~Valid(s)
    BY <1>1, <1>2, <1>3, RankFacts
  <2> QED BY <1>1, <1>3, <2>1, FailsKeeps DEF ReadMarker
<1>4. CASE at[r] # 0 /\ checkpoints[at[r]]["marker"] > 0
  <2> DEFINE m == checkpoints[at[r]]["marker"]
  <2>1. at[r] \in Steps /\ m \in 1 .. clock
    BY <1>4, RankFacts DEF Numbered
  <2>2. HashFrom(r, 1, 0, m, Nothing) BY <1>1, <1>4 DEF ReadMarker
  <2>3. ~Saving(at[r])
    BY <1>4, <2>1, RankFacts DEF Numbered
  <2>4. \A f \in Hashed : ~(1 > Position(f)) BY Positions, HashedAreFiles
  <2>5. ~touched => IsNewest(at[r])
    BY <1>2, <1>4, <2>1, RankFacts DEF IsNewest, DiskUntouched
  <2>6. /\ 1 \in Nat \ {0} /\ Nothing \in [Name -> Int]
        /\ Saving(at[r]) => m # writer.number
        /\ ~late'[r] /\ checkpoints[at[r]]["marker"] = m =>
               \A f \in Hashed : 1 > Position(f) => checkpoints[at[r]][f] = m
        /\ ~touched => IsNewest(at[r]) /\ checkpoints[at[r]]["marker"] = m
    BY <2>3, <2>4, <2>5, RankFacts
  <2> HIDE DEF m
  <2> QED BY <1>1, <2>1, <2>2, <2>6, VerifyKeeps
<1>5. CASE at[r] # 0 /\ ~(checkpoints[at[r]]["marker"] > 0)
  <2>1. at[r] \in Steps /\ ~Valid(at[r])
    BY <1>5, RankFacts DEF Valid
  <2>2. ~touched => \A t \in Steps : t >= at[r] => ~Valid(t)
    BY <1>2, <2>1, RankFacts
  <2> QED BY <1>1, <1>5, <2>1, <2>2, PassOverKeeps DEF ReadMarker
<1> QED BY <1>3, <1>4, <1>5

LEMMA HashKeeps ==
    ASSUME GuardConstants, GuardInv, NEW r \in Readers, Hash(r)
    PROVE  Kept(r)
<1>1. /\ resuming[r] = "hash" /\ RankSound(r) /\ MarkIsSound(r) /\ RankUntouched(r)
      /\ resumed' = resumed /\ late' = late /\ late' \in [Readers -> BOOLEAN]
      /\ k[r] \in DOMAIN Names /\ Names[k[r]] \in Hashed /\ Position(Names[k[r]]) = k[r]
  BY RankFacts, Positions DEF Hash, RankSound, InOrder, Marked, GuardInv, GuardShape
<1>2. at[r] \in Steps /\ mark[r] \in 1 .. clock
  BY <1>1 DEF MarkIsSound
<1>3. ~touched => IsNewest(at[r]) /\ Held(r)
  BY <1>1 DEF RankUntouched, Marked
<1>4. CASE checkpoints[at[r]][Names[k[r]]] = mark[r] /\ round[r] = 0
  <2>1. HashFrom(r, k[r] + 1, 0, mark[r], guard[r]) BY <1>1, <1>4 DEF Hash
  <2>2. ASSUME ~late'[r], checkpoints[at[r]]["marker"] = mark[r],
               NEW f \in Hashed, k[r] + 1 > Position(f)
        PROVE  checkpoints[at[r]][f] = mark[r]
    <3>1. f \in Files /\ Position(f) \in Nat /\ Names[Position(f)] = f
      BY Positions, HashedAreFiles
    <3>2. CASE k[r] > Position(f)
      <4>1. Unguarded(r, f) BY <1>1, <1>4, <3>2 DEF Unguarded
      <4> QED BY <1>1, <2>2, <3>1, <4>1 DEF MarkIsSound, HeldIsWhole, Held
    <3>3. CASE k[r] = Position(f) BY <1>4, <3>1, <3>3
    <3>4. k[r] \in Nat BY RankFacts
    <3>5. k[r] > Position(f) \/ k[r] = Position(f) BY <2>2, <3>1, <3>4
    <3> QED BY <3>2, <3>3, <3>5
  <2>3. /\ k[r] + 1 \in Nat \ {0} /\ guard[r] \in [Name -> Int]
        /\ Saving(at[r]) => mark[r] # writer.number
        /\ ~touched => IsNewest(at[r]) /\ checkpoints[at[r]]["marker"] = mark[r]
        /\ \A q \in Readers \ {r} : late'[q] = late[q]
    BY <1>1, <1>3, RankFacts DEF MarkIsSound, Held
  <2> QED BY <1>1, <1>2, <2>1, <2>2, <2>3, VerifyKeeps
<1>5. CASE checkpoints[at[r]][Names[k[r]]] = mark[r] /\ round[r] # 0
  <2>1. round[r] > 0 /\ guard[r]["marker"] = mark[r]
    BY <1>1, <1>5, RankFacts DEF MarkIsSound, Guarding, Marked
  <2> QED BY <1>1, <1>5, <2>1, GuardKeeps DEF Hash
<1>6. CASE checkpoints[at[r]][Names[k[r]]] # mark[r]
  <2>1. touched
    <3>1. ~touched => checkpoints[at[r]][Names[k[r]]] = mark[r]
      BY <1>1, <1>3 DEF IsNewest, Valid, Held
    <3> QED BY <1>6, <3>1, RankFacts DEF GuardInv, GuardShape
  <2>2. CASE round[r] = 0
    BY <1>1, <1>2, <1>6, <2>1, <2>2, PassOverKeeps DEF Hash
  <2>3. CASE round[r] # 0
    BY <1>1, <1>6, <2>1, <2>3, FailsKeeps DEF Hash
  <2> QED BY <2>2, <2>3
<1> QED BY <1>4, <1>5, <1>6

LEMMA GuardMarkerKeeps ==
    ASSUME GuardConstants, GuardInv, NEW r \in Readers, GuardMarker(r)
    PROVE  Kept(r)
<1>1. /\ resuming[r] = "guard" /\ RankSound(r) /\ MarkIsSound(r) /\ RankUntouched(r)
      /\ resumed' = resumed /\ late' = late /\ late' \in [Readers -> BOOLEAN] /\ round[r] > 0
  BY RankFacts DEF GuardMarker, RankSound, InOrder, Marked, GuardInv, GuardShape
<1>2. CASE ~Held(r)
  <2>1. touched
    BY <1>1, <1>2, RankFacts DEF RankUntouched, Marked, GuardInv, GuardShape
  <2>2. Fails(r) BY <1>2 DEF GuardMarker, Held
  <2> QED BY <1>1, <2>1, <2>2, FailsKeeps
<1>3. CASE Held(r)
  <2>1. guard[r]["marker"] = mark[r]
    BY <1>1, <1>3 DEF MarkIsSound, Taken, Marked
  <2>2. \/ HashFrom(r, 1, round[r], mark[r], guard[r])
        \/ Become(r, "stat", round[r], at[r], 1, mark[r], guard[r])
    BY <1>3 DEF GuardMarker, Held
  <2> QED BY <1>1, <2>1, <2>2, GuardKeeps
<1> QED BY <1>2, <1>3

\* The tokens of the next name: taken while resolving, compared in a guard.
LEMMA StatKeeps ==
    ASSUME GuardConstants, GuardInv, NEW r \in Readers, StatFile(r)
    PROVE  Kept(r)
<1> DEFINE n == Names[k[r]]
           token == checkpoints[at[r]][n]
<1>1. /\ resuming[r] = "stat" /\ RankSound(r) /\ MarkIsSound(r) /\ RankUntouched(r)
      /\ resumed' = resumed /\ late' = late /\ late' \in [Readers -> BOOLEAN]
      /\ k[r] \in DOMAIN Names /\ n \in Name /\ Position(n) = k[r]
      /\ k[r] \in Nat /\ round[r] \in 0 .. 2 /\ Len(Names) \in Nat /\ DOMAIN Names = 1 .. Len(Names)
  BY RankFacts, Positions DEF StatFile, RankSound, InOrder, Marked, GuardInv, GuardShape
<1>2. at[r] \in Steps /\ mark[r] \in 1 .. clock /\ token \in Int
  BY <1>1, RankFacts DEF MarkIsSound
<1>3. ~touched => /\ IsNewest(at[r]) /\ Held(r)
                    /\ \A x \in Name : Taken(r, x) => guard[r][x] = checkpoints[at[r]][x]
  BY <1>1 DEF RankUntouched, Marked
<1>4. \A x \in Name : Position(x) \in 1 .. Len(Names) /\ (Position(x) = k[r] => x = n)
  BY <1>1, Positions
<1>5. CASE token = 0 \/ (round[r] # 0 /\ guard[r][n] # token)
  <2>1. touched
    <3>1. ~touched => token # 0
      <4>1. ~touched => checkpoints[at[r]]["marker"] > 0 BY <1>2, <1>3 DEF Held
      <4>2. CASE n = "marker" BY <1>2, <4>1, <4>2
      <4>3. CASE n # "marker"
        <5>1. n \in Files BY <1>1, <4>3 DEF Files
        <5> QED BY <1>2, <5>1, RankFacts DEF DiskUntouched
      <4> QED BY <4>2, <4>3
    <3>2. ~touched /\ round[r] # 0 => guard[r][n] = token
      BY <1>1, <1>3 DEF Taken, Marked
    <3> QED BY <1>5, <3>1, <3>2, RankFacts DEF GuardInv, GuardShape
  <2>2. Fails(r) BY <1>5 DEF StatFile
  <2> QED BY <1>1, <2>1, <2>2, FailsKeeps
<1>6. CASE token # 0 /\ round[r] = 0
  <2> DEFINE last == k[r] = Len(Names)
             g == [guard[r] EXCEPT ![n] = token]
  <2>1. Become(r, IF last THEN "guard" ELSE "stat", IF last THEN 1 ELSE 0, at[r],
           IF last THEN 1 ELSE k[r] + 1, mark[r], g)
    BY <1>1, <1>6 DEF StatFile
  <2>2. /\ GuardShape' /\ Alone(r) /\ at'[r] = at[r] /\ mark'[r] = mark[r] /\ guard'[r] = g
        /\ resuming'[r] = IF last THEN "guard" ELSE "stat"
        /\ round'[r] = IF last THEN 1 ELSE 0
        /\ k'[r] = IF last THEN 1 ELSE k[r] + 1
    <3>1. GuardShape /\ at[r] \in Steps \cup {0} /\ mark[r] \in Nat
      BY <1>1, <1>2, RankFacts DEF GuardInv
    <3>2. resumed' \in [Readers -> [Name -> Int]] BY <1>1, <3>1 DEF GuardShape
    <3>3. g \in [Name -> Int]
      <4> HIDE DEF n, token
      <4> QED BY <1>1, <1>2, RankFacts
    <3>4. (IF last THEN "guard" ELSE "stat") \in Marked \cup {"resolve", "failed"}
      BY DEF Marked
    <3>5. (IF last THEN 1 ELSE 0) \in 0 .. 2 /\ (IF last THEN 1 ELSE k[r] + 1) \in Nat
      BY <1>1
    <3> HIDE DEF last, g
    <3> QED BY <1>1, <2>1, <3>1, <3>2, <3>3, <3>4, <3>5 DEF Become, GuardShape, Alone
  <2>3. /\ checkpoints' = checkpoints /\ clock' = clock /\ writer' = writer /\ touched' = touched
        /\ Hashed' = Hashed /\ Saving(at[r])' = Saving(at[r])
    BY <2>2 DEF Alone, Hashed, Backend, Saving
  <2>4. InOrder(r)' BY <1>1, <2>2 DEF InOrder
  <2>5. ASSUME NEW x \in Name, Taken(r, x)'
        PROVE  \/ x = n /\ g[x] = token
               \/ x # n /\ Taken(r, x) /\ g[x] = guard[r][x]
    <3>1. Position(x) \in Nat /\ Position(x) <= Len(Names) /\ (Position(x) = k[r] => x = n)
      BY <1>1, <1>4
    <3>2. k[r] + 1 > Position(x)
      <4>1. CASE last BY <1>1, <3>1, <4>1
      <4>2. CASE ~last BY <1>1, <2>2, <2>5, <4>2 DEF Taken
      <4> QED BY <4>1, <4>2
    <3>3. x # n => k[r] > Position(x)
      <4> HIDE DEF n
      <4> QED BY <1>1, <3>1, <3>2
    <3>4. g[x] = IF x = n THEN token ELSE guard[r][x] BY RankFacts
    <3>5. x # n => Taken(r, x)
      BY <1>1, <1>6, <3>3 DEF Taken
    <3> QED BY <3>4, <3>5
  <2>6. ASSUME NEW x \in Name, Unguarded(r, x)'
        PROVE  x # n /\ Unguarded(r, x)
    <3>1. ~last /\ k[r] + 1 <= Position(x) BY <2>2, <2>6 DEF Unguarded
    <3> QED BY <1>1, <1>4, <1>6, <3>1 DEF Unguarded
  <2>7. \A x \in Name : ~Compared(r, x)' /\ ~HasRead(r, x)' /\ ~Guarding(r)'
    BY <2>2 DEF Compared, HasRead, Guarding
  <2>8. Held(r)' <=> Held(r) BY <2>2, <2>3 DEF Held
  <2>9. ~late[r] /\ Held(r) => HeldIsWhole(r) /\ \A f \in Files : f = n => token = mark[r]
    <3>1. ASSUME ~late[r], Held(r), n \in Files PROVE token = mark[r]
      <4>1. CASE n \in Hashed
        <5>1. Unguarded(r, n) BY <1>1, <1>6 DEF Unguarded
        <5> QED BY <1>1, <3>1, <4>1, <5>1 DEF MarkIsSound, HeldIsWhole
      <4>2. CASE n \notin Hashed
        BY <1>2, <3>1, <4>2, RankFacts DEF Numbered, Held
      <4> QED BY <4>1, <4>2
    <3> QED BY <1>1, <3>1 DEF MarkIsSound
  <2>10. ~late'[r] /\ Held(r)' => HeldIsWhole(r)'
    <3> HIDE DEF g, token, n
    <3> QED BY <1>1, <2>2, <2>3, <2>5, <2>6, <2>7, <2>8, <2>9, HashedAreFiles DEF HeldIsWhole
  <2>11. Taken(r, "marker")' /\ Held(r)' => guard'[r]["marker"] = mark'[r]
    BY <1>1, <2>2, <2>5, <2>8, RankFacts DEF MarkIsSound, Held
  <2>12. MarkIsSound(r)'
    <3> HIDE DEF g, token, n, last
    <3> QED BY <1>1, <1>2, <2>2, <2>3, <2>7, <2>10, <2>11, RankFacts, HashedAreFiles DEF MarkIsSound
  <2>13. \A s \in Steps : Valid(s)' = Valid(s)
    BY <2>3 DEF Valid
  <2>14. RankUntouched(r)'
    <3>1. ~touched' => IsNewest(at[r])' /\ Held(r)'
      BY <1>2, <1>3, <2>2, <2>3, <2>8, <2>13 DEF IsNewest
    <3>2. ~touched' => \A x \in Name : Taken(r, x)' => guard'[r][x] = checkpoints'[at'[r]][x]
      BY <1>3, <2>2, <2>3, <2>5
    <3>3. resuming'[r] \in Marked /\ resuming'[r] \notin {"failed", "resolve"} BY <2>2 DEF Marked
    <3> QED BY <3>1, <3>2, <3>3 DEF RankUntouched
  <2> QED BY <1>6, <2>2, <2>4, <2>12, <2>14 DEF Kept, RankSound
<1>7. CASE token # 0 /\ round[r] # 0 /\ guard[r][n] = token
  <2> DEFINE last == k[r] = Len(Names)
  <2>1. Become(r, IF last THEN "ready" ELSE "stat", round[r], at[r], k[r] + 1, mark[r], guard[r])
    BY <1>1, <1>7 DEF StatFile
  <2>2. /\ GuardShape' /\ Alone(r) /\ at'[r] = at[r] /\ mark'[r] = mark[r] /\ guard'[r] = guard[r]
        /\ resuming'[r] = IF last THEN "ready" ELSE "stat"
        /\ round'[r] = round[r] /\ k'[r] = k[r] + 1
    <3>1. /\ GuardShape /\ at[r] \in Steps \cup {0} /\ mark[r] \in Nat /\ guard[r] \in [Name -> Int]
          /\ k[r] + 1 \in Nat
      BY <1>1, <1>2, RankFacts DEF GuardInv
    <3>2. resumed' \in [Readers -> [Name -> Int]] BY <1>1, <3>1 DEF GuardShape
    <3>3. (IF last THEN "ready" ELSE "stat") \in Marked \cup {"resolve", "failed"}
      BY DEF Marked
    <3> HIDE DEF last
    <3> QED BY <1>1, <2>1, <3>1, <3>2, <3>3 DEF Become, GuardShape, Alone
  <2>3. /\ checkpoints' = checkpoints /\ clock' = clock /\ writer' = writer /\ touched' = touched
        /\ Hashed' = Hashed /\ Saving(at[r])' = Saving(at[r])
    BY <2>2 DEF Alone, Hashed, Backend, Saving
  <2>4. InOrder(r)' BY <1>1, <1>7, <2>2 DEF InOrder
  <2>5. /\ \A x \in Name : Taken(r, x) /\ ~HasRead(r, x)' /\ ~Unguarded(r, x)'
        /\ Guarding(r) /\ guard[r]["marker"] = mark[r]
    BY <1>1, <1>7, <2>2 DEF Taken, HasRead, Unguarded, Guarding, MarkIsSound, Marked
  <2>6. ASSUME NEW x \in Name, Compared(r, x)'
        PROVE  x = n \/ Compared(r, x)
    <3>1. Position(x) \in Nat /\ Position(x) <= Len(Names) /\ (Position(x) = k[r] => x = n)
      BY <1>1, <1>4
    <3>2. k[r] + 1 > Position(x)
      <4>1. CASE last BY <1>1, <3>1, <4>1
      <4>2. CASE ~last BY <1>1, <2>2, <2>6, <4>2 DEF Compared
      <4> QED BY <4>1, <4>2
    <3>3. x # n => k[r] > Position(x)
      <4> HIDE DEF n
      <4> QED BY <1>1, <3>1, <3>2
    <3>4. round[r] = 2 BY <2>2, <2>6 DEF Compared
    <3> QED BY <1>1, <3>3, <3>4 DEF Compared
  <2>7. Held(r)' <=> Held(r) BY <2>2, <2>3 DEF Held
  <2>8. ~late[r] /\ Held(r) => HeldIsWhole(r) /\ \A f \in Files : f = n => token = mark[r]
    BY <1>1, <1>7, <2>5 DEF MarkIsSound, HeldIsWhole
  <2>9. ~late'[r] /\ Held(r)' => HeldIsWhole(r)'
    <3> HIDE DEF token, n
    <3>1. \A f \in Files : Compared(r, f)' => f = n \/ Compared(r, f)
      BY <2>6, HashedAreFiles
    <3>2. n \in Files => checkpoints[at[r]][n] = token BY DEF token
    <3> QED BY <1>1, <2>2, <2>3, <2>5, <2>7, <2>8, <3>1, <3>2, HashedAreFiles DEF HeldIsWhole
  <2>10. ~late[r] /\ Compared(r, "marker")' => Held(r)
    BY <1>1, <1>7, <2>5, <2>6, RankFacts DEF MarkIsSound, Held
  <2>11. MarkIsSound(r)'
    <3> HIDE DEF token, n, last
    <3> QED BY <1>1, <1>2, <2>2, <2>3, <2>5, <2>7, <2>9, <2>10,
               RankFacts, HashedAreFiles DEF MarkIsSound
  <2>12. \A s \in Steps : Valid(s)' = Valid(s)
    BY <2>3 DEF Valid
  <2>13. RankUntouched(r)'
    <3>1. ~touched' => IsNewest(at[r])' /\ Held(r)'
      BY <1>2, <1>3, <2>2, <2>3, <2>7, <2>12 DEF IsNewest
    <3>2. ~touched' => \A x \in Name : guard'[r][x] = checkpoints'[at'[r]][x]
      BY <1>3, <2>2, <2>3, <2>5
    <3>3. resuming'[r] \in Marked /\ resuming'[r] \notin {"failed", "resolve"} BY <2>2 DEF Marked
    <3> QED BY <3>1, <3>2, <3>3 DEF RankUntouched
  <2> QED BY <1>1, <1>7, <2>2, <2>4, <2>11, <2>13 DEF Kept, RankSound, Marked
<1> QED BY <1>5, <1>6, <1>7

\* What is loaded while the checkpoint is as the last guard found it.
LEMMA LoadKeeps ==
    ASSUME GuardConstants, GuardInv, NEW r \in Readers, LoadFile(r)
    PROVE  Kept(r)
<1> DEFINE n == Names[k[r]]
           last == k[r] = Len(Names)
<1>1. /\ resuming[r] = "load" /\ round[r] = 2 /\ MarkIsSound(r) /\ RankUntouched(r)
      /\ late' = late /\ late' \in [Readers -> BOOLEAN]
      /\ k[r] \in DOMAIN Names /\ n \in Name /\ Position(n) = k[r]
      /\ k[r] \in Nat /\ Len(Names) \in Nat /\ DOMAIN Names = 1 .. Len(Names)
  BY RankFacts, Positions DEF LoadFile, RankSound, InOrder, Marked, GuardInv, GuardShape
<1>2. at[r] \in Steps /\ mark[r] \in 1 .. clock /\ checkpoints[at[r]][n] \in Int
  BY <1>1, RankFacts DEF MarkIsSound
<1>3. /\ Become(r, IF last THEN "done" ELSE "load", round[r], at[r], IF last THEN k[r] ELSE k[r] + 1,
             mark[r], guard[r])
      /\ resumed' = [resumed EXCEPT ![r][n] = checkpoints[at[r]][n]]
  BY <1>1 DEF LoadFile
<1>4. /\ GuardShape' /\ Alone(r) /\ at'[r] = at[r] /\ mark'[r] = mark[r] /\ guard'[r] = guard[r]
      /\ resuming'[r] = IF last THEN "done" ELSE "load"
      /\ round'[r] = 2 /\ k'[r] = IF last THEN k[r] ELSE k[r] + 1
      /\ resumed'[r] = [resumed[r] EXCEPT ![n] = checkpoints[at[r]][n]]
  <2>1. /\ at[r] \in Steps \cup {0} /\ mark[r] \in Nat /\ guard[r] \in [Name -> Int] /\ GuardShape
    BY <1>1, <1>2, RankFacts DEF GuardInv
  <2>2. /\ (IF last THEN "done" ELSE "load") \in Marked \cup {"resolve", "failed"}
        /\ (IF last THEN k[r] ELSE k[r] + 1) \in Nat
    BY <1>1 DEF Marked
  <2>3. resumed' \in [Readers -> [Name -> Int]]
    <3>1. checkpoints[at[r]][n] \in Int /\ n \in Name BY <1>1, <1>2
    <3> HIDE DEF n
    <3> QED BY <1>3, <2>1, <3>1 DEF GuardShape
  <2>4. \A q \in Readers \ {r} : resumed'[q] = resumed[q]
    BY <1>3, <2>1 DEF GuardShape
  <2>5. resumed'[r] = [resumed[r] EXCEPT ![n] = checkpoints[at[r]][n]]
    BY <1>3, <2>1 DEF GuardShape
  <2> HIDE DEF last, n
  <2> QED BY <1>1, <1>3, <2>1, <2>2, <2>3, <2>4, <2>5 DEF Become, GuardShape, Alone
<1>5. /\ checkpoints' = checkpoints /\ clock' = clock /\ writer' = writer /\ touched' = touched
      /\ Hashed' = Hashed /\ Saving(at[r])' = Saving(at[r])
  BY <1>4 DEF Alone, Hashed, Backend, Saving
<1>6. InOrder(r)' BY <1>1, <1>4 DEF InOrder
<1>7. /\ \A x \in Name : Taken(r, x) /\ Compared(r, x) /\ ~Unguarded(r, x)'
      /\ Guarding(r)
  BY <1>1, <1>4 DEF Taken, Compared, Unguarded, Guarding, Marked
<1>8. Held(r)' <=> Held(r) BY <1>4, <1>5 DEF Held
<1>9. ~late[r] => Held(r) /\ HeldIsWhole(r)
  BY <1>1, <1>7, RankFacts DEF MarkIsSound
<1>10. ~late'[r] /\ Held(r)' => HeldIsWhole(r)'
  BY <1>1, <1>4, <1>5, <1>7, <1>9, HashedAreFiles DEF HeldIsWhole
<1>11. ASSUME ~late[r], NEW f \in Files, HasRead(r, f)' PROVE resumed'[r][f] = mark[r]
  <2>1. Position(f) \in Nat /\ Position(f) <= Len(Names) /\ (Position(f) = k[r] => f = n)
    BY <1>1, Positions, HashedAreFiles
  <2>2. CASE f = n
    BY <1>4, <1>7, <1>9, <1>11, <2>2, HashedAreFiles, RankFacts DEF HeldIsWhole
  <2>3. CASE f # n
    <3>1. k[r] + 1 > Position(f)
      <4>1. CASE last BY <1>1, <2>1, <4>1
      <4>2. CASE ~last BY <1>1, <1>4, <1>11, <4>2 DEF HasRead
      <4> QED BY <4>1, <4>2
    <3>2. k[r] > Position(f)
      <4> HIDE DEF n
      <4> QED BY <1>1, <2>1, <2>3, <3>1
    <3>3. HasRead(r, f) BY <1>1, <3>2 DEF HasRead
    <3>4. resumed[r][f] = mark[r] BY <1>1, <1>11, <3>3 DEF MarkIsSound
    <3> QED BY <1>4, <2>3, <3>4, HashedAreFiles, RankFacts
  <2> QED BY <2>2, <2>3
<1>12. MarkIsSound(r)'
  <2> HIDE DEF n, last
  <2> QED BY <1>1, <1>2, <1>4, <1>5, <1>7, <1>8, <1>9, <1>10, <1>11,
             RankFacts, HashedAreFiles DEF MarkIsSound
<1>13. \A s \in Steps : Valid(s)' = Valid(s)
  BY <1>5 DEF Valid
<1>14. RankUntouched(r)'
  <2>1. ~touched' => IsNewest(at[r])' /\ Held(r)'
    BY <1>1, <1>2, <1>4, <1>5, <1>8, <1>13 DEF IsNewest, RankUntouched, Marked
  <2>2. ~touched' => \A x \in Name : guard'[r][x] = checkpoints'[at'[r]][x]
    BY <1>1, <1>4, <1>5, <1>7 DEF RankUntouched, Marked
  <2>3. resuming'[r] \in Marked /\ resuming'[r] \notin {"failed", "resolve"} BY <1>4 DEF Marked
  <2> QED BY <2>1, <2>2, <2>3 DEF RankUntouched
<1> QED BY <1>1, <1>4, <1>6, <1>12, <1>14 DEF Kept, RankSound, Marked

LEMMA RankStepKeeps ==
    ASSUME GuardConstants, GuardInv, NEW r \in Readers, ResumeStep(r)
    PROVE  GuardInv'
<1>1. Kept(r)
  BY ReadMarkerKeeps, HashKeeps, StatKeeps, GuardMarkerKeeps, LoadKeeps DEF ResumeStep
<1>2. /\ GuardShape' /\ Alone(r)
      /\ checkpoints' = checkpoints /\ clock' = clock /\ writer' = writer /\ touched' = touched
      /\ Hashed' = Hashed
  BY <1>1 DEF Kept, Alone, Hashed, Backend
<1>3. ASSUME NEW q \in Readers PROVE RankSound(q)' /\ RankUntouched(q)'
  <2>1. CASE q = r BY <1>1, <2>1 DEF Kept
  <2>2. CASE q # r
    <3>1. /\ resuming'[q] = resuming[q] /\ round'[q] = round[q] /\ at'[q] = at[q]
          /\ k'[q] = k[q] /\ mark'[q] = mark[q] /\ guard'[q] = guard[q]
          /\ late'[q] = late[q] /\ resumed'[q] = resumed[q]
      BY <1>2, <2>2 DEF Alone
    <3>2. RankSound(q) /\ RankUntouched(q) BY RankFacts
    <3>3. RankSound(q)'
      BY <1>2, <3>1, <3>2 DEF RankSound, InOrder, MarkIsSound, HeldIsWhole, Held, Saving, Unguarded,
                              Taken, Compared, Guarding, HasRead
    <3>4. RankUntouched(q)'
      BY <1>2, <3>1, <3>2 DEF RankUntouched, IsNewest, Valid, Held, Taken
    <3> QED BY <3>3, <3>4
  <2> QED BY <2>1, <2>2
<1>4. Agreed'
  <2> SUFFICES ASSUME NEW p \in Readers, NEW q \in Readers,
                      round'[p] = 2, round'[q] = 2, resuming'[p] \in Marked, resuming'[q] \in Marked
               PROVE  at'[p] = at'[q] /\ mark'[p] = mark'[q]
    BY DEF Agreed
  <2>1. \A x \in {p, q} : /\ round[x] = 2 /\ resuming[x] \in Marked
                          /\ at'[x] = at[x] /\ mark'[x] = mark[x]
    BY <1>1, <1>2 DEF Kept, Alone
  <2> QED BY <2>1 DEF GuardInv, Agreed
<1>5. Numbered' /\ DiskUntouched'
  BY <1>2, RankFacts DEF Numbered, DiskUntouched, Valid, Saving
<1> QED BY <1>2, <1>3, <1>4, <1>5 DEF GuardInv

\* The ranks go on together, from one checkpoint and marker, or all fail.
LEMMA ConvergeKeeps ==
    ASSUME GuardConstants, GuardInv, AgreeOnStage
    PROVE  GuardInv'
<1> DEFINE agreed == \A q, r \in Readers : resuming[r] = "ready" /\ at[q] = at[r] /\ mark[q] = mark[r]
<1>1. /\ \A r \in Readers : resuming[r] \in {"ready", "failed"}
      /\ agreed \/ \E r \in Readers : resuming[r] = "ready"
      /\ resuming' = [r \in Readers |-> IF ~agreed THEN "failed"
                                   ELSE IF round[r] = 1 THEN "guard" ELSE "load"]
      /\ round' = [r \in Readers |-> IF agreed THEN 2 ELSE round[r]]
      /\ k' = [r \in Readers |-> 1]
      /\ checkpoints' = checkpoints /\ clock' = clock /\ writer' = writer /\ touched' = touched
      /\ at' = at /\ mark' = mark /\ guard' = guard /\ resumed' = resumed /\ late' = late
      /\ protocol' = protocol /\ Hashed' = Hashed
  BY DEF AgreeOnStage, Hashed, Backend
<1>2. \A s \in Steps : Valid(s)' = Valid(s) BY <1>1 DEF Valid
<1>3. GuardShape'
  <2>1. resuming' \in [Readers -> Marked \cup {"resolve", "failed"}] BY <1>1 DEF Marked
  <2>2. round' \in [Readers -> 0 .. 2] BY <1>1 DEF GuardInv, GuardShape
  <2>3. k' \in [Readers -> Nat] BY <1>1
  <2> QED BY <1>1, <2>1, <2>2, <2>3 DEF GuardInv, GuardShape
<1>4. Numbered' /\ DiskUntouched'
  <2>1. Numbered' BY <1>1 DEF GuardInv, Numbered, Saving
  <2>2. DiskUntouched' BY <1>1 DEF GuardInv, DiskUntouched, Valid
  <2> QED BY <2>1, <2>2
<1>5. CASE agreed
  <2>1. 1 \in DOMAIN Names /\ \A n \in Name : ~(1 > Position(n))
    <3>1. Position("marker") \in 1 .. Len(Names) BY Positions DEF GuardConstants
    <3> QED BY <3>1, Positions
  <2>2. ASSUME NEW r \in Readers PROVE RankSound(r)' /\ RankUntouched(r)'
    <3>1. /\ resuming[r] = "ready" /\ resuming'[r] \in {"guard", "load"} /\ round'[r] = 2 /\ k'[r] = 1
          /\ (resuming'[r] = "load" => round[r] = 2) /\ round[r] > 0
      BY <1>1, <1>5, RankFacts DEF RankSound, InOrder
    <3>2. MarkIsSound(r) /\ RankUntouched(r) /\ RankSound(r)
      BY <3>1, RankFacts DEF RankSound, Marked
    <3>3. InOrder(r)' BY <1>1, <2>1, <3>1 DEF InOrder
    <3>4. /\ \A n \in Name : /\ Taken(r, n) /\ ~Unguarded(r, n)' /\ ~HasRead(r, n)'
                             /\ Compared(r, n)' => Compared(r, n)
          /\ Guarding(r)
      BY <2>1, <3>1, RankFacts DEF Taken, Unguarded, HasRead, Compared, Guarding, Marked
    <3>5. Held(r)' <=> Held(r) BY <1>1 DEF Held
    <3>6. ~late'[r] /\ Held(r)' => HeldIsWhole(r)'
      BY <1>1, <3>2, <3>4, <3>5, HashedAreFiles DEF MarkIsSound, HeldIsWhole
    <3>7. Saving(at[r])' = Saving(at[r]) BY <1>1 DEF Saving
    <3>8. MarkIsSound(r)'
      BY <1>1, <3>2, <3>4, <3>5, <3>6, <3>7, RankFacts, HashedAreFiles DEF MarkIsSound
    <3>9. RankUntouched(r)'
      <4>1. at[r] \in Steps BY <3>2 DEF MarkIsSound
      <4>2. ~touched => IsNewest(at[r])' /\ Held(r)'
        BY <1>1, <1>2, <3>1, <3>2, <3>5, <4>1 DEF RankUntouched, IsNewest, Marked
      <4>3. ~touched' => \A n \in Name : guard'[r][n] = checkpoints'[at'[r]][n]
        BY <1>1, <3>1, <3>2, <3>4 DEF RankUntouched, Marked
      <4>4. resuming'[r] \in Marked /\ resuming'[r] \notin {"failed", "resolve"} BY <3>1 DEF Marked
      <4> QED BY <1>1, <4>2, <4>3, <4>4 DEF RankUntouched
    <3> QED BY <3>3, <3>8, <3>9 DEF RankSound
  <2>3. Agreed' BY <1>1, <1>5 DEF Agreed
  <2> QED BY <1>3, <1>4, <2>2, <2>3 DEF GuardInv
<1>6. CASE ~agreed
  <2>1. touched
    <3> SUFFICES ASSUME ~touched PROVE FALSE BY DEF GuardInv, GuardShape
    <3>1. PICK r \in Readers : resuming[r] = "ready" BY <1>1, <1>6
    <3>2. at[r] \in Steps /\ Valid(at[r]) BY <3>1, RankFacts
             DEF RankSound, MarkIsSound, RankUntouched, IsNewest, Marked
    <3>3. \A q \in Readers : resuming[q] = "ready"
      BY <1>1, <3>2, RankFacts DEF RankUntouched
    <3>4. \A q \in Readers : at[q] \in Steps /\ IsNewest(at[q]) /\ Held(q)
      BY <3>3, RankFacts DEF RankSound, MarkIsSound, RankUntouched, Marked
    <3>5. \A p, q \in Readers : at[p] = at[q]
      <4>1. ASSUME NEW p \in Readers, NEW q \in Readers PROVE ~(at[p] > at[q])
        BY <3>4 DEF IsNewest
      <4>2. ASSUME NEW p \in Readers, NEW q \in Readers PROVE at[p] = at[q]
        <5>1. at[p] \in Nat /\ at[q] \in Nat BY <3>4, RankFacts
        <5>2. ~(at[p] > at[q]) /\ ~(at[q] > at[p]) BY <4>1
        <5> QED BY <5>1, <5>2
      <4> QED BY <4>2
    <3>6. \A p, q \in Readers : mark[p] = mark[q]
      BY <3>4, <3>5 DEF Held
    <3> QED BY <1>6, <3>3, <3>5, <3>6
  <2>2. \A r \in Readers : resuming'[r] = "failed" BY <1>1, <1>6
  <2>3. \A r \in Readers : RankSound(r)' /\ RankUntouched(r)'
    BY <1>1, <2>1, <2>2 DEF RankSound, InOrder, RankUntouched, Marked
  <2>4. Agreed' BY <2>2 DEF Agreed, Marked
  <2> QED BY <1>3, <1>4, <2>3, <2>4 DEF GuardInv
<1> QED BY <1>5, <1>6

-----------------------------------------------------------------------------
\* A write to one name of one checkpoint: what is under the guard that it does not see, or
\* the marker is not the one a rank has verified.
LEMMA WriteKeeps ==
    ASSUME GuardConstants, GuardInv, NEW s \in Steps, NEW n \in Name, NEW content \in Int,
           Write(s, n, content),
           clock' \in Nat, clock' >= clock, writer' \in [step : Steps \cup {0}, number : Nat],
           late' \in [Readers -> BOOLEAN], \A q \in Readers : late[q] => late'[q],
           \A q \in Readers : resuming[q] \in Marked =>
               /\ Saving(at[q])' => mark[q] # writer'.number
               /\ at[q] = s /\ n = "marker" =>
                      content # mark[q] /\ (Compared(q, "marker") /\ Held(q) => late'[q])
               /\ at[q] = s /\ n # "marker" /\ Held(q) =>
                      /\ Compared(q, n) => late'[q]
                      /\ n \in Hashed /\ Unguarded(q, n) => late'[q]
    PROVE  /\ GuardShape' /\ Agreed' /\ DiskUntouched'
           /\ \A q \in Readers : (RankSound(q) /\ RankUntouched(q))'
<1>1. /\ checkpoints' = [checkpoints EXCEPT ![s][n] = content] /\ touched' = TRUE
      /\ protocol' = protocol /\ resuming' = resuming /\ round' = round /\ at' = at /\ k' = k
      /\ mark' = mark /\ guard' = guard /\ resumed' = resumed /\ Hashed' = Hashed
  BY DEF Write, rank, Hashed, Backend
<1>2. /\ checkpoints' \in [Steps -> [Name -> Int]]
      /\ \A t \in Steps, x \in Name : checkpoints'[t][x] = IF t = s /\ x = n THEN content ELSE checkpoints[t][x]
  BY <1>1 DEF GuardInv, GuardShape
<1>3. GuardShape' BY <1>1, <1>2 DEF GuardInv, GuardShape
<1>4. Agreed' BY <1>1 DEF GuardInv, Agreed
<1>5. DiskUntouched' /\ \A q \in Readers : RankUntouched(q)'
  BY <1>1 DEF DiskUntouched, RankUntouched
<1>6. ASSUME NEW q \in Readers PROVE RankSound(q)'
  <2>1. InOrder(q)' BY <1>1, RankFacts DEF RankSound, InOrder
  <2>2. CASE resuming[q] \notin Marked BY <1>1, <2>1, <2>2 DEF RankSound
  <2>3. CASE resuming[q] \in Marked
    <3>1. MarkIsSound(q) /\ at[q] \in Steps /\ mark[q] \in 1 .. clock
      BY <2>3, RankFacts DEF RankSound, MarkIsSound
    <3>2. /\ \A x \in Name : /\ Taken(q, x)' = Taken(q, x) /\ Compared(q, x)' = Compared(q, x)
                             /\ Unguarded(q, x)' = Unguarded(q, x) /\ HasRead(q, x)' = HasRead(q, x)
          /\ Guarding(q)' = Guarding(q)
      BY <1>1 DEF Taken, Compared, Unguarded, HasRead, Guarding
    <3>3. Held(q)' => Held(q) /\ ~(at[q] = s /\ n = "marker")
      BY <1>1, <1>2, <2>3, <3>1, RankFacts DEF Held
    <3>4. ~(at[q] = s /\ n = "marker") => (Held(q)' <=> Held(q))
      BY <1>1, <1>2, <3>1, RankFacts DEF Held
    <3>5. ~late'[q] => ~late[q] BY RankFacts
    <3>6. ASSUME ~late'[q], Held(q)' PROVE HeldIsWhole(q)'
      <4>1. Held(q) /\ HeldIsWhole(q) /\ ~(at[q] = s /\ n = "marker")
        BY <3>1, <3>3, <3>5, <3>6 DEF MarkIsSound
      <4>2. ASSUME NEW f \in Files, (f \in Hashed /\ Unguarded(q, f)) \/ Compared(q, f)
            PROVE  checkpoints'[at[q]][f] = mark[q]
        <5>1. ~(at[q] = s /\ f = n) BY <2>3, <3>6, <4>1, <4>2, HashedAreFiles
        <5> QED BY <1>2, <3>1, <4>1, <4>2, <5>1, HashedAreFiles DEF HeldIsWhole
      <4> QED BY <1>1, <3>2, <4>1, <4>2, HashedAreFiles DEF HeldIsWhole
    <3>7. ~late'[q] /\ Compared(q, "marker") => Held(q)'
      BY <2>3, <3>1, <3>4, <3>5 DEF MarkIsSound
    <3>8. (Taken(q, "marker") /\ Held(q)') \/ Guarding(q) => guard[q]["marker"] = mark[q]
      BY <3>1, <3>3 DEF MarkIsSound
    <3>9. /\ Saving(at[q])' => mark[q] # writer'.number
          /\ mark[q] \in 1 .. clock'
      BY <2>3, <3>1, RankFacts
    <3>10. ~late'[q] => \A f \in Files : HasRead(q, f) => resumed[q][f] = mark[q]
      BY <3>1, <3>5 DEF MarkIsSound
    <3>11. MarkIsSound(q)'
      BY <1>1, <3>1, <3>2, <3>6, <3>7, <3>8, <3>9, <3>10, RankFacts, HashedAreFiles DEF MarkIsSound
    <3> QED BY <2>1, <3>11 DEF RankSound
  <2> QED BY <2>2, <2>3
<1> QED BY <1>3, <1>4, <1>5, <1>6

\* What a rank relies on in the world.
LEMMA MarkFacts ==
    ASSUME GuardConstants, GuardInv, NEW q \in Readers, resuming[q] \in Marked
    PROVE  /\ at[q] \in Steps /\ mark[q] \in 1 .. clock
           /\ Saving(at[q]) => mark[q] # writer.number /\ ~Held(q)
BY RankFacts DEF RankSound, MarkIsSound, Numbered, Held

LEMMA WorldFacts ==
    ASSUME GuardConstants, GuardInv
    PROVE  /\ Numbered /\ DiskUntouched /\ clock \in Nat /\ late \in [Readers -> BOOLEAN]
           /\ checkpoints \in [Steps -> [Name -> Int]] /\ writer \in [step : Steps \cup {0}, number : Nat]
           /\ Steps \subseteq Nat \ {0} /\ "marker" \in Name
BY DEF GuardInv, GuardShape, GuardConstants

LEMMA BeginSaveKeeps ==
    ASSUME GuardConstants, GuardInv, NEW s \in Steps, BeginSave(s)
    PROVE  GuardInv'
<1> DEFINE content == IF Backend THEN -(clock + 1) ELSE 0
<1>1. /\ Write(s, "marker", content) /\ clock' = clock + 1
      /\ writer' = [step |-> s, number |-> clock + 1]
      /\ late' = [r \in Readers |-> late[r] \/ (at[r] = s /\ Compared(r, "marker"))]
  BY DEF BeginSave
<1>2. /\ content \in Int /\ content <= 0 /\ clock' \in Nat /\ clock' >= clock
      /\ writer' \in [step : Steps \cup {0}, number : Nat]
      /\ writer'.step = s /\ writer'.number = clock + 1 /\ late' \in [Readers -> BOOLEAN]
  BY <1>1, WorldFacts
<1>3. ASSUME NEW q \in Readers, resuming[q] \in Marked
      PROVE  /\ Saving(at[q])' => mark[q] # writer'.number
             /\ at[q] = s => content # mark[q] /\ (Compared(q, "marker") => late'[q])
  <2>1. mark[q] \in 1 .. clock /\ clock \in Nat BY <1>3, MarkFacts, WorldFacts
  <2>2. mark[q] # writer'.number BY <1>2, <2>1
  <2>3. at[q] = s /\ Compared(q, "marker") => late'[q] BY <1>1
  <2> HIDE DEF content
  <2> QED BY <1>2, <2>1, <2>2, <2>3
<1>4. \A q \in Readers : late[q] => late'[q] BY <1>1
<1>5. /\ GuardShape' /\ Agreed' /\ DiskUntouched'
      /\ \A q \in Readers : (RankSound(q) /\ RankUntouched(q))'
  <2> HIDE DEF content
  <2> QED BY <1>1, <1>2, <1>3, <1>4, WorldFacts, WriteKeeps
<1>6. Numbered'
  <2>1. /\ checkpoints' = [checkpoints EXCEPT ![s]["marker"] = content] /\ Hashed' = Hashed
        /\ \A t \in Steps, x \in Name :
              checkpoints'[t][x] = IF t = s /\ x = "marker" THEN content ELSE checkpoints[t][x]
    BY <1>1, WorldFacts DEF Write, Hashed, Backend
  <2> HIDE DEF content
  <2>2. writer' # NoSave /\ writer'.step \in Steps /\ writer'.number \in 1 .. clock'
    BY <1>1, <1>2, WorldFacts DEF NoSave
  <2>3. ASSUME NEW t \in Steps
        PROVE  /\ \A x \in Name : checkpoints'[t][x] <= clock'
               /\ Saving(t)' => checkpoints'[t]["marker"] <= 0
               /\ checkpoints'[t]["marker"] > 0 =>
                     \A f \in Files \ Hashed : checkpoints'[t][f] = checkpoints'[t]["marker"]
    <3>1. \A x \in Name : checkpoints'[t][x] <= clock'
      BY <1>1, <1>2, <2>1, WorldFacts DEF Numbered
    <3>2. Saving(t)' => checkpoints'[t]["marker"] <= 0
      BY <1>2, <2>1, WorldFacts DEF Saving
    <3>3. checkpoints'[t]["marker"] > 0 => \A f \in Files \ Hashed : checkpoints'[t][f] = checkpoints'[t]["marker"]
      BY <1>2, <2>1, WorldFacts, HashedAreFiles DEF Numbered
    <3> QED BY <3>1, <3>2, <3>3
  <2> QED BY <2>1, <2>2, <2>3 DEF Numbered
<1> QED BY <1>5, <1>6 DEF GuardInv

LEMMA WriteFileKeeps ==
    ASSUME GuardConstants, GuardInv, NEW f \in Files, WriteFile(f)
    PROVE  GuardInv'
<1> DEFINE s == writer.step
           content == writer.number
<1>1. /\ writer # NoSave /\ Write(s, f, content)
      /\ writer' = writer /\ clock' = clock /\ late' = late
  BY DEF WriteFile
<1>2. s \in Steps /\ content \in 1 .. clock /\ f \in Name /\ f # "marker" /\ content \in Int
  BY <1>1, WorldFacts, HashedAreFiles DEF Numbered
<1>3. ASSUME NEW q \in Readers, resuming[q] \in Marked
      PROVE  /\ Saving(at[q])' => mark[q] # writer'.number
             /\ ~(at[q] = s /\ Held(q))
  <2>1. Saving(at[q])' = Saving(at[q])
    BY <1>1 DEF Write, rank, Saving
  <2>2. at[q] = s => Saving(at[q]) BY <1>1 DEF Saving
  <2> QED BY <1>1, <1>3, <2>1, <2>2, MarkFacts
<1>4. /\ GuardShape' /\ Agreed' /\ DiskUntouched'
      /\ \A q \in Readers : (RankSound(q) /\ RankUntouched(q))'
  <2> HIDE DEF s, content
  <2>1. clock' \in Nat /\ clock' >= clock /\ late' \in [Readers -> BOOLEAN]
        /\ writer' \in [step : Steps \cup {0}, number : Nat] /\ \A q \in Readers : late[q] => late'[q]
    BY <1>1, WorldFacts
  <2> QED BY <1>1, <1>2, <1>3, <2>1, WriteKeeps
<1>5. Numbered'
  <2>1. /\ checkpoints' = [checkpoints EXCEPT ![s][f] = content] /\ Hashed' = Hashed
        /\ \A t \in Steps, x \in Name :
              checkpoints'[t][x] = IF t = s /\ x = f THEN content ELSE checkpoints[t][x]
    BY <1>1, <1>2, WorldFacts DEF Write, Hashed, Backend
  <2>2. checkpoints[s]["marker"] <= 0 BY <1>1, <1>2, WorldFacts DEF Numbered, Saving
  <2>3. ASSUME NEW t \in Steps
        PROVE  /\ \A x \in Name : checkpoints'[t][x] <= clock'
               /\ Saving(t)' => checkpoints'[t]["marker"] <= 0
               /\ checkpoints'[t]["marker"] > 0 =>
                     \A x \in Files \ Hashed : checkpoints'[t][x] = checkpoints'[t]["marker"]
    <3> HIDE DEF content, s
    <3>1. \A x \in Name : checkpoints'[t][x] <= clock'
      BY <1>1, <1>2, <2>1, WorldFacts DEF Numbered
    <3>2. checkpoints'[t]["marker"] = checkpoints[t]["marker"] BY <1>2, <2>1, WorldFacts
    <3>3. Saving(t)' = Saving(t) BY <1>1 DEF Saving
    <3>4. checkpoints'[t]["marker"] > 0 => \A x \in Files \ Hashed : checkpoints'[t][x] = checkpoints'[t]["marker"]
      BY <1>2, <2>1, <2>2, <3>2, WorldFacts, HashedAreFiles DEF Numbered
    <3> QED BY <3>1, <3>2, <3>3, <3>4, WorldFacts DEF Numbered
  <2>4. writer' # NoSave => writer'.step \in Steps /\ writer'.number \in 1 .. clock'
    BY <1>1, WorldFacts DEF Numbered, NoSave
  <2> QED BY <2>1, <2>3, <2>4 DEF Numbered
<1> QED BY <1>4, <1>5 DEF GuardInv

LEMMA PublishKeeps ==
    ASSUME GuardConstants, GuardInv, PublishMarker
    PROVE  GuardInv'
<1> DEFINE s == writer.step
           content == writer.number
<1>1. /\ writer # NoSave /\ Write(s, "marker", content) /\ writer' = NoSave /\ clock' = clock
      /\ late' = late /\ \A f \in Files : checkpoints[s][f] = content
  BY DEF PublishMarker
<1>2. s \in Steps /\ content \in 1 .. clock /\ content \in Int
  BY <1>1, WorldFacts DEF Numbered
<1>3. ASSUME NEW q \in Readers, resuming[q] \in Marked
      PROVE  /\ ~Saving(at[q])'
             /\ at[q] = s => content # mark[q] /\ ~Held(q)
  <2>1. ~Saving(at[q])' BY <1>1 DEF Saving
  <2>2. at[q] = s => Saving(at[q]) BY <1>1 DEF Saving
  <2> QED BY <1>3, <2>1, <2>2, MarkFacts
<1>4. /\ GuardShape' /\ Agreed' /\ DiskUntouched'
      /\ \A q \in Readers : (RankSound(q) /\ RankUntouched(q))'
  <2> HIDE DEF s, content
  <2>1. clock' \in Nat /\ clock' >= clock /\ late' \in [Readers -> BOOLEAN]
        /\ writer' \in [step : Steps \cup {0}, number : Nat] /\ \A q \in Readers : late[q] => late'[q]
    BY <1>1, WorldFacts DEF NoSave
  <2> QED BY <1>1, <1>2, <1>3, <2>1, WorldFacts, WriteKeeps
<1>5. Numbered'
  <2>1. /\ Hashed' = Hashed
        /\ \A t \in Steps, x \in Name :
              checkpoints'[t][x] = IF t = s /\ x = "marker" THEN content ELSE checkpoints[t][x]
    BY <1>1, <1>2, WorldFacts DEF Write, Hashed, Backend
  <2>2. ASSUME NEW t \in Steps
        PROVE  /\ \A x \in Name : checkpoints'[t][x] <= clock'
               /\ checkpoints'[t]["marker"] > 0 =>
                     \A x \in Files \ Hashed : checkpoints'[t][x] = checkpoints'[t]["marker"]
    <3> HIDE DEF content, s
    <3>1. \A x \in Name : checkpoints'[t][x] <= clock'
      BY <1>1, <1>2, <2>1, WorldFacts DEF Numbered
    <3>2. checkpoints'[t]["marker"] > 0 => \A x \in Files \ Hashed : checkpoints'[t][x] = checkpoints'[t]["marker"]
      BY <1>1, <1>2, <2>1, WorldFacts, HashedAreFiles DEF Numbered
    <3> QED BY <3>1, <3>2
  <2> QED BY <1>1, <2>1, <2>2 DEF Numbered, Saving
<1> QED BY <1>4, <1>5 DEF GuardInv

LEMMA KillSaveKeeps ==
    ASSUME GuardConstants, GuardInv, KillSave
    PROVE  GuardInv'
<1>1. /\ writer' = NoSave /\ protocol' = protocol /\ checkpoints' = checkpoints /\ clock' = clock
      /\ resuming' = resuming /\ round' = round /\ at' = at /\ k' = k /\ mark' = mark /\ guard' = guard
      /\ resumed' = resumed /\ late' = late /\ touched' = touched /\ Hashed' = Hashed
  BY DEF KillSave, rank, Hashed, Backend
<1>2. \A t : ~Saving(t)' BY <1>1 DEF Saving
<1>3. GuardShape' BY <1>1 DEF GuardInv, GuardShape, NoSave
<1>4. Numbered' BY <1>1, <1>2 DEF GuardInv, Numbered
<1>5. Agreed' BY <1>1 DEF GuardInv, Agreed
<1>6. DiskUntouched' BY <1>1 DEF GuardInv, DiskUntouched, Valid
<1>7. ASSUME NEW q \in Readers PROVE RankSound(q)' /\ RankUntouched(q)'
  <2>1. RankSound(q)'
    BY <1>1, <1>2, RankFacts DEF RankSound, InOrder, MarkIsSound, HeldIsWhole, Held, Unguarded,
                                 Taken, Compared, Guarding, HasRead
  <2>2. RankUntouched(q)'
    BY <1>1, RankFacts DEF RankUntouched, IsNewest, Valid, Held, Taken
  <2> QED BY <2>1, <2>2
<1> QED BY <1>3, <1>4, <1>5, <1>6, <1>7 DEF GuardInv

\* The one write that no marker announces: only a fresh number, of a file that is hashed.
LEMMA ReplaceKeeps ==
    ASSUME GuardConstants, GuardInv, NEW s \in Steps, NEW f \in Hashed, Replace(s, f)
    PROVE  GuardInv'
<1> DEFINE content == clock + 1
<1>1. /\ Write(s, f, content) /\ clock' = clock + 1 /\ writer' = writer
      /\ late' = [r \in Readers |-> late[r] \/ (at[r] = s /\ (Compared(r, f) \/ Unguarded(r, f)))]
  BY DEF Replace
<1>2. /\ content \in Int /\ clock' \in Nat /\ clock' >= clock /\ f \in Name /\ f # "marker"
      /\ writer' \in [step : Steps \cup {0}, number : Nat] /\ late' \in [Readers -> BOOLEAN]
  BY <1>1, WorldFacts, HashedAreFiles
<1>3. ASSUME NEW q \in Readers, resuming[q] \in Marked
      PROVE  /\ Saving(at[q])' => mark[q] # writer'.number
             /\ at[q] = s /\ (Compared(q, f) \/ Unguarded(q, f)) => late'[q]
  <2>1. Saving(at[q])' = Saving(at[q]) BY <1>1 DEF Write, rank, Saving
  <2> QED BY <1>1, <1>3, <2>1, MarkFacts
<1>4. \A q \in Readers : late[q] => late'[q] BY <1>1
<1>5. /\ GuardShape' /\ Agreed' /\ DiskUntouched'
      /\ \A q \in Readers : (RankSound(q) /\ RankUntouched(q))'
  <2> HIDE DEF content
  <2> QED BY <1>1, <1>2, <1>3, <1>4, WriteKeeps
<1>6. Numbered'
  <2>1. /\ Hashed' = Hashed
        /\ \A t \in Steps, x \in Name :
              checkpoints'[t][x] = IF t = s /\ x = f THEN content ELSE checkpoints[t][x]
    BY <1>1, <1>2, WorldFacts DEF Write, Hashed, Backend
  <2>2. ASSUME NEW t \in Steps
        PROVE  /\ \A x \in Name : checkpoints'[t][x] <= clock'
               /\ Saving(t)' => checkpoints'[t]["marker"] <= 0
               /\ checkpoints'[t]["marker"] > 0 =>
                     \A x \in Files \ Hashed : checkpoints'[t][x] = checkpoints'[t]["marker"]
    <3>1. \A x \in Name : checkpoints'[t][x] <= clock'
      BY <1>1, <2>1, WorldFacts DEF Numbered
    <3>2. checkpoints'[t]["marker"] = checkpoints[t]["marker"] BY <1>2, <2>1, WorldFacts
    <3>3. Saving(t)' = Saving(t) BY <1>1 DEF Saving
    <3>4. \A x \in Files \ Hashed : checkpoints'[t][x] = checkpoints[t][x] BY <2>1, HashedAreFiles
    <3> QED BY <3>1, <3>2, <3>3, <3>4, WorldFacts DEF Numbered
  <2>3. writer' # NoSave => writer'.step \in Steps /\ writer'.number \in 1 .. clock'
    BY <1>1, WorldFacts DEF Numbered, NoSave
  <2> QED BY <2>1, <2>2, <2>3 DEF Numbered
<1> QED BY <1>5, <1>6 DEF GuardInv

LEMMA GuardStepKeeps ==
    ASSUME GuardConstants, GuardInv, [ResumeNext]_resumeVars
    PROVE  GuardInv'
<1>1. CASE UNCHANGED resumeVars
  <2>1. /\ writer' = writer /\ protocol' = protocol /\ checkpoints' = checkpoints /\ clock' = clock
        /\ resuming' = resuming /\ round' = round /\ at' = at /\ k' = k /\ mark' = mark /\ guard' = guard
        /\ resumed' = resumed /\ late' = late /\ touched' = touched /\ Hashed' = Hashed
    BY <1>1 DEF resumeVars, rank, Hashed, Backend
  <2>2. GuardShape' /\ Numbered' /\ Agreed' /\ DiskUntouched'
    BY <2>1 DEF GuardInv, GuardShape, Numbered, Agreed, DiskUntouched, Valid, Saving
  <2>3. ASSUME NEW q \in Readers PROVE RankSound(q)' /\ RankUntouched(q)'
    <3>1. RankSound(q)'
      BY <2>1, RankFacts DEF RankSound, InOrder, MarkIsSound, HeldIsWhole, Held, Saving, Unguarded,
                             Taken, Compared, Guarding, HasRead
    <3>2. RankUntouched(q)'
      BY <2>1, RankFacts DEF RankUntouched, IsNewest, Valid, Held, Taken
    <3> QED BY <3>1, <3>2
  <2> QED BY <2>2, <2>3 DEF GuardInv
<1>2. CASE \E r \in Readers : ResumeStep(r) BY <1>2, RankStepKeeps
<1>3. CASE AgreeOnStage BY <1>3, ConvergeKeeps
<1>4. CASE OtherStep
  <2>1. CASE \E s \in Steps : BeginSave(s) BY <2>1, BeginSaveKeeps
  <2>2. CASE \E s \in Steps, f \in Hashed : Replace(s, f) BY <2>2, ReplaceKeeps
  <2>3. CASE \E f \in Files : WriteFile(f) BY <2>3, WriteFileKeeps
  <2>4. CASE PublishMarker BY <2>4, PublishKeeps
  <2>5. CASE KillSave BY <2>5, KillSaveKeeps
  <2> QED BY <1>4, <2>1, <2>2, <2>3, <2>4, <2>5 DEF OtherStep
<1> QED BY <1>1, <1>2, <1>3, <1>4 DEF ResumeNext

-----------------------------------------------------------------------------
LEMMA GuardHolds ==
    ASSUME GuardConstants
    PROVE  ResumeSpec => []GuardInv
<1>1. ResumeInit => GuardInv BY InitGuard
<1>2. GuardInv /\ [ResumeNext]_resumeVars => GuardInv' BY GuardStepKeeps
<1> QED BY <1>1, <1>2, PTL DEF ResumeSpec

\* What a job loads is, on every rank, one generation of one checkpoint, the one that was
\* verified: for any ranks, files and checkpoints, under either protocol, whatever is saved,
\* killed or replaced while the job starts, but for what the guard cannot see (`late')
\* (validate_resolved_resume_checkpoint_guard).
THEOREM ResumedIsVerified ==
    ASSUME GuardConstants
    PROVE  ResumeSpec => []LoadedIsVerified
<1>1. ResumeSpec => []GuardInv BY GuardHolds
<1>2. GuardInv => LoadedIsVerified
  <2> SUFFICES ASSUME GuardInv, NEW q \in Readers, NEW r \in Readers,
                      resuming[q] = "done", resuming[r] = "done", ~late[q], ~late[r]
               PROVE  /\ at[q] = at[r] /\ mark[q] = mark[r]
                      /\ \A f \in Files : resumed[r][f] = mark[r]
    BY DEF LoadedIsVerified
  <2>1. RankSound(q) /\ RankSound(r) BY RankFacts
  <2>2. round[q] = 2 /\ round[r] = 2 BY <2>1 DEF RankSound, InOrder
  <2>3. at[q] = at[r] /\ mark[q] = mark[r] BY <2>2 DEF GuardInv, Agreed, Marked
  <2>4. \A f \in Files : HasRead(r, f) BY DEF HasRead
  <2>5. MarkIsSound(r) BY <2>1 DEF RankSound, Marked
  <2> QED BY <2>3, <2>4, <2>5 DEF MarkIsSound
<1> QED BY <1>1, <1>2, PTL

\* If nothing is written while the job starts, every rank resolves the newest of the valid
\* checkpoints, and no rank fails as long as there is one, however many there are and whatever
\* a killed save left of the others (resolve_resume_checkpoint_generation).
THEOREM ResumesFromNewest ==
    ASSUME GuardConstants
    PROVE  ResumeSpec => []UntouchedResolvesNewest
<1>1. ResumeSpec => []GuardInv BY GuardHolds
<1>2. GuardInv => UntouchedResolvesNewest
  BY DEF GuardInv, RankUntouched, IsNewest, UntouchedResolvesNewest
<1> QED BY <1>1, <1>2, PTL

-----------------------------------------------------------------------------
(***************************************************************************)
(* The cache of a source's records (RecordCache).                          *)
(***************************************************************************)
\* Rows that were in the source and were validated.
Good == existed \ Malformed

\* Where a rank has its fingerprint.
Named == {"peek", "lock", "recheck", "build", "publish", "open", "ready", "train"}

RecordShape ==
    /\ dir \in [Workers -> Workers]
    /\ existed \subseteq Versions /\ source \in existed
    /\ cache \in [Workers -> [Versions -> Int]]
    /\ opening \in [Workers -> Named \cup {"stat", "raised", "failed"}]
    /\ warming \in [Workers -> BOOLEAN]
    /\ fp \in [Workers -> Int] /\ built \in [Workers -> Int] /\ store \in [Workers -> Int]
    /\ \A r \in Workers : opening[r] \in Named => fp[r] \in Versions

\* A file that opens holds good rows, whoever built it and whatever is built there later; so
\* does a temporary file that is about to be published.  A published file opens.
RowsAreGood ==
    /\ \A d \in Workers, v \in Versions : cache[d][v] > 0 => cache[d][v] \in Good
    /\ \A r \in Workers :
          /\ opening[r] = "publish" => built[r] \in Good
          /\ opening[r] = "open" => cache[dir[r]][fp[r]] > 0
          /\ opening[r] \in {"ready", "train"} => store[r] \in Good
          /\ opening[r] = "raised" => existed \cap Malformed # {}

RecordInv == RecordShape /\ RowsAreGood

\* A step of one rank: of the others it changes nothing, and of the files at most its own.
LEMMA OneRecordStep ==
    ASSUME Versions \subseteq Nat \ {0}, RecordInv, NEW r \in Workers, OpenStep(r)
    PROVE  /\ UNCHANGED <<dir, source, existed>>
           /\ \A q \in Workers : q # r =>
                 opening'[q] = opening[q] /\ fp'[q] = fp[q] /\ built'[q] = built[q] /\ store'[q] = store[q]
           /\ opening' \in [Workers -> Named \cup {"stat", "raised", "failed"}]
           /\ warming' \in [Workers -> BOOLEAN]
           /\ fp' \in [Workers -> Int] /\ built' \in [Workers -> Int] /\ store' \in [Workers -> Int]
           /\ opening'[r] \in Named => fp'[r] \in Versions
           /\ opening'[r] = "publish" => built'[r] \in Good
           /\ opening'[r] \in {"ready", "train"} => store'[r] \in Good
           /\ opening'[r] = "raised" => existed \cap Malformed # {}
           /\ \/ cache' = cache /\ (opening'[r] = "open" => cache[dir[r]][fp'[r]] > 0)
              \/ /\ fp[r] \in Versions /\ fp' = fp
                 /\ \/ /\ cache' = [cache EXCEPT ![dir[r]][fp[r]] = 0]
                       /\ ~(cache[dir[r]][fp[r]] > 0) /\ opening'[r] = "build"
                    \/ /\ cache' = [cache EXCEPT ![dir[r]][fp[r]] = built[r]]
                       /\ built[r] \in Good
<1> USE DEF Named
<1>0. /\ UNCHANGED <<dir, source, existed>>
      /\ opening \in [Workers -> Named \cup {"stat", "raised", "failed"}]
      /\ warming \in [Workers -> BOOLEAN]
      /\ fp \in [Workers -> Int] /\ built \in [Workers -> Int] /\ store \in [Workers -> Int]
      /\ (opening[r] \in Named => fp[r] \in Versions)
      /\ source \in Versions /\ source \in existed /\ source \in Int
      /\ cache \in [Workers -> [Versions -> Int]] /\ dir[r] \in Workers
  BY DEF OpenStep, directories, world, RecordInv, RecordShape
<1>1. ASSUME Map(r), fp[r] \in Versions, cache[dir[r]][fp[r]] > 0
      PROVE  /\ store' = [store EXCEPT ![r] = cache[dir[r]][fp[r]]]
             /\ store'[r] \in Good /\ store' \in [Workers -> Int]
             /\ warming' \in [Workers -> BOOLEAN]
             /\ opening' = [opening EXCEPT ![r] = IF warming[r] THEN "stat" ELSE "ready"]
             /\ UNCHANGED <<cache, fp, built>>
  <2>1. cache[dir[r]][fp[r]] \in Good /\ cache[dir[r]][fp[r]] \in Int
    BY <1>0, <1>1 DEF RecordInv, RowsAreGood
  <2> QED
    BY <1>0, <1>1, <2>1 DEF Map, Cached, Goto
<1>2. CASE Fingerprint(r)
  BY <1>0, <1>2 DEF Fingerprint, Goto
<1>3. CASE Peek(r)
  BY <1>0, <1>1, <1>3, ZenonT(30) DEF Peek, Goto, Opens, Cached
<1>4. CASE Acquire(r)
  BY <1>0, <1>4 DEF Acquire, Goto
<1>5. CASE Recheck(r)
  <2>1. CASE Opens(r)
    BY <1>0, <1>1, <1>5, <2>1 DEF Recheck, Opens, Cached
  <2>2. CASE ~Opens(r)
    BY <1>0, <1>5, <2>2 DEF Recheck, Goto, Opens, Cached, None
  <2> QED
    BY <2>1, <2>2
<1>6. CASE Build(r)
  <2>1. CASE source \in Malformed
    BY <1>0, <1>6, <2>1 DEF Build, Goto
  <2>2. CASE source \notin Malformed
    BY <1>0, <1>6, <2>2 DEF Build, Goto, Good
  <2> QED
    BY <2>1, <2>2
<1>7. CASE PublishRecords(r)
  <2>1. built[r] \in Good
    BY <1>7 DEF PublishRecords, RecordInv, RowsAreGood
  <2> QED
    BY <1>0, <1>7, <2>1 DEF PublishRecords, Goto
<1>8. CASE Open(r)
  <2>1. Opens(r)
    BY <1>8 DEF Open, Opens, Cached, RecordInv, RowsAreGood
  <2> QED
    BY <1>0, <1>1, <1>8, <2>1 DEF Open, Opens, Cached
<1> QED
  BY <1>2, <1>3, <1>4, <1>5, <1>6, <1>7, <1>8 DEF OpenStep

LEMMA RankKeepsRecords ==
    ASSUME Versions \subseteq Nat \ {0}, RecordInv, NEW r \in Workers, OpenStep(r)
    PROVE  RecordInv'
<1>1. /\ dir' = dir /\ source' = source /\ existed' = existed /\ Good' = Good
      /\ dir \in [Workers -> Workers] /\ cache \in [Workers -> [Versions -> Int]]
      /\ fp \in [Workers -> Int] /\ built \in [Workers -> Int] /\ Good \subseteq Nat \ {0}
  BY OneRecordStep DEF RecordInv, RecordShape, Good
<1>2. /\ cache' \in [Workers -> [Versions -> Int]]
      /\ \A d \in Workers, v \in Versions :
            \/ cache'[d][v] = cache[d][v]
            \/ cache'[d][v] \in Good
            \/ cache'[d][v] = 0 /\ ~(cache[d][v] > 0)
  <2>1. CASE cache' = cache BY <1>1, <2>1
  <2>2. CASE /\ fp[r] \in Versions /\ cache' = [cache EXCEPT ![dir[r]][fp[r]] = 0]
             /\ ~(cache[dir[r]][fp[r]] > 0)
    BY <1>1, <2>2
  <2>3. CASE /\ fp[r] \in Versions /\ cache' = [cache EXCEPT ![dir[r]][fp[r]] = built[r]]
             /\ built[r] \in Good
    BY <1>1, <2>3
  <2> QED BY <2>1, <2>2, <2>3, OneRecordStep
<1>3. RecordShape'
  <2>1. \A q \in Workers : opening'[q] \in Named => fp'[q] \in Versions
    BY OneRecordStep DEF RecordInv, RecordShape
  <2> QED BY <1>1, <1>2, <2>1, OneRecordStep DEF RecordInv, RecordShape
<1>4. \A d \in Workers, v \in Versions : cache'[d][v] > 0 => cache'[d][v] \in Good
  BY <1>2 DEF RecordInv, RowsAreGood
<1>5. ASSUME NEW q \in Workers, opening'[q] = "open" PROVE cache'[dir[q]][fp'[q]] > 0
  <2>1. \A d \in Workers, v \in Versions : cache[d][v] > 0 => cache'[d][v] > 0
    <3> SUFFICES ASSUME NEW d \in Workers, NEW v \in Versions, cache[d][v] > 0
                 PROVE  cache'[d][v] > 0
      OBVIOUS
    <3>1. cache'[d][v] = cache[d][v] \/ cache'[d][v] \in Nat \ {0} BY <1>1, <1>2
    <3> QED BY <3>1
  <2>2. CASE q # r
    <3>1. opening[q] = "open" /\ fp'[q] = fp[q] BY <1>5, <2>2, OneRecordStep
    <3>2. fp[q] \in Versions /\ dir[q] \in Workers BY <1>1, <3>1 DEF RecordInv, RecordShape, Named
    <3> QED BY <2>1, <3>1, <3>2 DEF RecordInv, RowsAreGood
  <2>3. CASE q = r
    <3>1. fp'[r] \in Versions /\ dir[r] \in Workers BY <1>1, <1>5, <2>3, OneRecordStep DEF Named
    <3>2. CASE cache' = cache /\ (opening'[r] = "open" => cache[dir[r]][fp'[r]] > 0)
      BY <1>1, <1>5, <2>3, <3>2
    <3>3. CASE /\ fp' = fp /\ cache' = [cache EXCEPT ![dir[r]][fp[r]] = built[r]]
               /\ built[r] \in Good
      <4>1. fp'[q] = fp[r] /\ dir[q] = dir[r] /\ fp[r] \in Versions BY <2>3, <3>1, <3>3
      <4>2. cache'[dir[r]][fp[r]] = built[r] BY <1>1, <3>1, <3>3, <4>1
      <4>3. built[r] \in Nat \ {0} BY <1>1, <3>3
      <4> QED BY <1>1, <4>1, <4>2, <4>3
    <3> QED BY <1>5, <2>3, <3>2, <3>3, OneRecordStep
  <2> QED BY <2>2, <2>3
<1>6. ASSUME NEW q \in Workers
      PROVE  /\ opening'[q] = "publish" => built'[q] \in Good
             /\ opening'[q] \in {"ready", "train"} => store'[q] \in Good
             /\ opening'[q] = "raised" => existed \cap Malformed # {}
  <2>1. CASE q = r BY <2>1, OneRecordStep
  <2>2. CASE q # r BY <2>2, OneRecordStep DEF RecordInv, RowsAreGood
  <2> QED BY <2>1, <2>2
<1>7. RowsAreGood'
  BY <1>1, <1>4, <1>5, <1>6 DEF RowsAreGood
<1> QED BY <1>3, <1>7 DEF RecordInv

LEMMA StepKeepsRecords ==
    ASSUME Versions \subseteq Nat \ {0}, RecordInv, [RecordNext]_recordVars
    PROVE  RecordInv'
<1>1. CASE \E r \in Workers : OpenStep(r) BY <1>1, RankKeepsRecords
<1>2. CASE CompareFingerprints
  <2>1. /\ dir' = dir /\ source' = source /\ existed' = existed /\ cache' = cache
        /\ warming' = warming /\ fp' = fp /\ built' = built /\ store' = store /\ Good' = Good
    BY <1>2 DEF CompareFingerprints, directories, world, Good
  <2>2. ASSUME NEW r \in Workers
        PROVE  /\ opening'[r] \in {"train", "raised", "failed"}
               /\ opening'[r] = "train" => opening[r] = "ready"
               /\ opening'[r] = "raised" => opening[r] = "raised"
    BY <1>2 DEF CompareFingerprints
  <2>3. opening' \in [Workers -> Named \cup {"stat", "raised", "failed"}]
    BY <1>2 DEF CompareFingerprints, Named
  <2>4. RecordShape' BY <2>1, <2>2, <2>3 DEF RecordInv, RecordShape, Named
  <2>5. RowsAreGood' BY <2>1, <2>2 DEF RecordInv, RowsAreGood
  <2> QED BY <2>4, <2>5 DEF RecordInv
<1>3. CASE \E v \in Versions : Edit(v)
  <2>1. /\ dir' = dir /\ cache' = cache /\ opening' = opening
        /\ warming' = warming /\ fp' = fp /\ built' = built /\ store' = store
    BY <1>3 DEF Edit, directories
  <2>2. source' \in existed' /\ existed' \subseteq Versions /\ existed \subseteq existed'
    BY <1>3 DEF Edit, RecordInv, RecordShape
  <2>3. Good \subseteq Good' BY <2>2 DEF Good
  <2>4. RecordShape' BY <2>1, <2>2 DEF RecordInv, RecordShape
  <2>5. existed \cap Malformed # {} => existed' \cap Malformed # {} BY <2>2
  <2>6. RowsAreGood' BY <2>1, <2>3, <2>5 DEF RecordInv, RowsAreGood
  <2> QED BY <2>4, <2>6 DEF RecordInv
<1>4. CASE Restart
  <2>1. /\ dir' = dir /\ source' = source /\ existed' = existed /\ Good' = Good
        /\ opening' = [r \in Workers |-> "stat"] /\ warming' \in [Workers -> BOOLEAN]
        /\ fp' \in [Workers -> Int] /\ built' \in [Workers -> Int] /\ store' \in [Workers -> Int]
    BY <1>4 DEF Restart, directories, None, Warms, Good
  <2>2. /\ cache' \in [Workers -> [Versions -> Int]]
        /\ \A d \in Workers, v \in Versions : cache'[d][v] > 0 => cache'[d][v] = cache[d][v]
    <3>1. cache \in [Workers -> [Versions -> Int]] BY DEF RecordInv, RecordShape
    <3>2. CASE UNCHANGED cache BY <3>1, <3>2
    <3>3. ASSUME NEW d \in Workers, NEW v \in Versions,
                 cache' = [cache EXCEPT ![d][v] = Corrupt]
          PROVE  /\ cache' \in [Workers -> [Versions -> Int]]
                 /\ \A e \in Workers, w \in Versions :
                        cache'[e][w] > 0 => cache'[e][w] = cache[e][w]
      <4>1. cache[d] \in [Versions -> Int] BY <3>1
      <4> QED BY <3>1, <3>3, <4>1 DEF Corrupt
    <3> QED BY <1>4, <3>2, <3>3 DEF Restart
  <2>3. RecordShape' BY <2>1, <2>2 DEF RecordInv, RecordShape, Named
  <2>4. RowsAreGood' BY <2>1, <2>2 DEF RecordInv, RowsAreGood
  <2> QED BY <2>3, <2>4 DEF RecordInv
<1>5. CASE UNCHANGED recordVars
  <2>1. /\ dir' = dir /\ source' = source /\ existed' = existed /\ cache' = cache /\ opening' = opening
        /\ warming' = warming /\ fp' = fp /\ built' = built /\ store' = store
    BY <1>5 DEF recordVars, directories, world
  <2> QED BY <2>1 DEF RecordInv, RecordShape, RowsAreGood, Good
<1> QED BY <1>1, <1>2, <1>3, <1>4, <1>5 DEF RecordNext

\* Whatever ranks, nodes and cache directories share the records, whatever is edited, and
\* whichever build was killed or damaged: what a rank opens are rows that were validated, and
\* it raises only if the source itself was malformed at some time
\* (ShaftArrowRecordStore.from_jsonl).
THEOREM RecordsOpenOrReject ==
    ASSUME Versions \subseteq Nat \ {0}
    PROVE  RecordSpec => []OpensOrRejects
<1>1. RecordInit => RecordInv
  <2> SUFFICES ASSUME RecordInit PROVE RecordInv OBVIOUS
  <2>1. RecordShape
    BY DEF RecordInit, Grouped, None, Warms, RecordShape, Named
  <2>2. RowsAreGood BY DEF RecordInit, None, RowsAreGood
  <2> QED BY <2>1, <2>2 DEF RecordInv
<1>2. RecordInv /\ [RecordNext]_recordVars => RecordInv' BY StepKeepsRecords
<1>3. RecordInv => OpensOrRejects
  BY DEF RecordInv, RowsAreGood, Good, OpensOrRejects
<1> QED BY <1>1, <1>2, <1>3, PTL DEF RecordSpec

-----------------------------------------------------------------------------
(***************************************************************************)
(* The plan of a model (ModelArtifact), for any number of ranks, nodes,    *)
(* copies and files, and any number of rewrites and errors: a build that   *)
(* succeeds read the bytes its plan identified, and no rank waits for      *)
(* another in vain.                                                        *)
(***************************************************************************)
Bytes0 == Content \cup {0}

\* The shape of the state.  A stat entry that was taken is never of a version to come.
Shape ==
    /\ leader \in [Workers -> Workers] /\ (\A r \in Workers : leader[leader[r]] = leader[r])
    /\ mount \in [Workers -> Workers]
    /\ artifact \in [Workers -> [ModelFile -> [content : Content, version : Nat]]]
    /\ building \in [Workers -> Passes \cup Gathers \cup {"dead", "failed", "done"}]
    /\ file \in [Workers -> ModelFile]
    /\ stage \in [Workers -> {"plan", "closure"}]
    /\ own \in [Workers -> BOOLEAN] /\ ok \in [Workers -> BOOLEAN]
    /\ stat \in [Workers -> [ModelFile -> Nat]] /\ digest \in [Workers -> [ModelFile -> Bytes0]]
    /\ plan \in [Workers -> [digest : [ModelFile -> Bytes0], stat : [ModelFile -> Nat]]]
    /\ loaded \in [Workers -> [ModelFile -> Bytes0]]

Past ==
    \A r \in Workers, f \in ModelFile :
        stat[r][f] <= Version(r, f) /\ plan[r].stat[f] <= Version(r, f)

-----------------------------------------------------------------------------
(***************************************************************************)
(* What is known of a file that was read.  A version is never taken back,  *)
(* and a file of a copy is rewritten silently once at most.                *)
(***************************************************************************)
\* Content c was read when the version was v, or later.
Seen(m, f, v, c) ==
    artifact[m][f].version = v /\ artifact[m][f].content # c => <<m, f>> \in silent

\* The load came after the plan: of the two one silent rewrite at most.
AsLoaded(r, f) ==
    Version(r, f) = plan[r].stat[f] =>
        /\ Bytes(r, f) # loaded[r][f] => <<mount[r], f>> \in silent
        /\ loaded[r][f] # plan[r].digest[f] =>
               <<mount[r], f>> \in silent /\ Bytes(r, f) = loaded[r][f]

\* The digest of rank p came after both: it shows whether they differ.
Tells(r, p, f) ==
    Version(r, f) = plan[r].stat[f] /\ digest[p][f] = plan[r].digest[f] =>
        loaded[r][f] = plan[r].digest[f]

\* The digest that rank p has read, for itself and in the closure for all that see its copy.
Read1(p, f) ==
    /\ Seen(mount[p], f, stat[p][f], digest[p][f])
    /\ stage[p] = "closure" => \A r \in Workers : mount[r] = mount[p] => Tells(r, p, f)

\* The digest of rank p serves rank r.
Serves(p, r, f) ==
    /\ Seen(mount[r], f, stat[r][f], digest[p][f])
    /\ stage[r] = "closure" => Tells(r, p, f)

\* The files that a hashing rank has read.
ReadFiles(p) ==
    CASE building[p] \in {"before", "read"} -> {f \in ModelFile : f < file[p]}
      [] building[p] = "after" -> {f \in ModelFile : f <= file[p]}
      [] building[p] = "final" \/ (building[p] \in {"first", "second"} /\ ok[p]) -> ModelFile
      [] OTHER -> {}

\* The plan of all ranks is the same, and it is what they saw.
Planned ==
    /\ \A q, r \in Workers : plan[q].digest = plan[r].digest
    /\ \A r \in Workers, f \in ModelFile : Seen(mount[r], f, plan[r].stat[f], plan[r].digest[f])

-----------------------------------------------------------------------------
(***************************************************************************)
(* All ranks are between the same two gathers.                             *)
(***************************************************************************)
Hashing == {"base", "before", "read", "after", "final"}

InStage(s) ==
    /\ \A r \in Workers : stage[r] = s
    /\ s = "closure" => Planned /\ \A r \in Workers, f \in ModelFile : AsLoaded(r, f)

LeadersAgree == \A q, r \in Leaders : digest[q] = digest[r]

Entering == \A r \in Workers : building[r] = "enter" /\ stage[r] = "plan"

LeadersHash(s) ==
    /\ InStage(s)
    /\ \A r \in Workers :
          /\ ~ own[r]
          /\ building[r] \in (IF r \in Leaders THEN Hashing ELSE {"inventory"}) \cup {"first"}
    /\ \A p \in Leaders : \A f \in ReadFiles(p) : Read1(p, f)

OthersHash(s) ==
    /\ InStage(s) /\ LeadersAgree
    /\ \A r \in Workers :
          /\ building[r] \in (IF own[r] THEN Hashing ELSE {}) \cup {"second"}
          /\ IF own[r] THEN r \notin Leaders /\ \A f \in ReadFiles(r) : Read1(r, f)
                       ELSE \A f \in ModelFile : Serves(leader[r], r, f)

Checking(s) ==
    /\ InStage(s) /\ LeadersAgree
    /\ \A r \in Workers : building[r] \in {"check", "third"} /\ \A f \in ModelFile : Serves(leader[r], r, f)

Capturing ==
    /\ Planned
    /\ \A r \in Workers : building[r] \in {"capture", "prepared"} /\ stage[r] = "plan"

Loading ==
    /\ Planned
    /\ \A r \in Workers :
          \/ building[r] = "load" /\ stage[r] = "plan" /\ \A f \in ModelFile : f < file[r] => AsLoaded(r, f)
          \/ building[r] = "enter" /\ stage[r] = "closure" /\ \A f \in ModelFile : AsLoaded(r, f)
          \/ building[r] = "dead"

Verified(r, f) == loaded[r][f] = plan[r].digest[f]

Verifying ==
    /\ Planned
    /\ \A r \in Workers :
          /\ stage[r] = "closure" /\ building[r] \in {"verify", "finalized"}
          /\ building[r] = "verify" => \A f \in ModelFile :
                 Version(r, f) = plan[r].stat[f] \/ f < file[r] => Verified(r, f)
          /\ building[r] = "finalized" /\ ok[r] => \A f \in ModelFile : Verified(r, f)

Built ==
    \A q, r \in Workers : building[r] = "done" /\ loaded[q] = plan[r].digest

Failed == \A r \in Workers : building[r] = "failed"

Stages == {"plan", "closure"}

Together ==
    \/ Entering \/ (\E s \in Stages : LeadersHash(s) \/ OthersHash(s) \/ Checking(s))
    \/ Capturing \/ Loading \/ Verifying \/ Built \/ Failed

ArtifactInv == Shape /\ Past /\ Together

\* There is a file, and a rank.
Sized == NumFiles \in Nat \ {0} /\ Workers # {}
-----------------------------------------------------------------------------
(***************************************************************************)
(* A step of one rank leaves the others, and the files, as they are.       *)
(***************************************************************************)
LEMMA Domains ==
    ASSUME Shape
    PROVE  /\ DOMAIN building = Workers /\ DOMAIN file = Workers /\ DOMAIN ok = Workers /\ DOMAIN stage = Workers
           /\ DOMAIN stat = Workers /\ DOMAIN digest = Workers /\ DOMAIN loaded = Workers
           /\ \A r \in Workers : /\ DOMAIN stat[r] = ModelFile /\ DOMAIN digest[r] = ModelFile
                                 /\ DOMAIN loaded[r] = ModelFile /\ file[r] \in ModelFile
  <1>1. /\ building \in [Workers -> Passes \cup Gathers \cup {"dead", "failed", "done"}]
        /\ file \in [Workers -> ModelFile] /\ ok \in [Workers -> BOOLEAN]
        /\ stage \in [Workers -> {"plan", "closure"}]
    BY DEF Shape
  <1>2. /\ stat \in [Workers -> [ModelFile -> Nat]] /\ digest \in [Workers -> [ModelFile -> Bytes0]]
        /\ loaded \in [Workers -> [ModelFile -> Bytes0]]
    BY DEF Shape
  <1> QED
    BY <1>1, <1>2

LEMMA OneRank ==
    ASSUME Shape, NEW r \in Workers, BuildStep(r)
    PROVE  /\ UNCHANGED <<leader, mount, artifact, silent, own, plan>>
           /\ \A q \in Workers : q # r =>
                 /\ building'[q] = building[q] /\ file'[q] = file[q] /\ ok'[q] = ok[q] /\ stage'[q] = stage[q]
                 /\ stat'[q] = stat[q] /\ digest'[q] = digest[q] /\ loaded'[q] = loaded[q]
  <1>1. UNCHANGED <<leader, mount, artifact, silent, own, plan>>
    BY DEF BuildStep, topology, files
  <1>2. \E p, f : building' = [building EXCEPT ![r] = p] /\ file' = [file EXCEPT ![r] = f]
    BY DEF BuildStep, Local, Error, Take, Read, Load, Compare, Raise, OnTo, Go
  <1>3. /\ ok' = ok \/ ok' = [ok EXCEPT ![r] = FALSE]
        /\ stage' = stage \/ \E s : stage' = [stage EXCEPT ![r] = s]
        /\ stat' = stat \/ \E s : stat' = [stat EXCEPT ![r] = s]
        /\ digest' = digest \/ \E s : digest' = [digest EXCEPT ![r] = s]
        /\ loaded' = loaded \/ \E s : loaded' = [loaded EXCEPT ![r] = s]
    <2>1. CASE Raise(r)
      BY <2>1 DEF Raise
    <2>2. CASE Take(r)
      BY <2>2 DEF Take
    <2>3. CASE Read(r)
      BY <2>3 DEF Read
    <2>4. CASE Load(r)
      BY <2>4 DEF Load
    <2>5. CASE Compare(r)
      BY <2>1, <2>5 DEF Compare
    <2> QED
      BY <2>1, <2>2, <2>3, <2>4, <2>5 DEF BuildStep, Local, Error
  <1> QED
    BY <1>1, <1>2, <1>3, Domains

\* A rank that raises says so where its peers are.
LEMMA RaiseMoves ==
    ASSUME Shape, NEW r \in Workers, Raise(r)
    PROVE  /\ building'[r] = Meet(r) /\ file'[r] = 1 /\ ok'[r] = FALSE
           /\ UNCHANGED <<stage, stat, digest, loaded>>
  BY Domains DEF Raise, Go

\* What a comparison of a stat entry leads to.
LEMMA CompareMoves ==
    ASSUME Shape, NEW r \in Workers, Compare(r)
    PROVE  \/ Raise(r)
           \/ /\ UNCHANGED <<stage, ok, stat, digest, loaded>>
              /\ building[r] \in {"capture", "verify"} => Version(r, file[r]) = plan[r].stat[file[r]]
              /\ \/ building[r] = "before" /\ building'[r] = "read" /\ file'[r] = file[r]
                 \/ building[r] = "after" /\ file[r] < NumFiles /\ building'[r] = "before" /\ file'[r] = file[r] + 1
                 \/ building[r] = "after" /\ ~(file[r] < NumFiles) /\ building'[r] = "final" /\ file'[r] = 1
                 \/ /\ building[r] \in {"final", "check", "capture", "verify"} /\ file[r] < NumFiles
                    /\ building'[r] = building[r] /\ file'[r] = file[r] + 1
                 \/ /\ building[r] \in {"final", "check", "capture", "verify"} /\ ~(file[r] < NumFiles)
                    /\ building'[r] = Meet(r) /\ file'[r] = 1
  <1>1. DOMAIN building = Workers /\ DOMAIN file = Workers
    BY Domains
  <1>2. CASE building[r] = "before"
    BY <1>1, <1>2 DEF Compare, Go
  <1>3. CASE building[r] = "after"
    BY <1>1, <1>3 DEF Compare, Go
  <1>4. CASE building[r] \in {"final", "check"}
    BY <1>1, <1>4 DEF Compare, Go, OnTo
  <1>5. CASE building[r] \in {"capture", "verify"}
    BY <1>1, <1>5 DEF Compare, Go, OnTo
  <1> QED
    BY <1>2, <1>3, <1>4, <1>5 DEF Compare

\* A rank that hashes takes a stat entry and has read nothing yet, or it reads one more file,
\* or it only looks.
LEMMA HashMoves ==
    ASSUME Sized, Shape, NEW r \in Workers, BuildStep(r), building[r] \in Hashing
    PROVE  /\ UNCHANGED <<stage, loaded>>
           /\ building'[r] \in Hashing \cup {IF own[r] THEN "second" ELSE "first"}
           /\ \/ digest' = digest /\ ReadFiles(r)' = {}
              \/ digest' = digest /\ stat' = stat /\ ReadFiles(r)' \subseteq ReadFiles(r)
              \/ /\ stat' = stat /\ ReadFiles(r)' \subseteq ReadFiles(r) \cup {file[r]}
                 /\ digest' = [digest EXCEPT ![r][file[r]] = Bytes(r, file[r])]
  <1>0. file[r] \in ModelFile /\ NumFiles \in Nat \ {0} /\ DOMAIN building = Workers /\ DOMAIN file = Workers
    BY Domains DEF Sized
  <1>1. Meet(r) = IF own[r] THEN "second" ELSE "first"
    BY DEF Meet, Hashing
  <1>2. CASE Raise(r)
    <2>1. building'[r] = Meet(r) /\ ok'[r] = FALSE /\ UNCHANGED <<stage, stat, digest, loaded>>
      BY <1>2, RaiseMoves
    <2>2. ReadFiles(r)' = {}
      BY <1>1, <2>1 DEF ReadFiles
    <2> QED
      BY <1>1, <2>1, <2>2 DEF Hashing
  <1>3. CASE Take(r)
    <2>1. building[r] = "base" /\ UNCHANGED <<stage, ok, digest, loaded>>
      BY <1>3 DEF Take, Hashing
    <2>2. \/ building'[r] = "base"
          \/ building'[r] = "before" /\ file'[r] = 1
      BY <1>0, <1>3, <2>1 DEF Take, OnTo, Go
    <2>3. ReadFiles(r)' = {}
      BY <1>0, <2>2 DEF ReadFiles, ModelFile
    <2> QED
      BY <2>1, <2>2, <2>3 DEF Hashing
  <1>4. CASE Read(r)
    <2>1. /\ building[r] = "read" /\ building'[r] = "after" /\ file'[r] = file[r]
          /\ digest' = [digest EXCEPT ![r][file[r]] = Bytes(r, file[r])]
          /\ UNCHANGED <<stage, ok, stat, loaded>>
      BY <1>0, <1>4 DEF Read, Go
    <2>2. ReadFiles(r)' = {f \in ModelFile : f <= file[r]} /\ ReadFiles(r) = {f \in ModelFile : f < file[r]}
      BY <2>1 DEF ReadFiles
    <2>3. ReadFiles(r)' \subseteq ReadFiles(r) \cup {file[r]}
      BY <1>0, <2>2 DEF ModelFile
    <2> QED
      BY <2>1, <2>3 DEF Hashing
  <1>5. CASE Compare(r) /\ ~Raise(r)
    <2>1. UNCHANGED <<stage, ok, stat, digest, loaded>>
      BY <1>5, CompareMoves
    <2>2. CASE building[r] = "before" /\ building'[r] = "read" /\ file'[r] = file[r]
      BY <2>1, <2>2 DEF ReadFiles, Hashing
    <2>3. CASE building[r] = "after" /\ file[r] < NumFiles /\ building'[r] = "before" /\ file'[r] = file[r] + 1
      <3>1. ReadFiles(r)' = {f \in ModelFile : f < file[r] + 1} /\ ReadFiles(r) = {f \in ModelFile : f <= file[r]}
        BY <2>3 DEF ReadFiles
      <3>2. ReadFiles(r)' \subseteq ReadFiles(r)
        BY <1>0, <3>1 DEF ModelFile
      <3> QED
        BY <2>1, <2>3, <3>2 DEF Hashing
    <2>4. CASE building[r] = "after" /\ ~(file[r] < NumFiles) /\ building'[r] = "final" /\ file'[r] = 1
      <3>1. ReadFiles(r)' = ModelFile /\ ReadFiles(r) = {f \in ModelFile : f <= file[r]}
        BY <2>4 DEF ReadFiles
      <3>2. ReadFiles(r)' \subseteq ReadFiles(r)
        BY <1>0, <2>4, <3>1 DEF ModelFile
      <3> QED
        BY <2>1, <2>4, <3>2 DEF Hashing
    <2>5. CASE building[r] = "final"
      <3>1. building'[r] \in {"final", IF own[r] THEN "second" ELSE "first"}
        BY <1>1, <1>5, <2>5, CompareMoves
      <3>2. ReadFiles(r) = ModelFile /\ ReadFiles(r)' \subseteq ModelFile
        BY <2>5, <3>1 DEF ReadFiles
      <3> QED
        BY <2>1, <3>1, <3>2 DEF Hashing
    <2> QED
      BY <1>5, <2>2, <2>3, <2>4, <2>5, CompareMoves DEF Hashing
  <1>6. ~Load(r)
    BY DEF Load, Hashing
  <1> QED
    BY <1>2, <1>3, <1>4, <1>5, <1>6 DEF BuildStep, Local, Error

\* So does one that takes the entries only.
LEMMA InventoryMoves ==
    ASSUME Shape, NEW r \in Workers, BuildStep(r), building[r] = "inventory", ~own[r]
    PROVE  /\ UNCHANGED <<stage, loaded, digest>>
           /\ building'[r] \in {"inventory", "first"}
  <1>1. CASE Raise(r)
    BY <1>1, RaiseMoves DEF Meet
  <1>2. CASE Take(r)
    BY <1>2, Domains DEF Take, OnTo, Go
  <1> QED
    BY <1>1, <1>2 DEF BuildStep, Local, Error, Read, Compare, Load

\* Ranks that only compare, or raise.
LEMMA LookMoves ==
    ASSUME Shape, NEW r \in Workers, BuildStep(r), building[r] \in {"check", "capture", "verify"}
    PROVE  /\ UNCHANGED <<stage, stat, digest, loaded>>
           /\ \/ building'[r] = Meet(r) /\ ok'[r] = FALSE
              \/ /\ building[r] \in {"capture", "verify"} => Version(r, file[r]) = plan[r].stat[file[r]]
                 /\ \/ building'[r] = building[r] /\ file'[r] = file[r] + 1
                    \/ building'[r] = Meet(r) /\ ~(file[r] < NumFiles)
  <1>1. CASE Raise(r)
    BY <1>1, RaiseMoves
  <1>2. CASE Compare(r) /\ ~Raise(r)
    BY <1>2, CompareMoves
  <1> QED
    BY <1>1, <1>2 DEF BuildStep, Local, Error, Read, Take, Load

-----------------------------------------------------------------------------
(***************************************************************************)
(* The shape of the state is kept.                                         *)
(***************************************************************************)
Places == Passes \cup Gathers \cup {"dead", "failed", "done"}

\* What another program does to the files.
Rewriting == \E m \in Copies, f \in ModelFile : Rewrite(m, f) \/ RewriteSilently(m, f)

LEMMA RewriteMoves ==
    ASSUME Shape, Rewriting
    PROVE  /\ UNCHANGED <<leader, mount, building, file, stage, own, ok, stat, digest, plan, loaded>>
           /\ artifact' \in [Workers -> [ModelFile -> [content : Content, version : Nat]]]
           /\ silent \subseteq silent'
           /\ \A m \in Workers, f \in ModelFile :
                 /\ artifact[m][f] \in [content : Content, version : Nat]
                 /\ artifact'[m][f] \in [content : Content, version : Nat]
                 /\ \/ artifact'[m][f] = artifact[m][f]
                    \/ artifact'[m][f].version = artifact[m][f].version + 1
                    \/ /\ artifact'[m][f].version = artifact[m][f].version
                       /\ <<m, f>> \notin silent /\ <<m, f>> \in silent'
  <1>1. PICK m \in Copies, f \in ModelFile : Rewrite(m, f) \/ RewriteSilently(m, f)
    BY DEF Rewriting
  <1>2. m \in Workers
    BY <1>1 DEF Copies, Shape
  <1>3. artifact \in [Workers -> [ModelFile -> [content : Content, version : Nat]]]
    BY DEF Shape
  <1>4. PICK c, v :
           /\ UNCHANGED <<leader, mount, building, file, stage, own, ok, stat, digest, plan, loaded>>
           /\ artifact' = [artifact EXCEPT ![m][f] = [content |-> c, version |-> v]]
           /\ \/ c \in Content /\ v = artifact[m][f].version + 1 /\ silent' = silent
              \/ /\ c = 3 - artifact[m][f].content /\ v = artifact[m][f].version
                 /\ <<m, f>> \notin silent /\ silent' = silent \cup {<<m, f>>}
    BY <1>1 DEF Rewrite, RewriteSilently, Put, topology
  <1>5. artifact[m][f] \in [content : Content, version : Nat]
    BY <1>2, <1>3
  <1>6. c \in Content /\ v \in Nat
    BY <1>4, <1>5 DEF Content
  <1>7. [content |-> c, version |-> v] \in [content : Content, version : Nat]
    BY <1>6
  <1>8. artifact' \in [Workers -> [ModelFile -> [content : Content, version : Nat]]]
    BY <1>2, <1>3, <1>4, <1>7
  <1>9. ASSUME NEW n \in Workers, NEW g \in ModelFile
        PROVE  \/ artifact'[n][g] = artifact[n][g]
               \/ artifact'[n][g].version = artifact[n][g].version + 1
               \/ /\ artifact'[n][g].version = artifact[n][g].version
                  /\ <<n, g>> \notin silent /\ <<n, g>> \in silent'
    <2>1. CASE n = m /\ g = f
      <3>1. artifact'[m][f] = [content |-> c, version |-> v]
        BY <1>2, <1>3, <1>4
      <3>2. artifact'[m][f].version = v
        BY <3>1
      <3> QED
        BY <1>4, <2>1, <3>2
    <2>2. CASE ~(n = m /\ g = f)
      <3>1. artifact'[n][g] = artifact[n][g]
        BY <1>2, <1>3, <1>4, <2>2
      <3> QED
        BY <3>1
    <2> QED
      BY <2>1, <2>2
  <1> QED
    BY <1>3, <1>4, <1>8, <1>9

LEMMA MeetingMoves ==
    ASSUME Shape, Meeting
    PROVE  /\ UNCHANGED <<leader, mount, artifact, silent, stage, stat, digest, loaded>>
           /\ building' \in [Workers -> Places] /\ ok' \in [Workers -> BOOLEAN] /\ own' \in [Workers -> BOOLEAN]
           /\ file' = file \/ file' = [r \in Workers |-> 1]
           /\ plan' = plan \/ plan' = [r \in Workers |-> [digest |-> digest[leader[r]], stat |-> stat[r]]]
  <1>0. own \in [Workers -> BOOLEAN]
    BY DEF Shape
  <1>1. UNCHANGED <<leader, mount, artifact, silent, stage, stat, digest, loaded>>
    BY DEF Meeting, topology, files
  <1>2. CASE Enter
    BY <1>0, <1>1, <1>2 DEF Enter, Proceed, Places, Passes
  <1>3. CASE First
    <2>1. CASE RaiseTogether
      BY <1>0, <1>1, <2>1 DEF RaiseTogether, Places, Gathers
    <2>2. CASE /\ Proceed([r \in Workers |-> IF Differing = {} THEN "check"
                                           ELSE IF r \in Differing THEN "base" ELSE "second"])
               /\ own' = [r \in Workers |-> r \in Differing]
               /\ UNCHANGED plan
      BY <1>1, <2>2 DEF Proceed, Places, Passes, Gathers
    <2> QED
      BY <1>3, <2>1, <2>2 DEF First
  <1>4. CASE Second
    BY <1>0, <1>1, <1>4 DEF Second, RaiseTogether, Proceed, Places, Passes, Gathers
  <1>5. CASE Third
    <2>1. CASE RaiseTogether
      BY <1>0, <1>1, <2>1 DEF RaiseTogether, Places, Gathers
    <2>2. CASE /\ plan' = [r \in Workers |-> [digest |-> digest[leader[r]], stat |-> stat[r]]]
               /\ Proceed([r \in Workers |-> "capture"])
               /\ UNCHANGED own
      BY <1>0, <1>1, <2>2 DEF Proceed, Places, Passes
    <2>3. CASE Proceed([r \in Workers |-> "verify"]) /\ UNCHANGED <<own, plan>>
      BY <1>0, <1>1, <2>3 DEF Proceed, Places, Passes
    <2> QED
      BY <1>5, <2>1, <2>2, <2>3 DEF Third
  <1>6. CASE ConvergeStage("prepared", "load") \/ ConvergeStage("finalized", "done")
    BY <1>0, <1>1, <1>6 DEF ConvergeStage, RaiseTogether, Proceed, Places, Passes, Gathers
  <1> QED
    BY <1>2, <1>3, <1>4, <1>5, <1>6 DEF Meeting

LEMMA RankStepKeepsShape ==
    ASSUME Sized, Shape, NEW r \in Workers, BuildStep(r)
    PROVE  Shape'
  <1>0. /\ UNCHANGED <<leader, mount, artifact, own, plan>> /\ file[r] \in ModelFile
        /\ NumFiles \in Nat \ {0}
    BY OneRank, Domains DEF Sized
  <1>1. \E p \in Places, f \in ModelFile : building' = [building EXCEPT ![r] = p] /\ file' = [file EXCEPT ![r] = f]
    <2>1. Meet(r) \in Places
      BY DEF Meet, Places, Gathers
    <2>2. 1 \in ModelFile /\ (file[r] < NumFiles => file[r] + 1 \in ModelFile) /\ building[r] \in Places
      BY <1>0, SMTT(30) DEF ModelFile, Shape, Places
    <2>3. CASE Raise(r)
      BY <2>1, <2>2, <2>3 DEF Raise, Go
    <2>4. CASE Compare(r) /\ ~Raise(r)
      BY <1>0, <2>1, <2>2, <2>4 DEF Compare, Go, OnTo, Places, Passes
    <2>5. CASE Take(r)
      <3>1. {"before", "first"} \subseteq Places
        BY DEF Places, Passes, Gathers
      <3> QED
        BY <2>2, <2>5, <3>1 DEF Take, OnTo, Go
    <2>6. CASE Read(r)
      BY <1>0, <2>6 DEF Read, Go, Places, Passes
    <2>7. CASE Load(r)
      BY <1>0, <2>2, <2>7 DEF Load, OnTo, Go, Places, Gathers
    <2> QED
      BY <2>3, <2>4, <2>5, <2>6, <2>7 DEF BuildStep, Local, Error
  <1>2. building \in [Workers -> Places] /\ file \in [Workers -> ModelFile]
    BY DEF Shape, Places
  <1>3. building' \in [Workers -> Places] /\ file' \in [Workers -> ModelFile]
    BY <1>1, <1>2
  <1>4. /\ ok \in [Workers -> BOOLEAN] /\ stage \in [Workers -> {"plan", "closure"}]
        /\ stat \in [Workers -> [ModelFile -> Nat]] /\ digest \in [Workers -> [ModelFile -> Bytes0]]
        /\ loaded \in [Workers -> [ModelFile -> Bytes0]]
        /\ artifact \in [Workers -> [ModelFile -> [content : Content, version : Nat]]] /\ mount[r] \in Workers
    BY DEF Shape
  <1>5. artifact[mount[r]][file[r]] \in [content : Content, version : Nat]
    BY <1>0, <1>4
  <1>6. Version(r, file[r]) \in Nat /\ Bytes(r, file[r]) \in Bytes0
    BY <1>5 DEF Version, Bytes, Bytes0
  <1>7. /\ ok' \in [Workers -> BOOLEAN] /\ stage' \in [Workers -> {"plan", "closure"}]
        /\ stat' \in [Workers -> [ModelFile -> Nat]] /\ digest' \in [Workers -> [ModelFile -> Bytes0]]
        /\ loaded' \in [Workers -> [ModelFile -> Bytes0]]
    <2>1. CASE Raise(r)
      BY <1>4, <2>1 DEF Raise
    <2>2. CASE Compare(r)
      BY <1>4, <2>1, <2>2 DEF Compare
    <2>3. CASE Take(r)
      <3>1. stat' = [stat EXCEPT ![r][file[r]] = Version(r, file[r])] /\ UNCHANGED <<stage, ok, digest, loaded>>
        BY <2>3 DEF Take
      <3> QED
        BY <1>0, <1>4, <1>6, <3>1
    <2>4. CASE Read(r)
      <3>1. digest' = [digest EXCEPT ![r][file[r]] = Bytes(r, file[r])] /\ UNCHANGED <<stage, ok, stat, loaded>>
        BY <2>4 DEF Read
      <3> QED
        BY <1>0, <1>4, <1>6, <3>1
    <2>5. CASE Load(r)
      <3>1. /\ loaded' = [loaded EXCEPT ![r][file[r]] = Bytes(r, file[r])] /\ UNCHANGED <<ok, stat, digest>>
            /\ stage' = [stage EXCEPT ![r] = IF file[r] < NumFiles THEN stage[r] ELSE "closure"]
        BY <2>5 DEF Load
      <3> QED
        BY <1>0, <1>4, <1>6, <3>1
    <2> QED
      BY <2>1, <2>2, <2>3, <2>4, <2>5 DEF BuildStep, Local, Error
  <1> QED
    BY <1>0, <1>3, <1>7 DEF Shape, Places

LEMMA ShapeKept ==
    ASSUME Sized, Shape, [ModelNext]_modelVars
    PROVE  Shape'
  <1>1. CASE \E r \in Workers : BuildStep(r)
    BY <1>1, RankStepKeepsShape
  <1>2. CASE Meeting
    <2>1. /\ UNCHANGED <<leader, mount, artifact, stage, stat, digest, loaded>>
          /\ building' \in [Workers -> Places] /\ ok' \in [Workers -> BOOLEAN] /\ own' \in [Workers -> BOOLEAN]
      BY <1>2, MeetingMoves
    <2>2. file' \in [Workers -> ModelFile]
      <3>1. 1 \in ModelFile
        BY DEF Sized, ModelFile
      <3> QED
        BY <1>2, <3>1, MeetingMoves DEF Shape
    <2>3. plan' \in [Workers -> [digest : [ModelFile -> Bytes0], stat : [ModelFile -> Nat]]]
      <3>1. ASSUME NEW r \in Workers
            PROVE  [digest |-> digest[leader[r]], stat |-> stat[r]]
                     \in [digest : [ModelFile -> Bytes0], stat : [ModelFile -> Nat]]
        BY DEF Shape
      <3>2. plan \in [Workers -> [digest : [ModelFile -> Bytes0], stat : [ModelFile -> Nat]]]
        BY DEF Shape
      <3> QED
        BY <1>2, <3>1, <3>2, MeetingMoves
    <2> QED
      BY <2>1, <2>2, <2>3 DEF Shape, Places
  <1>3. CASE Rewriting
    BY <1>3, RewriteMoves DEF Shape
  <1>4. CASE UNCHANGED modelVars
    BY <1>4 DEF modelVars, topology, files, Shape
  <1> QED
    BY <1>1, <1>2, <1>3, <1>4 DEF ModelNext, Rewriting

-----------------------------------------------------------------------------
(***************************************************************************)
(* Versions only grow, so what was taken stays of the past.                *)
(***************************************************************************)
LEMMA Numbers ==
    ASSUME Shape, NEW r \in Workers, NEW f \in ModelFile
    PROVE  /\ mount[r] \in Workers /\ artifact[mount[r]][f].version \in Nat
           /\ stat[r][f] \in Nat /\ plan[r].stat[f] \in Nat
  <1>1. artifact[mount[r]][f] \in [content : Content, version : Nat] /\ mount[r] \in Workers
    BY DEF Shape
  <1>2. plan[r] \in [digest : [ModelFile -> Bytes0], stat : [ModelFile -> Nat]] /\ stat[r] \in [ModelFile -> Nat]
    BY DEF Shape
  <1>3. plan[r].stat \in [ModelFile -> Nat]
    BY <1>2
  <1> QED
    BY <1>1, <1>2, <1>3

LEMMA TakeMoves ==
    ASSUME Shape, NEW r \in Workers, BuildStep(r)
    PROVE  \A f \in ModelFile : stat'[r][f] = stat[r][f] \/ stat'[r][f] = Version(r, f)
  <1>1. CASE Take(r)
    <2>1. stat' = [stat EXCEPT ![r][file[r]] = Version(r, file[r])]
      BY <1>1 DEF Take
    <2> QED
      BY <2>1, Domains
  <1>2. CASE ~Take(r)
    BY <1>2 DEF BuildStep, Local, Error, Raise, Read, Compare, Load
  <1> QED
    BY <1>1, <1>2

LEMMA PastKept ==
    ASSUME Shape, Past, [ModelNext]_modelVars
    PROVE  Past'
  <1> SUFFICES ASSUME NEW q \in Workers, NEW f \in ModelFile
               PROVE  /\ stat'[q][f] <= artifact'[mount'[q]][f].version
                      /\ plan'[q].stat[f] <= artifact'[mount'[q]][f].version
    BY DEF Past, Version
  <1>0. /\ stat[q][f] <= artifact[mount[q]][f].version /\ plan[q].stat[f] <= artifact[mount[q]][f].version
        /\ mount[q] \in Workers /\ artifact[mount[q]][f].version \in Nat
        /\ stat[q][f] \in Nat /\ plan[q].stat[f] \in Nat
    BY Numbers DEF Past, Version
  <1>1. CASE \E r \in Workers : BuildStep(r)
    <2>1. PICK r \in Workers : BuildStep(r)
      BY <1>1
    <2>2. stat'[q][f] = stat[q][f] \/ stat'[q][f] = artifact[mount[q]][f].version
      <3>1. CASE q = r
        BY <2>1, <3>1, TakeMoves DEF Version
      <3>2. CASE q # r
        BY <2>1, <3>2, OneRank
      <3> QED
        BY <3>1, <3>2
    <2> QED
      BY <1>0, <2>1, <2>2, OneRank
  <1>2. CASE Meeting
    <2>1. UNCHANGED <<mount, artifact, stat>>
      BY <1>2, MeetingMoves
    <2>2. plan' = plan \/ plan' = [r \in Workers |-> [digest |-> digest[leader[r]], stat |-> stat[r]]]
      BY <1>2, MeetingMoves
    <2>3. plan'[q].stat = plan[q].stat \/ plan'[q].stat = stat[q]
      BY <2>2
    <2> QED
      BY <1>0, <2>1, <2>3
  <1>3. CASE Rewriting
    <2>1. /\ UNCHANGED <<mount, stat, plan>>
          /\ \/ artifact'[mount[q]][f] = artifact[mount[q]][f]
             \/ artifact'[mount[q]][f].version = artifact[mount[q]][f].version + 1
             \/ artifact'[mount[q]][f].version = artifact[mount[q]][f].version
      BY <1>0, <1>3, RewriteMoves
    <2>2. \A v, w, x \in Nat : v <= x /\ w <= x => v <= x + 1 /\ w <= x + 1
      OBVIOUS
    <2> QED
      BY <1>0, <2>1, <2>2
  <1>4. CASE UNCHANGED modelVars
    BY <1>0, <1>4 DEF modelVars, topology, files
  <1> QED
    BY <1>1, <1>2, <1>3, <1>4 DEF ModelNext, Rewriting

-----------------------------------------------------------------------------
(***************************************************************************)
(* What is known of the files stays known when they are rewritten.         *)
(***************************************************************************)
\* A copy still of version v is rewritten silently now, if at all, and never was before.
LEMMA SameVersion ==
    ASSUME Shape, Rewriting, NEW m \in Workers, NEW f \in ModelFile, NEW v \in Nat,
           v <= artifact[m][f].version, artifact'[m][f].version = v
    PROVE  /\ artifact[m][f].version = v /\ silent \subseteq silent'
           /\ artifact'[m][f] # artifact[m][f] => <<m, f>> \notin silent /\ <<m, f>> \in silent'
  <1>1. /\ silent \subseteq silent' /\ artifact[m][f].version \in Nat
        /\ \/ artifact'[m][f] = artifact[m][f]
           \/ artifact'[m][f].version = artifact[m][f].version + 1
           \/ /\ artifact'[m][f].version = artifact[m][f].version
              /\ <<m, f>> \notin silent /\ <<m, f>> \in silent'
    <2>1. artifact[m][f] \in [content : Content, version : Nat]
      BY RewriteMoves
    <2> QED
      BY <2>1, RewriteMoves
  <1>2. artifact[m][f].version + 1 # v
    BY <1>1
  <1> QED
    BY <1>1, <1>2

LEMMA SeenStays ==
    ASSUME Shape, Rewriting, NEW m \in Workers, NEW f \in ModelFile, NEW v \in Nat, NEW c,
           v <= artifact[m][f].version, Seen(m, f, v, c)
    PROVE  artifact'[m][f].version = v /\ artifact'[m][f].content # c => <<m, f>> \in silent'
  BY SameVersion DEF Seen

LEMMA KnownStays ==
    ASSUME Shape, Past, Rewriting, NEW r \in Workers, NEW f \in ModelFile
    PROVE  /\ AsLoaded(r, f) => AsLoaded(r, f)'
           /\ \A p \in Workers : Tells(r, p, f) => Tells(r, p, f)'
           /\ \A p \in Workers : Serves(p, r, f) => Serves(p, r, f)'
           /\ Read1(r, f) => Read1(r, f)'
           /\ Seen(mount[r], f, plan[r].stat[f], plan[r].digest[f])
                 => Seen(mount[r], f, plan[r].stat[f], plan[r].digest[f])'
           /\ Version(r, f)' = plan[r].stat[f] => Version(r, f) = plan[r].stat[f]
  <1>0. UNCHANGED <<leader, mount, building, file, stage, own, ok, stat, digest, plan, loaded>>
    BY RewriteMoves
  <1>1. \A q \in Workers :
           /\ mount[q] \in Workers /\ artifact[mount[q]][f].version \in Nat
           /\ stat[q][f] \in Nat /\ plan[q].stat[f] \in Nat
           /\ stat[q][f] <= artifact[mount[q]][f].version /\ plan[q].stat[f] <= artifact[mount[q]][f].version
    BY Numbers DEF Past, Version
  <1>2. \A q \in Workers :
           artifact'[mount[q]][f].version = plan[q].stat[f] =>
              /\ artifact[mount[q]][f].version = plan[q].stat[f] /\ silent \subseteq silent'
              /\ artifact'[mount[q]][f] # artifact[mount[q]][f] =>
                    <<mount[q], f>> \notin silent /\ <<mount[q], f>> \in silent'
    BY <1>1, SameVersion
  <1>3. AsLoaded(r, f) => AsLoaded(r, f)'
    <2>1. SUFFICES ASSUME AsLoaded(r, f), artifact'[mount[r]][f].version = plan[r].stat[f]
                   PROVE  /\ artifact'[mount[r]][f].content # loaded[r][f] => <<mount[r], f>> \in silent'
                          /\ loaded[r][f] # plan[r].digest[f] =>
                                <<mount[r], f>> \in silent' /\ artifact'[mount[r]][f].content = loaded[r][f]
      BY <1>0 DEF AsLoaded, Version, Bytes
    <2>2. /\ artifact[mount[r]][f].version = plan[r].stat[f] /\ silent \subseteq silent'
          /\ artifact'[mount[r]][f] # artifact[mount[r]][f] =>
                <<mount[r], f>> \notin silent /\ <<mount[r], f>> \in silent'
      BY <1>2, <2>1
    <2>3. /\ artifact[mount[r]][f].content # loaded[r][f] => <<mount[r], f>> \in silent
          /\ loaded[r][f] # plan[r].digest[f] =>
                <<mount[r], f>> \in silent /\ artifact[mount[r]][f].content = loaded[r][f]
      BY <2>1, <2>2 DEF AsLoaded, Version, Bytes
    <2> QED
      BY <2>2, <2>3
  <1>4. \A q, p \in Workers : Tells(q, p, f) => Tells(q, p, f)'
    BY <1>0, <1>2 DEF Tells, Version
  <1>5. \A p \in Workers : Seen(mount[r], f, stat[r][f], digest[p][f])
                            => Seen(mount[r], f, stat[r][f], digest[p][f])'
    <2>1. ASSUME NEW p \in Workers, Seen(mount[r], f, stat[r][f], digest[p][f])
          PROVE  artifact'[mount[r]][f].version = stat[r][f] /\ artifact'[mount[r]][f].content # digest[p][f]
                    => <<mount[r], f>> \in silent'
      BY <1>1, <2>1, SeenStays
    <2> QED
      BY <1>0, <2>1 DEF Seen
  <1>6. Seen(mount[r], f, plan[r].stat[f], plan[r].digest[f])
           => Seen(mount[r], f, plan[r].stat[f], plan[r].digest[f])'
    BY <1>0, <1>2 DEF Seen
  <1>7. \A p \in Workers : Serves(p, r, f) => Serves(p, r, f)'
    BY <1>0, <1>4, <1>5 DEF Serves
  <1>8. Read1(r, f) => Read1(r, f)'
    BY <1>0, <1>4, <1>5 DEF Read1
  <1> QED
    BY <1>0, <1>2, <1>3, <1>4, <1>6, <1>7, <1>8 DEF Version
LEMMA RewritingKeepsTogether ==
    ASSUME Shape, Past, Together, Rewriting
    PROVE  Together'
  <1>0. UNCHANGED <<leader, mount, building, file, stage, own, ok, stat, digest, plan, loaded>>
    BY RewriteMoves
  <1>1. Leaders' = Leaders /\ \A p \in Workers : ReadFiles(p)' = ReadFiles(p)
    BY <1>0 DEF Leaders, ReadFiles
  <1>2. Planned => Planned'
    BY <1>0, KnownStays DEF Planned
  <1>3. ASSUME NEW s \in Stages
        PROVE  InStage(s) => InStage(s)'
    BY <1>0, <1>2, KnownStays DEF InStage
  <1>4. LeadersAgree => LeadersAgree'
    BY <1>0, <1>1 DEF LeadersAgree
  <1>5. \A r \in Workers, f \in ModelFile : Read1(r, f) => Read1(r, f)'
    BY KnownStays
  <1>6. \A r \in Workers : leader[r] \in Workers
    BY DEF Shape
  <1>7. \A r \in Workers, f \in ModelFile : Serves(leader[r], r, f) => Serves(leader[r], r, f)'
    <2>1. ASSUME NEW r \in Workers, NEW f \in ModelFile, Serves(leader[r], r, f)
          PROVE  Serves(leader[r], r, f)'
      <3> DEFINE p == leader[r]
      <3>1. p \in Workers /\ Serves(p, r, f) /\ p' = p
        BY <1>0, <1>6, <2>1
      <3>2. \A q \in Workers : Serves(q, r, f) => Serves(q, r, f)'
        BY KnownStays
      <3>3. \A q \in Workers : Serves(q, r, f)' <=>
                /\ artifact'[mount'[r]][f].version = stat'[r][f] /\ artifact'[mount'[r]][f].content # digest'[q][f]
                      => <<mount'[r], f>> \in silent'
                /\ stage'[r] = "closure" =>
                      (artifact'[mount'[r]][f].version = plan'[r].stat[f] /\ digest'[q][f] = plan'[r].digest[f]
                          => loaded'[r][f] = plan'[r].digest[f])
        BY DEF Serves, Seen, Tells, Version
      <3>4. /\ artifact'[mount'[r]][f].version = stat'[r][f] /\ artifact'[mount'[r]][f].content # digest'[p][f]
                 => <<mount'[r], f>> \in silent'
            /\ stage'[r] = "closure" =>
                 (artifact'[mount'[r]][f].version = plan'[r].stat[f] /\ digest'[p][f] = plan'[r].digest[f]
                     => loaded'[r][f] = plan'[r].digest[f])
        BY <3>1, <3>2, <3>3
      <3> QED
        BY <1>0, <3>4 DEF Serves, Seen, Tells, Version
    <2> QED
      BY <2>1
  <1>8. CASE Entering
    BY <1>0, <1>8 DEF Entering, Together
  <1>9. ASSUME NEW s \in Stages, LeadersHash(s)
        PROVE  LeadersHash(s)'
    BY <1>0, <1>1, <1>3, <1>5, <1>9 DEF LeadersHash, ReadFiles, Leaders
  <1>10. ASSUME NEW s \in Stages, OthersHash(s)
         PROVE  OthersHash(s)'
    BY <1>0, <1>1, <1>3, <1>4, <1>5, <1>7, <1>10 DEF OthersHash, ReadFiles, Leaders
  <1>11. ASSUME NEW s \in Stages, Checking(s)
         PROVE  Checking(s)'
    BY <1>0, <1>3, <1>4, <1>7, <1>11 DEF Checking
  <1>12. CASE Capturing
    BY <1>0, <1>2, <1>12 DEF Capturing, Together
  <1>13. CASE Loading
    BY <1>0, <1>2, <1>13, KnownStays DEF Loading, Together
  <1>14. CASE Verifying
    BY <1>0, <1>2, <1>14, KnownStays DEF Verifying, Verified, Together
  <1>15. CASE Built \/ Failed
    BY <1>0, <1>15 DEF Built, Failed, Together
  <1> QED
    BY <1>8, <1>9, <1>10, <1>11, <1>12, <1>13, <1>14, <1>15 DEF Together
-----------------------------------------------------------------------------
(***************************************************************************)
(* A step of one rank keeps the ranks together.                            *)
(***************************************************************************)
\* What a step of rank r leaves known.
LEMMA RankKnown ==
    ASSUME Shape, NEW r \in Workers, BuildStep(r), UNCHANGED loaded
    PROVE  /\ Planned => Planned'
           /\ \A s \in Stages : InStage(s) /\ UNCHANGED stage => InStage(s)'
           /\ \A q \in Workers, p \in Workers, f \in ModelFile :
                 /\ AsLoaded(q, f) => AsLoaded(q, f)'
                 /\ digest'[p][f] = digest[p][f] => (Tells(q, p, f) => Tells(q, p, f)')
  <1>0. UNCHANGED <<leader, mount, artifact, silent, own, plan>>
    BY OneRank
  <1>1. Planned => Planned'
    BY <1>0 DEF Planned, Seen
  <1>2. \A q \in Workers, f \in ModelFile : AsLoaded(q, f) => AsLoaded(q, f)'
    BY <1>0 DEF AsLoaded, Version, Bytes
  <1>3. \A q, p \in Workers, f \in ModelFile :
           digest'[p][f] = digest[p][f] => (Tells(q, p, f) => Tells(q, p, f)')
    BY <1>0 DEF Tells, Version
  <1>4. \A s \in Stages : InStage(s) /\ UNCHANGED stage => InStage(s)'
    BY <1>1, <1>2 DEF InStage
  <1> QED
    BY <1>1, <1>2, <1>3, <1>4

LEMMA Read1Kept ==
    ASSUME Shape, NEW r \in Workers, BuildStep(r), UNCHANGED <<loaded, stage>>,
           NEW p \in Workers, NEW f \in ModelFile, Read1(p, f),
           digest'[p][f] = digest[p][f], stat'[p][f] = stat[p][f]
    PROVE  Read1(p, f)'
  <1>0. UNCHANGED <<leader, mount, artifact, silent, own, plan>>
    BY OneRank
  <1>1. Seen(mount[p], f, stat[p][f], digest[p][f])'
    BY <1>0 DEF Read1, Seen
  <1>2. \A q \in Workers : Tells(q, p, f) => Tells(q, p, f)'
    BY RankKnown
  <1> QED
    BY <1>0, <1>1, <1>2 DEF Read1

LEMMA ServesKept ==
    ASSUME Shape, NEW r \in Workers, BuildStep(r), UNCHANGED <<loaded, stage>>,
           NEW q \in Workers, NEW f \in ModelFile, Serves(leader[q], q, f),
           digest'[leader[q]] = digest[leader[q]], stat'[q] = stat[q]
    PROVE  Serves(leader[q], q, f)'
  <1>0. UNCHANGED <<leader, mount, artifact, silent, own, plan>>
    BY OneRank
  <1> QED
    BY <1>0 DEF Serves, Seen, Tells, Version

\* What a rank reads it knows, and in the closure it knows what the others loaded.
LEMMA ReadNow ==
    ASSUME Sized, Shape, NEW r \in Workers, BuildStep(r), UNCHANGED <<loaded, stage>>,
           NEW s \in Stages, InStage(s),
           NEW f \in ModelFile, digest'[r][f] = Bytes(r, f)
    PROVE  Read1(r, f)'
  <1>0. UNCHANGED <<leader, mount, artifact, silent, own, plan>>
    BY OneRank
  <1>1. digest'[r][f] = artifact[mount[r]][f].content
    BY DEF Bytes
  <1>2. Seen(mount[r], f, stat[r][f], digest[r][f])'
    BY <1>0, <1>1 DEF Seen
  <1>3. ASSUME stage[r] = "closure", NEW q \in Workers, mount[q] = mount[r]
        PROVE  Tells(q, r, f)'
    <2>1. AsLoaded(q, f)
      BY <1>3 DEF InStage
    <2> QED
      BY <1>0, <1>1, <1>3, <2>1 DEF AsLoaded, Tells, Version, Bytes
  <1> QED
    BY <1>0, <1>2, <1>3 DEF Read1

\* The files that a rank has read after its step.
LEMMA ReadFilesKept ==
    ASSUME Sized, Shape, NEW r \in Workers, BuildStep(r), building[r] \in Hashing,
           NEW s \in Stages, InStage(s), \A f \in ReadFiles(r) : Read1(r, f)
    PROVE  \A f \in ReadFiles(r)' : Read1(r, f)'
  <1>0. UNCHANGED <<stage, loaded>> /\ file[r] \in ModelFile
    BY HashMoves, Domains
  <1>1. ReadFiles(r) \subseteq ModelFile
    BY DEF ReadFiles
  <1>2. CASE digest' = digest /\ ReadFiles(r)' = {}
    BY <1>2
  <1>3. CASE digest' = digest /\ stat' = stat /\ ReadFiles(r)' \subseteq ReadFiles(r)
    BY <1>0, <1>1, <1>3, Read1Kept
  <1>4. CASE /\ stat' = stat /\ ReadFiles(r)' \subseteq ReadFiles(r) \cup {file[r]}
             /\ digest' = [digest EXCEPT ![r][file[r]] = Bytes(r, file[r])]
    <2>1. ASSUME NEW f \in ModelFile, f = file[r]
          PROVE  Read1(r, f)'
      <3>1. digest'[r][f] = Bytes(r, f)
        BY <1>4, <2>1, Domains
      <3> QED
        BY <1>0, <3>1, ReadNow
    <2>2. \A f \in ModelFile : f # file[r] => digest'[r][f] = digest[r][f]
      BY <1>4, Domains
    <2>3. \A f \in ModelFile : f # file[r] /\ Read1(r, f) => Read1(r, f)'
      BY <1>0, <1>4, <2>2, Read1Kept
    <2>4. ASSUME NEW f \in ReadFiles(r)', f # file[r]
          PROVE  Read1(r, f)'
      BY <1>1, <1>4, <2>3, <2>4
    <2>5. ASSUME NEW f \in ReadFiles(r)', f = file[r]
          PROVE  Read1(r, f)'
      BY <1>0, <2>1, <2>5
    <2> QED
      BY <2>4, <2>5
  <1> QED
    BY <1>2, <1>3, <1>4, HashMoves
LEMMA LeadersHashStep ==
    ASSUME Sized, Shape, NEW r \in Workers, BuildStep(r), NEW s \in Stages, LeadersHash(s)
    PROVE  LeadersHash(s)'
  <1>0. /\ UNCHANGED <<leader, mount, artifact, silent, own, plan>>
        /\ \A q \in Workers : q # r =>
              /\ building'[q] = building[q] /\ file'[q] = file[q] /\ ok'[q] = ok[q]
              /\ stat'[q] = stat[q] /\ digest'[q] = digest[q]
    BY OneRank
  <1>1. Leaders' = Leaders /\ ~ own[r] /\ InStage(s) /\ Leaders \subseteq Workers
    BY <1>0 DEF Leaders, LeadersHash
  <1>2. \A p \in Workers : p # r => ReadFiles(p)' = ReadFiles(p)
    BY <1>0 DEF ReadFiles
  <1>3. \A p \in Workers : ReadFiles(p) \subseteq ModelFile
    BY DEF ReadFiles
  <1>4. CASE building[r] \in Hashing
    <2>1. r \in Leaders
      BY <1>4 DEF LeadersHash, Hashing
    <2>2. UNCHANGED <<stage, loaded>> /\ building'[r] \in Hashing \cup {"first"}
      BY <1>1, <1>4, HashMoves
    <2>3. InStage(s)'
      BY <1>1, <2>2, RankKnown
    <2>4. \A f \in ReadFiles(r)' : Read1(r, f)'
      BY <1>1, <1>4, <2>1, ReadFilesKept DEF LeadersHash
    <2>5. ASSUME NEW p \in Leaders, p # r, NEW f \in ReadFiles(p)'
          PROVE  Read1(p, f)'
      <3>1. f \in ModelFile /\ p \in Workers /\ Read1(p, f)
        BY <1>1, <1>2, <1>3, <2>5 DEF LeadersHash
      <3> QED
        BY <1>0, <2>2, <2>5, <3>1, Read1Kept
    <2>6. \A p \in Leaders : \A f \in ReadFiles(p)' : Read1(p, f)'
      BY <2>4, <2>5
    <2>7. \A q \in Workers :
             ~ own'[q] /\ building'[q] \in (IF q \in Leaders THEN Hashing ELSE {"inventory"}) \cup {"first"}
      BY <1>0, <2>1, <2>2 DEF LeadersHash
    <2> QED
      BY <1>1, <2>3, <2>6, <2>7 DEF LeadersHash
  <1>5. CASE building[r] = "inventory"
    <2>1. r \notin Leaders
      BY <1>5 DEF LeadersHash, Hashing
    <2>2. UNCHANGED <<stage, loaded, digest>> /\ building'[r] \in {"inventory", "first"}
      BY <1>1, <1>5, InventoryMoves
    <2>3. InStage(s)'
      BY <1>1, <2>2, RankKnown
    <2>5. ASSUME NEW p \in Leaders, NEW f \in ReadFiles(p)'
          PROVE  Read1(p, f)'
      <3>1. f \in ModelFile /\ p \in Workers /\ Read1(p, f) /\ p # r
        BY <1>1, <1>2, <1>3, <2>1, <2>5 DEF LeadersHash
      <3> QED
        BY <1>0, <2>2, <2>5, <3>1, Read1Kept
    <2>7. \A q \in Workers :
             ~ own'[q] /\ building'[q] \in (IF q \in Leaders THEN Hashing ELSE {"inventory"}) \cup {"first"}
      BY <1>0, <2>1, <2>2 DEF LeadersHash
    <2> QED
      BY <1>1, <2>3, <2>5, <2>7 DEF LeadersHash
  <1>6. CASE building[r] = "first"
    BY <1>6 DEF BuildStep, Local, Error, Take, Read, Compare, Load, Passes
  <1> QED
    BY <1>4, <1>5, <1>6 DEF LeadersHash

LEMMA OthersHashStep ==
    ASSUME Sized, Shape, NEW r \in Workers, BuildStep(r), NEW s \in Stages, OthersHash(s)
    PROVE  OthersHash(s)'
  <1>0. /\ UNCHANGED <<leader, mount, artifact, silent, own, plan>>
        /\ \A q \in Workers : q # r =>
              /\ building'[q] = building[q] /\ file'[q] = file[q] /\ ok'[q] = ok[q]
              /\ stat'[q] = stat[q] /\ digest'[q] = digest[q]
    BY OneRank
  <1>1. building[r] # "second"
    BY DEF BuildStep, Local, Error, Take, Read, Compare, Load, Passes
  <1>2. own[r] /\ building[r] \in Hashing /\ r \notin Leaders /\ InStage(s) /\ LeadersAgree
    BY <1>1 DEF OthersHash
  <1>3. Leaders' = Leaders /\ Leaders \subseteq Workers /\ \A q \in Workers : leader[q] \in Leaders
    BY <1>0 DEF Leaders, Shape
  <1>4. \A p \in Workers : ReadFiles(p) \subseteq ModelFile /\ (p # r => ReadFiles(p)' = ReadFiles(p))
    BY <1>0 DEF ReadFiles
  <1>5. UNCHANGED <<stage, loaded>> /\ building'[r] \in Hashing \cup {"second"}
    BY <1>2, HashMoves
  <1>6. InStage(s)'
    BY <1>2, <1>5, RankKnown
  <1>7. \A p \in Leaders : digest'[p] = digest[p]
    BY <1>0, <1>2, <1>3
  <1>8. LeadersAgree'
    BY <1>2, <1>3, <1>7 DEF LeadersAgree
  <1>9. \A f \in ReadFiles(r)' : Read1(r, f)'
    BY <1>2, ReadFilesKept DEF OthersHash
  <1>10. ASSUME NEW q \in Workers, own[q], q # r, NEW f \in ReadFiles(q)'
         PROVE  Read1(q, f)'
    <2>1. f \in ModelFile /\ Read1(q, f)
      BY <1>4, <1>10 DEF OthersHash
    <2> QED
      BY <1>0, <1>5, <1>10, <2>1, Read1Kept
  <1>11. ASSUME NEW q \in Workers, ~ own[q], NEW f \in ModelFile
         PROVE  Serves(leader[q], q, f)'
    <2>1. q # r /\ Serves(leader[q], q, f) /\ leader[q] \in Leaders
      BY <1>2, <1>3, <1>11 DEF OthersHash
    <2> QED
      BY <1>0, <1>5, <1>7, <2>1, ServesKept
  <1>12. ASSUME NEW q \in Workers
         PROVE  /\ building'[q] \in (IF own'[q] THEN Hashing ELSE {}) \cup {"second"}
                /\ IF own'[q] THEN q \notin Leaders /\ \A f \in ReadFiles(q)' : Read1(q, f)'
                              ELSE \A f \in ModelFile : Serves(leader[q], q, f)'
    <2>1. building'[q] \in (IF own'[q] THEN Hashing ELSE {}) \cup {"second"}
      BY <1>0, <1>2, <1>5 DEF OthersHash
    <2>2. own[q] => q \notin Leaders /\ \A f \in ReadFiles(q)' : Read1(q, f)'
      BY <1>2, <1>9, <1>10 DEF OthersHash
    <2> QED
      BY <1>0, <1>11, <2>1, <2>2
  <1> QED
    BY <1>3, <1>6, <1>8, <1>12 DEF OthersHash

LEMMA CheckingStep ==
    ASSUME Shape, NEW r \in Workers, BuildStep(r), NEW s \in Stages, Checking(s)
    PROVE  Checking(s)'
  <1>0. /\ UNCHANGED <<leader, mount, artifact, silent, own, plan>>
        /\ \A q \in Workers : q # r => building'[q] = building[q]
    BY OneRank
  <1>1. building[r] # "third"
    BY DEF BuildStep, Local, Error, Take, Read, Compare, Load, Passes
  <1>2. building[r] = "check" /\ InStage(s) /\ LeadersAgree
    BY <1>1 DEF Checking
  <1>3. UNCHANGED <<stage, stat, digest, loaded>> /\ building'[r] \in {"check", "third"}
    BY <1>2, LookMoves DEF Meet
  <1>4. InStage(s)' /\ LeadersAgree'
    BY <1>0, <1>2, <1>3, RankKnown DEF LeadersAgree, Leaders
  <1>5. \A q \in Workers, f \in ModelFile : Serves(leader[q], q, f)'
    BY <1>3, ServesKept DEF Checking
  <1>6. \A q \in Workers : building'[q] \in {"check", "third"}
    BY <1>0, <1>3 DEF Checking
  <1> QED
    BY <1>4, <1>5, <1>6 DEF Checking

LEMMA CapturingStep ==
    ASSUME Shape, NEW r \in Workers, BuildStep(r), Capturing
    PROVE  Capturing'
  <1>0. \A q \in Workers : q # r => building'[q] = building[q]
    BY OneRank
  <1>1. building[r] # "prepared"
    BY DEF BuildStep, Local, Error, Take, Read, Compare, Load, Passes
  <1>2. building[r] = "capture" /\ Planned
    BY <1>1 DEF Capturing
  <1>3. UNCHANGED <<stage, loaded>> /\ building'[r] \in {"capture", "prepared"}
    BY <1>2, LookMoves DEF Meet
  <1>4. Planned'
    BY <1>2, <1>3, RankKnown
  <1> QED
    BY <1>0, <1>3, <1>4 DEF Capturing

LEMMA VerifyingStep ==
    ASSUME Sized, Shape, NEW r \in Workers, BuildStep(r), Verifying
    PROVE  Verifying'
  <1>0. /\ UNCHANGED <<leader, mount, artifact, silent, own, plan>>
        /\ \A q \in Workers : q # r => building'[q] = building[q] /\ file'[q] = file[q] /\ ok'[q] = ok[q]
    BY OneRank
  <1>1. building[r] # "finalized"
    BY DEF BuildStep, Local, Error, Take, Read, Compare, Load, Passes
  <1>2. /\ building[r] = "verify" /\ Planned /\ file[r] \in ModelFile /\ NumFiles \in Nat \ {0}
        /\ \A f \in ModelFile : Version(r, f) = plan[r].stat[f] \/ f < file[r] => Verified(r, f)
    BY <1>1, Domains DEF Verifying, Sized
  <1>3. /\ UNCHANGED <<stage, stat, digest, loaded>>
        /\ \/ building'[r] = "finalized" /\ ok'[r] = FALSE
           \/ /\ Verified(r, file[r])
              /\ \/ building'[r] = "verify" /\ file'[r] = file[r] + 1
                 \/ building'[r] = "finalized" /\ ~(file[r] < NumFiles)
    BY <1>2, LookMoves DEF Meet
  <1>4. Planned'
    BY <1>2, <1>3, RankKnown
  <1>5. \A q \in Workers, f \in ModelFile :
           /\ Verified(q, f)' <=> Verified(q, f)
           /\ Version(q, f)' = Version(q, f)
    BY <1>0, <1>3 DEF Verified, Version
  <1>6. Verified(r, file[r]) => \A f \in ModelFile : f < file[r] + 1 => Verified(r, f)
    BY <1>2 DEF ModelFile
  <1>7. Verified(r, file[r]) /\ ~(file[r] < NumFiles) => \A f \in ModelFile : Verified(r, f)
    BY <1>2 DEF ModelFile
  <1>8. /\ building'[r] \in {"verify", "finalized"}
        /\ building'[r] = "verify" => \A f \in ModelFile : Version(r, f) = plan[r].stat[f] \/ f < file'[r] => Verified(r, f)
        /\ building'[r] = "finalized" /\ ok'[r] => \A f \in ModelFile : Verified(r, f)
    BY <1>2, <1>3, <1>6, <1>7
  <1>9. ASSUME NEW q \in Workers
        PROVE  /\ building'[q] \in {"verify", "finalized"}
               /\ building'[q] = "verify" => \A f \in ModelFile : Version(q, f) = plan[q].stat[f] \/ f < file'[q] => Verified(q, f)
               /\ building'[q] = "finalized" /\ ok'[q] => \A f \in ModelFile : Verified(q, f)
    BY <1>0, <1>8 DEF Verifying
  <1> QED
    BY <1>0, <1>3, <1>4, <1>5, <1>9 DEF Verifying
LEMMA LoadingStep ==
    ASSUME Sized, Shape, NEW r \in Workers, BuildStep(r), Loading
    PROVE  Loading'
  <1>0. /\ UNCHANGED <<leader, mount, artifact, silent, own, plan>>
        /\ \A q \in Workers : q # r =>
              building'[q] = building[q] /\ file'[q] = file[q] /\ stage'[q] = stage[q] /\ loaded'[q] = loaded[q]
    BY OneRank
  <1>1. building[r] \notin {"enter", "dead"}
    BY DEF BuildStep, Local, Error, Take, Read, Compare, Load, Passes
  <1>2. /\ building[r] = "load" /\ stage[r] = "plan" /\ Planned /\ file[r] \in ModelFile /\ NumFiles \in Nat \ {0}
        /\ \A f \in ModelFile : f < file[r] => AsLoaded(r, f)
    BY <1>1, Domains DEF Loading, Sized
  <1>3. Planned'
    BY <1>0, <1>2 DEF Planned, Seen
  <1>4. \A q \in Workers, f \in ModelFile : loaded'[q][f] = loaded[q][f] => (AsLoaded(q, f) => AsLoaded(q, f)')
    BY <1>0 DEF AsLoaded, Version, Bytes
  <1>5. CASE Raise(r)
    <2>1. building'[r] = "dead"
      BY <1>2, <1>5, RaiseMoves DEF Meet
    <2> QED
      BY <1>0, <1>3, <1>4, <2>1 DEF Loading
  <1>6. CASE Load(r)
    <2>1. /\ loaded' = [loaded EXCEPT ![r][file[r]] = Bytes(r, file[r])]
          /\ stage' = [stage EXCEPT ![r] = IF file[r] < NumFiles THEN stage[r] ELSE "closure"]
          /\ OnTo(r, "enter")
      BY <1>6 DEF Load
    <2>2. ASSUME NEW f \in ModelFile, f = file[r]
          PROVE  AsLoaded(r, f)'
      <3>1. loaded'[r][f] = artifact[mount[r]][f].content
        BY <2>1, <2>2, Domains DEF Bytes
      <3>2. Seen(mount[r], f, plan[r].stat[f], plan[r].digest[f])
        BY <1>2 DEF Planned
      <3> QED
        BY <1>0, <3>1, <3>2 DEF Seen, AsLoaded, Version, Bytes
    <2>3. ASSUME NEW f \in ModelFile, f < file[r]
          PROVE  AsLoaded(r, f)'
      <3>1. f # file[r]
        BY <1>2, <2>3 DEF ModelFile
      <3>2. loaded'[r][f] = loaded[r][f]
        BY <2>1, <3>1, Domains
      <3> QED
        BY <1>2, <1>4, <2>3, <3>2
    <2>4. CASE file[r] < NumFiles
      <3>1. building'[r] = "load" /\ file'[r] = file[r] + 1 /\ stage'[r] = "plan"
        BY <1>2, <2>1, <2>4, Domains DEF OnTo, Go
      <3>2. \A f \in ModelFile : f < file[r] + 1 => f < file[r] \/ f = file[r]
        BY <1>2 DEF ModelFile
      <3>3. \A f \in ModelFile : f < file'[r] => AsLoaded(r, f)'
        BY <2>2, <2>3, <3>1, <3>2
      <3> QED
        BY <1>0, <1>3, <1>4, <3>1, <3>3 DEF Loading
    <2>5. CASE ~(file[r] < NumFiles)
      <3>1. building'[r] = "enter" /\ stage'[r] = "closure"
        BY <1>2, <2>1, <2>5, Domains DEF OnTo, Go
      <3>2. \A f \in ModelFile : f < file[r] \/ f = file[r]
        BY <1>2, <2>5 DEF ModelFile
      <3>3. \A f \in ModelFile : AsLoaded(r, f)'
        BY <2>2, <2>3, <3>2
      <3> QED
        BY <1>0, <1>3, <1>4, <3>1, <3>3 DEF Loading
    <2> QED
      BY <2>4, <2>5
  <1> QED
    BY <1>2, <1>5, <1>6 DEF BuildStep, Local, Error, Take, Read, Compare

LEMMA RankStepKeepsTogether ==
    ASSUME Sized, Shape, Together, NEW r \in Workers, BuildStep(r)
    PROVE  Together'
  <1>1. building[r] \in Passes
    BY DEF BuildStep, Local, Error, Take, Read, Compare, Load, Passes
  <1>2. ~Entering /\ ~Built /\ ~Failed
    BY <1>1 DEF Entering, Built, Failed, Passes
  <1>3. ASSUME NEW s \in Stages, LeadersHash(s) \/ OthersHash(s) \/ Checking(s)
        PROVE  Together'
    BY <1>3, LeadersHashStep, OthersHashStep, CheckingStep DEF Together
  <1>4. CASE Capturing \/ Loading \/ Verifying
    BY <1>4, CapturingStep, LoadingStep, VerifyingStep DEF Together
  <1> QED
    BY <1>2, <1>3, <1>4 DEF Together

-----------------------------------------------------------------------------
(***************************************************************************)
(* So does a gather: all are in it, and it leads from one segment to the   *)
(* next, or to the failure of all.                                         *)
(***************************************************************************)
\* What a gather leaves known.
LEMMA MeetingKnown ==
    ASSUME Shape, Meeting, UNCHANGED plan
    PROVE  /\ Planned => Planned'
           /\ \A s \in Stages : InStage(s) => InStage(s)'
           /\ LeadersAgree => LeadersAgree'
           /\ \A r \in Workers, f \in ModelFile : /\ AsLoaded(r, f) => AsLoaded(r, f)'
                                                  /\ Verified(r, f) => Verified(r, f)'
                                                  /\ Version(r, f)' = Version(r, f)
                                                  /\ Serves(leader[r], r, f) => Serves(leader[r], r, f)'
  <1>0. UNCHANGED <<leader, mount, artifact, silent, stage, stat, digest, loaded, plan>>
    BY MeetingMoves
  <1>1. Planned => Planned'
    BY <1>0 DEF Planned, Seen
  <1>2. \A r \in Workers, f \in ModelFile : AsLoaded(r, f) => AsLoaded(r, f)'
    BY <1>0 DEF AsLoaded, Version, Bytes
  <1>3. \A s \in Stages : InStage(s) => InStage(s)'
    BY <1>0, <1>1, <1>2 DEF InStage
  <1>4. \A r \in Workers, f \in ModelFile : Serves(leader[r], r, f) => Serves(leader[r], r, f)'
    BY <1>0 DEF Serves, Seen, Tells, Version
  <1>5. LeadersAgree => LeadersAgree'
    BY <1>0 DEF LeadersAgree, Leaders
  <1>6. \A r \in Workers, f \in ModelFile :
           (Verified(r, f) => Verified(r, f)') /\ Version(r, f)' = Version(r, f)
    BY <1>0 DEF Verified, Version
  <1> QED
    BY <1>1, <1>2, <1>3, <1>4, <1>5, <1>6

\* All raise: out of the plan, or into the end of the closure.
LEMMA AllRaise ==
    ASSUME Shape, Meeting, RaiseTogether, NEW s \in Stages, InStage(s),
           \A r \in Workers : building[r] # "finalized"
    PROVE  Failed' \/ Verifying'
  <1>1. /\ building' = [r \in Workers |-> IF stage[r] = "closure" /\ building[r] # "finalized"
                                  THEN "finalized" ELSE "failed"]
        /\ ok' = [r \in Workers |-> FALSE] /\ UNCHANGED <<plan, stage>>
    BY MeetingMoves DEF RaiseTogether
  <1>2. CASE s = "plan"
    BY <1>1, <1>2 DEF InStage, Failed
  <1>3. CASE s = "closure"
    <2>1. Planned'
      BY <1>1, <1>3, MeetingKnown DEF InStage
    <2>2. \A r \in Workers : stage'[r] = "closure" /\ building'[r] = "finalized" /\ ~ ok'[r]
      BY <1>1, <1>3 DEF InStage
    <2> QED
      BY <2>1, <2>2 DEF Verifying
  <1> QED
    BY <1>2, <1>3 DEF Stages

LEMMA EnterStep ==
    ASSUME Sized, Shape, Together, Meeting, Enter
    PROVE  Together'
  <1>0. /\ UNCHANGED <<leader, stage, plan>> /\ In("enter") /\ \E r \in Workers : TRUE
        /\ own' = [r \in Workers |-> FALSE]
        /\ building' = [r \in Workers |-> IF r \in Leaders THEN "base" ELSE "inventory"]
    BY MeetingMoves DEF Enter, Proceed, Sized
  <1>1. Entering \/ Loading
    <2>1. \A r \in Workers : building[r] = "enter"
      BY <1>0 DEF In
    <2>2. ASSUME NEW s \in Stages PROVE ~LeadersHash(s) /\ ~OthersHash(s) /\ ~Checking(s)
      BY <1>0, <2>1 DEF LeadersHash, OthersHash, Checking, Hashing
    <2>3. ~Capturing /\ ~Verifying /\ ~Built /\ ~Failed
      BY <1>0, <2>1 DEF Capturing, Verifying, Built, Failed
    <2> QED
      BY <2>2, <2>3 DEF Together
  <1>2. PICK s \in Stages : InStage(s)
    <2>1. CASE Entering
      BY <2>1 DEF Entering, InStage, Stages
    <2>2. CASE Loading
      BY <1>0, <2>2 DEF Loading, In, InStage, Stages
    <2> QED
      BY <1>1, <2>1, <2>2
  <1>3. InStage(s)'
    BY <1>0, <1>2, MeetingKnown
  <1>4. Leaders' = Leaders /\ Leaders \subseteq Workers
    BY <1>0 DEF Leaders
  <1>5. \A r \in Workers :
           ~ own'[r] /\ building'[r] \in (IF r \in Leaders THEN Hashing ELSE {"inventory"}) \cup {"first"}
    BY <1>0 DEF Hashing
  <1>6. \A p \in Leaders : ReadFiles(p)' = {}
    <2>1. \A p \in Leaders : building'[p] = "base"
      BY <1>0, <1>4
    <2> QED
      BY <2>1 DEF ReadFiles
  <1>7. LeadersHash(s)'
    BY <1>3, <1>4, <1>5, <1>6 DEF LeadersHash
  <1> QED
    BY <1>7 DEF Together
LEMMA FirstStep ==
    ASSUME Sized, Shape, Together, Meeting, First
    PROVE  Together'
  <1>0. In("first") /\ (\E r \in Workers : TRUE) /\ UNCHANGED <<leader, stage>>
    BY MeetingMoves DEF First, Sized
  <1>1. PICK s \in Stages : LeadersHash(s)
    <2>1. \A r \in Workers : building[r] = "first"
      BY <1>0 DEF In
    <2>2. ASSUME NEW s \in Stages PROVE ~OthersHash(s) /\ ~Checking(s)
      BY <1>0, <2>1 DEF OthersHash, Checking, Hashing
    <2>3. ~Entering /\ ~Capturing /\ ~Loading /\ ~Verifying /\ ~Built /\ ~Failed
      BY <1>0, <2>1 DEF Entering, Capturing, Loading, Verifying, Built, Failed
    <2> QED
      BY <2>2, <2>3 DEF Together
  <1>2. InStage(s) /\ \A r \in Workers : building[r] = "first"
    BY <1>0, <1>1 DEF LeadersHash, In
  <1>3. CASE RaiseTogether
    BY <1>2, <1>3, AllRaise DEF Together
  <1>4. CASE ~RaiseTogether
    <2>1. /\ \A r \in Workers : ok[r]
          /\ LeadersAgree
          /\ building' = [r \in Workers |-> IF Differing = {} THEN "check"
                                    ELSE IF r \in Differing THEN "base" ELSE "second"]
          /\ own' = [r \in Workers |-> r \in Differing]
          /\ UNCHANGED plan
      BY <1>4 DEF First, Proceed, LeadersAgree
    <2>2. InStage(s)' /\ LeadersAgree'
      BY <1>2, <2>1, MeetingKnown
    <2>3. /\ Leaders' = Leaders /\ Leaders \subseteq Workers
          /\ \A r \in Workers : leader[r] \in Leaders
          /\ \A r \in Differing : r \notin Leaders
      BY <1>0 DEF Leaders, Differing, Shape
    <2>4. ASSUME NEW r \in Workers, r \notin Differing, NEW f \in ModelFile
          PROVE  Serves(leader[r], r, f)
      <3> DEFINE p == leader[r]
      <3>1. p \in Leaders /\ p \in Workers /\ mount[r] = mount[p] /\ stat[r] = stat[p]
        BY <2>3, <2>4 DEF Differing
      <3>2. stage[p] = stage[r]
        BY <1>2, <3>1 DEF InStage
      <3> HIDE DEF p
      <3>3. ReadFiles(p) = ModelFile
        BY <1>2, <2>1, <3>1 DEF ReadFiles
      <3>4. Read1(p, f)
        BY <1>1, <3>1, <3>3 DEF LeadersHash
      <3>5. Serves(p, r, f)
        BY <3>1, <3>2, <3>4 DEF Read1, Serves
      <3> QED
        BY <3>5 DEF p
    <2>5. \A r \in Workers, f \in ModelFile : r \notin Differing => Serves(leader[r], r, f)'
      BY <2>1, <2>4, MeetingKnown
    <2>6. CASE Differing = {}
      <3>1. \A r \in Workers : building'[r] = "check" /\ \A f \in ModelFile : Serves(leader[r], r, f)'
        BY <2>1, <2>5, <2>6
      <3>2. Checking(s)'
        BY <2>2, <3>1 DEF Checking
      <3> QED
        BY <3>2 DEF Together
    <2>7. CASE Differing # {}
      <3>1. \A r \in Workers : /\ r \in Differing => own'[r] /\ building'[r] = "base"
                               /\ r \notin Differing => ~own'[r] /\ building'[r] = "second"
        BY <2>1, <2>7
      <3>2. \A r \in Workers : building'[r] = "base" => ReadFiles(r)' = {}
        BY DEF ReadFiles
      <3>3. \A r \in Workers :
               /\ building'[r] \in (IF own'[r] THEN Hashing ELSE {}) \cup {"second"}
               /\ IF own'[r] THEN r \notin Leaders /\ \A f \in ReadFiles(r)' : Read1(r, f)'
                             ELSE \A f \in ModelFile : Serves(leader[r], r, f)'
        BY <2>3, <2>5, <3>1, <3>2 DEF Hashing
      <3>4. OthersHash(s)'
        BY <2>2, <2>3, <3>3 DEF OthersHash
      <3> QED
        BY <3>4 DEF Together
    <2> QED
      BY <2>6, <2>7
  <1> QED
    BY <1>3, <1>4

LEMMA SecondStep ==
    ASSUME Sized, Shape, Together, Meeting, Second
    PROVE  Together'
  <1>0. In("second") /\ (\E r \in Workers : TRUE) /\ UNCHANGED <<leader, stage>>
    BY MeetingMoves DEF Second, Sized
  <1>1. PICK s \in Stages : OthersHash(s)
    <2>1. \A r \in Workers : building[r] = "second"
      BY <1>0 DEF In
    <2>2. ASSUME NEW s \in Stages PROVE ~LeadersHash(s) /\ ~Checking(s)
      BY <1>0, <2>1 DEF LeadersHash, Checking, Hashing
    <2>3. ~Entering /\ ~Capturing /\ ~Loading /\ ~Verifying /\ ~Built /\ ~Failed
      BY <1>0, <2>1 DEF Entering, Capturing, Loading, Verifying, Built, Failed
    <2> QED
      BY <2>2, <2>3 DEF Together
  <1>2. InStage(s) /\ LeadersAgree /\ \A r \in Workers : building[r] = "second"
    BY <1>0, <1>1 DEF OthersHash, In
  <1>3. CASE RaiseTogether
    BY <1>2, <1>3, AllRaise DEF Together
  <1>4. CASE ~RaiseTogether
    <2>1. /\ \A r \in Workers : ok[r] /\ (own[r] => digest[r] = digest[leader[r]])
          /\ building' = [r \in Workers |-> "check"]
          /\ UNCHANGED plan
      BY <1>4 DEF Second, Proceed
    <2>2. InStage(s)' /\ LeadersAgree'
      BY <1>2, <2>1, MeetingKnown
    <2>3. ASSUME NEW r \in Workers, NEW f \in ModelFile
          PROVE  Serves(leader[r], r, f)
      <3>1. CASE ~own[r]
        BY <1>1, <3>1 DEF OthersHash
      <3>2. CASE own[r]
        <4>1. ReadFiles(r) = ModelFile
          BY <1>2, <2>1 DEF ReadFiles
        <4>2. Read1(r, f) /\ digest[r] = digest[leader[r]]
          BY <1>1, <2>1, <3>2, <4>1 DEF OthersHash
        <4>3. Serves(r, r, f)
          BY <4>2 DEF Read1, Serves
        <4> QED
          BY <4>2, <4>3 DEF Serves, Seen, Tells
      <3> QED
        BY <3>1, <3>2
    <2>4. \A r \in Workers, f \in ModelFile : Serves(leader[r], r, f)'
      BY <2>1, <2>3, MeetingKnown
    <2>5. Checking(s)'
      BY <2>1, <2>2, <2>4 DEF Checking
    <2> QED
      BY <2>5 DEF Together
  <1> QED
    BY <1>3, <1>4

LEMMA ThirdStep ==
    ASSUME Sized, Shape, Together, Meeting, Third
    PROVE  Together'
  <1>0. /\ In("third") /\ (\E r \in Workers : TRUE)
        /\ UNCHANGED <<leader, mount, artifact, silent, stage, stat, digest, loaded>>
    BY MeetingMoves DEF Third, Sized
  <1>1. PICK s \in Stages : Checking(s)
    <2>1. \A r \in Workers : building[r] = "third"
      BY <1>0 DEF In
    <2>2. ASSUME NEW s \in Stages PROVE ~LeadersHash(s) /\ ~OthersHash(s)
      BY <1>0, <2>1 DEF LeadersHash, OthersHash, Hashing
    <2>3. ~Entering /\ ~Capturing /\ ~Loading /\ ~Verifying /\ ~Built /\ ~Failed
      BY <1>0, <2>1 DEF Entering, Capturing, Loading, Verifying, Built, Failed
    <2> QED
      BY <2>2, <2>3 DEF Together
  <1>2. /\ InStage(s) /\ LeadersAgree
        /\ \A r \in Workers : building[r] = "third" /\ \A f \in ModelFile : Serves(leader[r], r, f)
    BY <1>0, <1>1 DEF Checking, In
  <1>3. CASE RaiseTogether
    BY <1>2, <1>3, AllRaise DEF Together
  <1>4. CASE ~RaiseTogether /\ \A r \in Workers : stage[r] = "plan"
    <2>1. /\ plan' = [r \in Workers |-> [digest |-> digest[leader[r]], stat |-> stat[r]]]
          /\ building' = [r \in Workers |-> "capture"]
      BY <1>4 DEF Third, Proceed
    <2>2. \A r \in Workers : plan'[r].digest = digest[leader[r]] /\ plan'[r].stat = stat[r]
      BY <2>1
    <2>3. \A r \in Workers : leader[r] \in Leaders
      BY DEF Leaders, Shape
    <2>4. \A q, r \in Workers : plan'[q].digest = plan'[r].digest
      BY <1>2, <2>2, <2>3 DEF LeadersAgree
    <2>5. \A r \in Workers, f \in ModelFile : Seen(mount[r], f, plan[r].stat[f], plan[r].digest[f])'
      BY <1>0, <1>2, <2>2 DEF Serves, Seen
    <2>6. Planned'
      BY <2>4, <2>5 DEF Planned
    <2>7. Capturing'
      BY <1>0, <1>4, <2>1, <2>6 DEF Capturing
    <2> QED
      BY <2>7 DEF Together
  <1>5. CASE ~RaiseTogether /\ ~(\A r \in Workers : stage[r] = "plan")
    <2>1. s = "closure"
      BY <1>2, <1>5 DEF InStage, Stages
    <2>2. /\ \A r \in Workers : digest[leader[r]] = plan[r].digest
          /\ building' = [r \in Workers |-> "verify"] /\ file' = [r \in Workers |-> 1]
          /\ UNCHANGED plan
      BY <1>5 DEF Third, Proceed
    <2>3. Planned' /\ \A r \in Workers : stage'[r] = "closure"
      BY <1>0, <1>2, <2>1, <2>2, MeetingKnown DEF InStage
    <2>4. ASSUME NEW r \in Workers, NEW f \in ModelFile, Version(r, f) = plan[r].stat[f]
          PROVE  Verified(r, f)
      <3>1. Tells(r, leader[r], f)
        BY <1>2, <2>1, <2>4 DEF Serves, InStage
      <3> QED
        BY <2>2, <2>4, <3>1 DEF Tells, Verified
    <2>5. ASSUME NEW r \in Workers, NEW f \in ModelFile, Version(r, f)' = plan'[r].stat[f] \/ f < file'[r]
          PROVE  Verified(r, f)'
      <3>1. file'[r] = 1 /\ ~(f < 1)
        BY <2>2 DEF ModelFile
      <3>2. Version(r, f) = plan[r].stat[f]
        BY <2>2, <2>5, <3>1, MeetingKnown
      <3> QED
        BY <2>2, <2>4, <3>2, MeetingKnown
    <2>6. Verifying'
      BY <2>2, <2>3, <2>5 DEF Verifying
    <2> QED
      BY <2>6 DEF Together
  <1> QED
    BY <1>3, <1>4, <1>5

LEMMA PreparedStep ==
    ASSUME Sized, Shape, Together, Meeting, ConvergeStage("prepared", "load")
    PROVE  Together'
  <1>0. /\ In("prepared") /\ (\E r \in Workers : TRUE) /\ UNCHANGED <<stage, plan>>
        /\ RaiseTogether \/ Proceed([r \in Workers |-> "load"])
    BY MeetingMoves DEF ConvergeStage, RaiseTogether, Sized
  <1>1. \A r \in Workers : building[r] = "prepared"
    BY <1>0 DEF In
  <1>2. Capturing
    <2>2. ASSUME NEW s \in Stages PROVE ~LeadersHash(s) /\ ~OthersHash(s) /\ ~Checking(s)
      BY <1>0, <1>1 DEF LeadersHash, OthersHash, Checking, Hashing
    <2>3. ~Entering /\ ~Loading /\ ~Verifying /\ ~Built /\ ~Failed
      BY <1>0, <1>1 DEF Entering, Loading, Verifying, Built, Failed
    <2> QED
      BY <2>2, <2>3 DEF Together
  <1>3. CASE RaiseTogether
    BY <1>1, <1>2, <1>3 DEF RaiseTogether, Capturing, Failed, Together
  <1>4. CASE Proceed([r \in Workers |-> "load"])
    <2>1. building' = [r \in Workers |-> "load"] /\ file' = [r \in Workers |-> 1]
      BY <1>4 DEF Proceed
    <2>2. \A r \in Workers : building'[r] = "load" /\ stage'[r] = "plan"
      BY <1>0, <1>2, <2>1 DEF Capturing
    <2>3. \A r \in Workers, f \in ModelFile : ~(f < file'[r])
      BY <2>1 DEF ModelFile
    <2>4. Planned'
      BY <1>0, <1>2, MeetingKnown DEF Capturing
    <2>5. Loading'
      BY <2>2, <2>3, <2>4 DEF Loading
    <2> QED
      BY <2>5 DEF Together
  <1> QED
    BY <1>0, <1>3, <1>4

LEMMA FinalizedStep ==
    ASSUME Sized, Shape, Together, Meeting, ConvergeStage("finalized", "done")
    PROVE  Together'
  <1>0. /\ In("finalized") /\ (\E r \in Workers : TRUE) /\ UNCHANGED <<plan, loaded>>
        /\ RaiseTogether \/ ((\A r \in Workers : ok[r]) /\ building' = [r \in Workers |-> "done"])
    BY MeetingMoves DEF ConvergeStage, RaiseTogether, Proceed, Sized
  <1>1. \A r \in Workers : building[r] = "finalized"
    BY <1>0 DEF In
  <1>2. Verifying
    <2>2. ASSUME NEW s \in Stages PROVE ~LeadersHash(s) /\ ~OthersHash(s) /\ ~Checking(s)
      BY <1>0, <1>1 DEF LeadersHash, OthersHash, Checking, Hashing
    <2>3. ~Entering /\ ~Capturing /\ ~Loading /\ ~Built /\ ~Failed
      BY <1>0, <1>1 DEF Entering, Capturing, Loading, Built, Failed
    <2> QED
      BY <2>2, <2>3 DEF Together
  <1>3. CASE RaiseTogether
    BY <1>1, <1>3 DEF RaiseTogether, Failed, Together
  <1>4. CASE (\A r \in Workers : ok[r]) /\ building' = [r \in Workers |-> "done"]
    <2>1. ASSUME NEW q \in Workers, NEW r \in Workers
          PROVE  loaded[q] = plan[r].digest
      <3>1. plan[q].digest = plan[r].digest
        BY <1>2 DEF Verifying, Planned
      <3>2. \A f \in ModelFile : loaded[q][f] = plan[q].digest[f]
        BY <1>1, <1>2, <1>4 DEF Verifying, Verified
      <3>3. /\ plan[q] \in [digest : [ModelFile -> Bytes0], stat : [ModelFile -> Nat]]
            /\ loaded[q] \in [ModelFile -> Bytes0]
        BY DEF Shape
      <3>4. plan[q].digest \in [ModelFile -> Bytes0]
        BY <3>3
      <3> QED
        BY <3>1, <3>2, <3>3, <3>4
    <2>2. Built'
      BY <1>0, <1>4, <2>1 DEF Built
    <2> QED
      BY <2>2 DEF Together
  <1> QED
    BY <1>0, <1>3, <1>4

-----------------------------------------------------------------------------
(***************************************************************************)
(* The invariant, and what it says.                                        *)
(***************************************************************************)
LEMMA ArtifactStart ==
    ASSUME Sized, ModelInit
    PROVE  ArtifactInv
  <1>1. 1 \in ModelFile
    BY DEF Sized, ModelFile
  <1>2. Blank \in [ModelFile -> Nat] /\ Blank \in [ModelFile -> Bytes0] /\ \A f \in ModelFile : Blank[f] = 0
    BY DEF Blank, Bytes0
  <1>3. plan \in [Workers -> [digest : [ModelFile -> Bytes0], stat : [ModelFile -> Nat]]]
    <2>1. [digest |-> Blank, stat |-> Blank] \in [digest : [ModelFile -> Bytes0], stat : [ModelFile -> Nat]]
      BY <1>2
    <2> QED
      BY <2>1 DEF ModelInit
  <1>4. artifact \in [Workers -> [ModelFile -> [content : Content, version : Nat]]]
    <2>1. [content : Content, version : {0}] \subseteq [content : Content, version : Nat]
      OBVIOUS
    <2>2. artifact \in [Workers -> [ModelFile -> [content : Content, version : {0}]]]
      BY DEF ModelInit
    <2>3. ASSUME NEW r \in Workers PROVE artifact[r] \in [ModelFile -> [content : Content, version : Nat]]
      BY <2>1, <2>2
    <2> QED
      BY <2>2, <2>3
  <1>5. Shape
    BY <1>1, <1>2, <1>3, <1>4 DEF ModelInit, Grouped, Shape, Gathers
  <1>6. Past
    <2>1. ASSUME NEW r \in Workers, NEW f \in ModelFile
          PROVE  stat[r][f] <= Version(r, f) /\ plan[r].stat[f] <= Version(r, f)
      <3>1. stat[r] = Blank /\ plan[r] = [digest |-> Blank, stat |-> Blank]
        BY DEF ModelInit
      <3>2. stat[r][f] = 0 /\ plan[r].stat[f] = 0
        BY <1>2, <3>1
      <3> QED
        BY <1>5, <3>2, Numbers DEF Version
    <2> QED
      BY <2>1 DEF Past
  <1>7. Entering
    BY DEF ModelInit, Entering
  <1> QED
    BY <1>5, <1>6, <1>7 DEF ArtifactInv, Together

LEMMA ArtifactKept ==
    ASSUME Sized, ArtifactInv, [ModelNext]_modelVars
    PROVE  ArtifactInv'
  <1>0. Shape /\ Past /\ Together
    BY DEF ArtifactInv
  <1>1. Shape' /\ Past'
    BY <1>0, ShapeKept, PastKept
  <1>2. CASE \E r \in Workers : BuildStep(r)
    BY <1>0, <1>1, <1>2, RankStepKeepsTogether DEF ArtifactInv
  <1>3. CASE Meeting
    BY <1>0, <1>1, <1>3, EnterStep, FirstStep, SecondStep, ThirdStep, PreparedStep, FinalizedStep
       DEF ArtifactInv, Meeting
  <1>4. CASE Rewriting
    BY <1>0, <1>1, <1>4, RewritingKeepsTogether DEF ArtifactInv
  <1>5. CASE UNCHANGED modelVars
    <2>1. UNCHANGED <<leader, mount, artifact, silent, building, file, stage, own, ok, stat, digest, plan, loaded>>
      BY <1>5 DEF modelVars, topology, files
    <2>2. Leaders' = Leaders /\ \A p \in Workers : ReadFiles(p)' = ReadFiles(p)
      BY <2>1 DEF Leaders, ReadFiles
    <2>3. /\ Planned' <=> Planned
          /\ \A r \in Workers, f \in ModelFile : (AsLoaded(r, f)' <=> AsLoaded(r, f)) /\ (Verified(r, f)' <=> Verified(r, f))
          /\ \A r \in Workers, f \in ModelFile : Version(r, f)' = Version(r, f)
      BY <2>1 DEF Planned, Seen, AsLoaded, Verified, Version, Bytes
    <2>4. /\ \A s \in Stages : InStage(s)' <=> InStage(s)
          /\ LeadersAgree' <=> LeadersAgree
          /\ \A r \in Workers, f \in ModelFile :
                (Read1(r, f)' <=> Read1(r, f)) /\ (Serves(leader[r], r, f)' <=> Serves(leader[r], r, f))
      BY <2>1, <2>2, <2>3 DEF InStage, LeadersAgree, Read1, Serves, Seen, Tells
    <2>5. \A s \in Stages : LeadersHash(s) => LeadersHash(s)'
      BY <2>1, <2>2, <2>4 DEF LeadersHash, ReadFiles, Leaders
    <2>6. \A s \in Stages : OthersHash(s) => OthersHash(s)'
      BY <2>1, <2>2, <2>4 DEF OthersHash, ReadFiles
    <2>7. \A s \in Stages : Checking(s) => Checking(s)'
      BY <2>1, <2>4 DEF Checking
    <2>8. (Capturing => Capturing') /\ (Loading => Loading') /\ (Verifying => Verifying')
      BY <2>1, <2>3 DEF Capturing, Loading, Verifying
    <2>9. (Entering => Entering') /\ (Built => Built') /\ (Failed => Failed')
      BY <2>1 DEF Entering, Built, Failed
    <2>10. Together'
      BY <1>0, <2>5, <2>6, <2>7, <2>8, <2>9 DEF Together
    <2> QED
      BY <1>1, <2>10 DEF ArtifactInv
  <1> QED
    BY <1>2, <1>3, <1>4, <1>5 DEF ModelNext, Rewriting

LEMMA InvSays ==
    ASSUME ArtifactInv
    PROVE  BuiltFromIdentified /\ NoneStranded
  <1>1. ASSUME NEW r \in Workers, building[r] = "done"
        PROVE  Built
    <2>1. ASSUME NEW s \in Stages PROVE ~LeadersHash(s) /\ ~OthersHash(s) /\ ~Checking(s)
      BY <1>1 DEF LeadersHash, OthersHash, Checking, Hashing
    <2>2. ~Entering /\ ~Capturing /\ ~Loading /\ ~Verifying /\ ~Failed
      BY <1>1 DEF Entering, Capturing, Loading, Verifying, Failed
    <2> QED
      BY <2>1, <2>2 DEF ArtifactInv, Together
  <1>2. BuiltFromIdentified
    BY <1>1 DEF BuiltFromIdentified, Built
  <1>3. ASSUME NEW q \in Workers, NEW r \in Workers, building[q] \in Gathers, \A p \in Workers : building[p] # "dead"
        PROVE  building[r] \notin {"failed", "done"} /\ (building[r] \in Gathers => building[r] = building[q])
    <2>1. CASE Entering
      BY <1>3, <2>1 DEF Entering
    <2>2. ASSUME NEW s \in Stages, LeadersHash(s) \/ OthersHash(s) \/ Checking(s)
          PROVE  building[r] \notin {"failed", "done"} /\ (building[r] \in Gathers => building[r] = building[q])
      BY <1>3, <2>2 DEF LeadersHash, OthersHash, Checking, Hashing, Gathers
    <2>3. CASE Capturing
      BY <1>3, <2>3 DEF Capturing, Gathers
    <2>4. CASE Loading
      BY <1>3, <2>4 DEF Loading, Gathers
    <2>5. CASE Verifying
      BY <1>3, <2>5 DEF Verifying, Gathers
    <2>6. CASE Built \/ Failed
      BY <1>3, <2>6 DEF Built, Failed, Gathers
    <2> QED
      BY <2>1, <2>2, <2>3, <2>4, <2>5, <2>6 DEF ArtifactInv, Together
  <1> QED
    BY <1>2, <1>3 DEF NoneStranded

\* The bytes that every rank loaded, from whichever copy, are those of the identity its plan
\* recorded, when the build succeeds: digests are taken on the first rank of a node before the
\* load and after it, and all ranks compare stat entries around both (artifact_identity.py,
\* _distributed_complete_local_identity and the load guard), so a rewrite in between, even one
\* that keeps size and times, is found out, unless it is undone the same way.
THEOREM BuildIsIdentified ==
    ASSUME NumFiles \in Nat \ {0}, Workers # {}
    PROVE  ModelSpec => []BuiltFromIdentified
  <1>0. Sized
    BY DEF Sized
  <1>1. ModelInit => ArtifactInv
    BY <1>0, ArtifactStart
  <1>2. ArtifactInv /\ [ModelNext]_modelVars => ArtifactInv'
    BY <1>0, ArtifactKept
  <1>3. ArtifactInv => BuiltFromIdentified
    BY InvSays
  <1> QED
    BY <1>1, <1>2, <1>3, PTL DEF ModelSpec

\* A rank that raises by itself says so in the gather its peers are on the way to, so while no
\* loader died no rank waits in a gather that another left, raised out of, or will not reach:
\* those in gathers are in the same one, and no one has failed or is done.
THEOREM NobodyStranded ==
    ASSUME NumFiles \in Nat \ {0}, Workers # {}
    PROVE  ModelSpec => []NoneStranded
  <1>0. Sized
    BY DEF Sized
  <1>1. ModelInit => ArtifactInv
    BY <1>0, ArtifactStart
  <1>2. ArtifactInv /\ [ModelNext]_modelVars => ArtifactInv'
    BY <1>0, ArtifactKept
  <1>3. ArtifactInv => NoneStranded
    BY InvSays
  <1> QED
    BY <1>1, <1>2, <1>3, PTL DEF ModelSpec

-----------------------------------------------------------------------------
(***************************************************************************)
(* Planned batches (PlannedSampler), for every world size, accumulation,   *)
(* number of steps and depth of the loader.                                *)
(***************************************************************************)
\* A sequence of microsteps without gap or repetition.
Consecutive(seq, first) == \A n \in 1 .. Len(seq) : seq[n].microstep = first + n - 1

\* What lies before a microstep was planned from the shared view.
SharedBefore(seq, end) ==
    \A n \in 1 .. Len(seq) : seq[n].microstep < end => seq[n].view = Shared

\* What the model has seen, what the loader holds and what waits in the frame are
\* one stream, up to the end of the last frame; the preflight plan is its next one.
StreamInOrder(r) ==
    /\ Consecutive(weights[r], 0)
    /\ Consecutive(queue[r], Len(weights[r]))
    /\ Consecutive(frame[r], Len(weights[r]) + Len(queue[r]))
    /\ Framed(r) = Len(weights[r]) + Len(queue[r]) + Len(frame[r])
    /\ \E j \in 0 .. MaxSteps : Framed(r) = j * GA
    /\ preflight[r] => frame[r] = <<>> /\ initial.microstep = Framed(r)

\* The model is past the last optimizer step, and at it until it goes on.
CursorInStep(r) ==
    /\ step * GA <= Len(weights[r])
    /\ phase[r] # "training" => Len(weights[r]) = step * GA
    /\ committed[r].microstep <= step * GA

\* There is a snapshot for every frame from the committed one to the last one.
SnapshotsCover(r) ==
    /\ \A s \in snapshots[r] : s.microstep <= Framed(r)
    /\ \A j \in 0 .. MaxSteps :
          committed[r].microstep <= j * GA /\ j * GA <= Framed(r) =>
              \E s \in snapshots[r] : s.microstep = j * GA

\* A rank that drifts does not come back: a state that has the shared view has only
\* shared plans before it.
ViewsKept(r) ==
    /\ \A s \in snapshots[r] \cup {planner[r]} :
          /\ s.view \in {Shared, r}
          /\ s.view = Shared => /\ SharedBefore(weights[r], s.microstep)
                                /\ SharedBefore(queue[r], s.microstep)
                                /\ SharedBefore(frame[r], s.microstep)
    /\ ~ Sharded => planner[r].view = Shared /\ \A s \in snapshots[r] : s.view = Shared

\* A committed rank has committed the end of the step, and only shared plans.
CommittedIsShared(r) ==
    phase[r] = "committed" =>
        /\ committed[r].microstep = step * GA
        /\ committed[r].view = Shared
        /\ SharedBefore(weights[r], step * GA)
        /\ \A o \in Ranks : applied[o]

\* A checkpoint holds a whole number of steps of the stream.
SavedInOrder ==
    /\ initial.view = Shared /\ saved.state.view = Shared
    /\ saved.state.microstep = saved.step * GA
    /\ \A r \in Ranks :
          /\ Len(saved.weights[r]) = saved.step * GA
          /\ Consecutive(saved.weights[r], 0)
          /\ SharedBefore(saved.weights[r], saved.step * GA)

\* A ddp rank applies its update when all do.
AppliedAlike == ~ Sharded => \A r, o \in Ranks : applied[r] = applied[o]

RankInv(r) ==
    /\ StreamInOrder(r) /\ CursorInStep(r) /\ SnapshotsCover(r)
    /\ ViewsKept(r) /\ CommittedIsShared(r)

\* The inductive invariant.
SamplerInv ==
    TypeOK /\ SavedInOrder /\ AppliedAlike /\ \A r \in Ranks : RankInv(r)

-----------------------------------------------------------------------------
USE GeometryAssumption, RunAssumption

\* Multiples of GA are apart by GA, and are ordered like their factors.
LEMMA Multiples ==
  ASSUME NEW i \in Nat, NEW j \in Nat
  PROVE  /\ i * GA \in Nat
         /\ (i + 1) * GA = i * GA + GA
         /\ i < j => i * GA + GA <= j * GA
         /\ i <= j <=> i * GA <= j * GA
<1>1. i * GA \in Nat /\ (i + 1) * GA = i * GA + GA BY SMT
<1>2. ASSUME NEW m \in Nat, NEW n \in Nat, m <= n PROVE m * GA <= n * GA
  BY <1>2, SMT
<1>3. i < j => i * GA + GA <= j * GA
  <2>1. i < j => (i + 1) * GA <= j * GA BY <1>2, i + 1 \in Nat
  <2> QED BY <2>1, <1>1
<1>4. j < i => j * GA + GA <= i * GA
  <2>1. j < i => (j + 1) * GA <= i * GA BY <1>2, j + 1 \in Nat
  <2>2. (j + 1) * GA = j * GA + GA BY SMT
  <2> QED BY <2>1, <2>2
<1>5. j * GA \in Nat BY SMT
<1> QED BY <1>1, <1>2, <1>3, <1>4, <1>5, SMT

LEMMA TotalIsMultiple == Total \in Nat /\ Total = MaxSteps * GA
  BY Multiples DEF Total

LEMMA SharedIsNoRank == Shared \in Views /\ Ranks \subseteq Views /\ Shared \notin Ranks
  BY SMT DEF Shared, Views, Ranks

\* There are finitely many planning states.
LEMMA StateIsFinite == IsFiniteSet(State)
<1>1. IsFiniteSet(0 .. Total + 1) BY TotalIsMultiple, FS_Interval
<1>2. IsFiniteSet(Views)
  <2>1. IsFiniteSet(Ranks) BY FS_Interval, World - 1 \in Int DEF Ranks
  <2> QED BY <2>1, FS_AddElement DEF Views
<1> DEFINE pairs == (0 .. Total + 1) \X Views
           fields == [s \in State |-> <<s.microstep, s.view>>]
<1>3. IsFiniteSet(pairs) BY <1>1, <1>2, FS_Product
<1>4. fields \in Injection(State, pairs)
  <2>1. fields \in [State -> pairs] BY DEF State
  <2>2. ASSUME NEW s \in State, NEW t \in State, fields[s] = fields[t] PROVE s = t
    <3>1. s.microstep = t.microstep /\ s.view = t.view BY <2>2
    <3> QED BY <3>1 DEF State
  <2> QED BY <2>1, <2>2 DEF Injection, IsInjective
<1> QED BY <1>3, <1>4, FS_Injection

\* What Append and Tail do to a sequence, element by element.
LEMMA AppendElements ==
  ASSUME NEW S, NEW seq \in Seq(S), NEW x \in S
  PROVE  /\ Append(seq, x) \in Seq(S) /\ Len(Append(seq, x)) = Len(seq) + 1
         /\ \A n \in 1 .. Len(seq) : Append(seq, x)[n] = seq[n]
         /\ Append(seq, x)[Len(seq) + 1] = x
  BY SMT

LEMMA TailElements ==
  ASSUME NEW S, NEW seq \in Seq(S), seq # <<>>
  PROVE  /\ Tail(seq) \in Seq(S) /\ Len(Tail(seq)) = Len(seq) - 1
         /\ Len(seq) \in Nat \ {0} /\ Head(seq) \in S /\ Head(seq) = seq[1]
         /\ \A n \in 1 .. Len(seq) - 1 : Tail(seq)[n] = seq[n + 1]
  BY SMT

\* Handing the first element of a sequence on keeps the order of both ...
LEMMA HandOnConsecutive ==
  ASSUME NEW left \in Seq(State), NEW right \in Seq(State), right # <<>>, NEW from \in Nat,
         Consecutive(left, from), Consecutive(right, from + Len(left))
  PROVE  /\ Consecutive(Append(left, Head(right)), from)
         /\ Consecutive(Tail(right), from + Len(Append(left, Head(right))))
<1> DEFINE left2 == Append(left, Head(right))
           right2 == Tail(right)
<1>1. /\ Len(right2) = Len(right) - 1 /\ Len(right) \in Nat \ {0}
      /\ Head(right) \in State /\ Head(right) = right[1]
      /\ \A n \in 1 .. Len(right) - 1 : right2[n] = right[n + 1]
  BY TailElements
<1>2. /\ Len(left2) = Len(left) + 1 /\ Len(left) \in Nat
      /\ \A n \in 1 .. Len(left) : left2[n] = left[n]
      /\ left2[Len(left) + 1] = right[1]
  BY <1>1, AppendElements
<1> HIDE DEF left2, right2
<1>3. Consecutive(left2, from)
  <2>1. ASSUME NEW n \in 1 .. Len(left) PROVE left2[n].microstep = from + n - 1
    BY <1>2 DEF Consecutive
  <2>2. right[1].microstep = from + (Len(left) + 1) - 1
    <3>1. right[1].microstep = from + Len(left) + 1 - 1
      <4>1. 1 \in 1 .. Len(right) BY <1>1
      <4> QED BY <4>1, Zenon DEF Consecutive
    <3> QED BY <3>1, <1>2, SMT
  <2>3. 1 .. Len(left2) = (1 .. Len(left)) \cup {Len(left) + 1} BY <1>2, SMT
  <2> QED BY <2>1, <2>2, <2>3, <1>2, Zenon DEF Consecutive
<1>4. Consecutive(right2, from + Len(left2)) BY <1>1, <1>2, SMT DEF Consecutive
<1> QED BY <1>3, <1>4 DEF left2, right2

\* ... and what both have of the shared view.
LEMMA HandOnShared ==
  ASSUME NEW left \in Seq(State), NEW right \in Seq(State), right # <<>>, NEW end,
         SharedBefore(left, end), SharedBefore(right, end)
  PROVE  SharedBefore(Append(left, Head(right)), end) /\ SharedBefore(Tail(right), end)
<1> DEFINE left2 == Append(left, Head(right))
           right2 == Tail(right)
<1>1. /\ Len(right2) = Len(right) - 1 /\ Len(right) \in Nat \ {0}
      /\ Head(right) \in State /\ Head(right) = right[1]
      /\ \A n \in 1 .. Len(right) - 1 : right2[n] = right[n + 1]
  BY TailElements
<1>2. /\ Len(left2) = Len(left) + 1 /\ Len(left) \in Nat
      /\ \A n \in 1 .. Len(left) : left2[n] = left[n]
      /\ left2[Len(left) + 1] = right[1]
  BY <1>1, AppendElements
<1> HIDE DEF left2, right2
<1>3. SharedBefore(left2, end) BY <1>1, <1>2, SMT DEF SharedBefore
<1>4. SharedBefore(right2, end) BY <1>1, <1>2, SMT DEF SharedBefore
<1> QED BY <1>3, <1>4 DEF left2, right2

-----------------------------------------------------------------------------
\* A rank whose own state does not change keeps its part of the invariant.
LEMMA Undisturbed ==
  ASSUME NEW r \in Ranks, RankInv(r), UNCHANGED <<step, initial, applied>>,
         weights'[r] = weights[r], queue'[r] = queue[r], frame'[r] = frame[r],
         planner'[r] = planner[r], preflight'[r] = preflight[r],
         snapshots'[r] = snapshots[r], committed'[r] = committed[r], phase'[r] = phase[r]
  PROVE  RankInv(r)'
  BY Zenon DEF RankInv, StreamInOrder, CursorInStep, SnapshotsCover, ViewsKept,
               CommittedIsShared, Framed

\* The invariant, unfolded for one rank.
LEMMA InvOfRank ==
  ASSUME SamplerInv, NEW r \in Ranks
  PROVE  /\ TypeOK /\ SavedInOrder /\ AppliedAlike /\ RankInv(r)
         /\ StreamInOrder(r) /\ CursorInStep(r) /\ SnapshotsCover(r)
         /\ ViewsKept(r) /\ CommittedIsShared(r)
  BY DEF SamplerInv, RankInv

LEMMA LengthTypes ==
  ASSUME TypeOK, NEW r \in Ranks
  PROVE  /\ Len(weights[r]) \in Nat /\ Len(queue[r]) \in Nat /\ Len(frame[r]) \in Nat
         /\ weights[r] \in Seq(State) /\ queue[r] \in Seq(State) /\ frame[r] \in Seq(State)
<1>1. weights[r] \in Seq(State) /\ queue[r] \in Seq(State) /\ frame[r] \in Seq(State)
  BY DEF TypeOK
<1> QED BY <1>1, SMT

\* The handing on of a microbatch from the frame to the loader.
LEMMA YieldKeepsInv ==
  ASSUME SamplerInv, NEW r \in Ranks, Yield(r)
  PROVE  SamplerInv'
<1>0. /\ TypeOK /\ SavedInOrder /\ AppliedAlike
      /\ StreamInOrder(r) /\ CursorInStep(r) /\ SnapshotsCover(r)
      /\ ViewsKept(r) /\ CommittedIsShared(r)
  BY InvOfRank
<1>1. /\ frame[r] # <<>>
      /\ queue' = [queue EXCEPT ![r] = Append(queue[r], Head(frame[r]))]
      /\ frame' = [frame EXCEPT ![r] = Tail(frame[r])]
      /\ UNCHANGED <<run, mode, initial, planner, preflight, snapshots, committed,
                     phase, applied, step, weights, saved>>
  BY DEF Yield
<1>2. /\ queue'[r] = Append(queue[r], Head(frame[r])) /\ frame'[r] = Tail(frame[r])
      /\ \A q \in Ranks \ {r} : queue'[q] = queue[q] /\ frame'[q] = frame[q]
  BY <1>0, <1>1 DEF TypeOK
<1>3. /\ queue[r] \in Seq(State) /\ frame[r] \in Seq(State)
      /\ Len(weights[r]) \in Nat /\ Len(queue[r]) \in Nat /\ Len(frame[r]) \in Nat
  BY <1>0, LengthTypes
<1>4. /\ queue'[r] \in Seq(State) /\ Len(queue'[r]) = Len(queue[r]) + 1
      /\ frame'[r] \in Seq(State) /\ Len(frame'[r]) = Len(frame[r]) - 1
  <2>1. Head(frame[r]) \in State BY <1>1, <1>3, TailElements
  <2>2. /\ Append(queue[r], Head(frame[r])) \in Seq(State)
        /\ Len(Append(queue[r], Head(frame[r]))) = Len(queue[r]) + 1
    BY <1>3, <2>1, AppendElements
  <2>3. Tail(frame[r]) \in Seq(State) /\ Len(Tail(frame[r])) = Len(frame[r]) - 1
    BY <1>1, <1>3, TailElements
  <2> QED BY <1>2, <2>2, <2>3, Zenon
<1>5. TypeOK'
  <2>1. queue' \in [Ranks -> Seq(State)] /\ frame' \in [Ranks -> Seq(State)]
    BY <1>0, <1>1, <1>2, <1>4 DEF TypeOK
  <2> QED BY <1>0, <1>1, <2>1 DEF TypeOK
<1>6. SavedInOrder' /\ AppliedAlike'
  BY <1>0, <1>1 DEF SavedInOrder, AppliedAlike
<1>7. ASSUME NEW q \in Ranks \ {r} PROVE RankInv(q)'
  BY <1>1, <1>2, InvOfRank, Undisturbed
<1>8. StreamInOrder(r)'
  <2>1. /\ Consecutive(queue'[r], Len(weights[r]))
        /\ Consecutive(frame'[r], Len(weights[r]) + Len(queue'[r]))
    BY <1>0, <1>1, <1>2, <1>3, HandOnConsecutive, ZenonT(30) DEF StreamInOrder
  <2>2. Framed(r)' = Framed(r) BY <1>1 DEF Framed
  <2>3. Len(weights[r]) + Len(queue'[r]) + Len(frame'[r])
           = Len(weights[r]) + Len(queue[r]) + Len(frame[r])
    <3>1. /\ Len(weights[r]) \in Nat /\ Len(queue[r]) \in Nat /\ Len(frame[r]) \in Nat
          /\ Len(queue'[r]) = Len(queue[r]) + 1 /\ Len(frame'[r]) = Len(frame[r]) - 1
      BY <1>3, <1>4
    <3> DEFINE w == Len(weights[r])
               q == Len(queue[r])
               f == Len(frame[r])
               q2 == Len(queue'[r])
               f2 == Len(frame'[r])
    <3>2. w \in Nat /\ q \in Nat /\ f \in Nat /\ q2 = q + 1 /\ f2 = f - 1 BY <3>1
    <3> HIDE DEF w, q, f, q2, f2
    <3>3. w + q2 + f2 = w + q + f BY <3>2, SMT
    <3> QED BY <3>3 DEF w, q, f, q2, f2
  <2>4. ~ preflight[r] BY <1>0, <1>1 DEF StreamInOrder
  <2> QED BY <1>0, <1>1, <2>1, <2>2, <2>3, <2>4, Zenon DEF StreamInOrder
<1>9. CursorInStep(r)' /\ SnapshotsCover(r)' /\ CommittedIsShared(r)'
  BY <1>0, <1>1, Zenon DEF CursorInStep, SnapshotsCover, CommittedIsShared, Framed
<1>10. ViewsKept(r)'
  <2>1. ASSUME NEW end, SharedBefore(queue[r], end), SharedBefore(frame[r], end)
        PROVE  SharedBefore(queue'[r], end) /\ SharedBefore(frame'[r], end)
    BY <1>1, <1>2, <1>3, <2>1, HandOnShared, Zenon
  <2> QED BY <1>0, <1>1, <2>1, Zenon DEF ViewsKept
<1> QED BY <1>5, <1>6, <1>7, <1>8, <1>9, <1>10 DEF SamplerInv, RankInv

\* The handing on of a microbatch from the loader to the model.
LEMMA BackwardKeepsInv ==
  ASSUME SamplerInv, NEW r \in Ranks, Backward(r)
  PROVE  SamplerInv'
<1>0. /\ TypeOK /\ SavedInOrder /\ AppliedAlike
      /\ StreamInOrder(r) /\ CursorInStep(r) /\ SnapshotsCover(r)
      /\ ViewsKept(r) /\ CommittedIsShared(r)
  BY InvOfRank
<1>1. /\ queue[r] # <<>> /\ phase[r] = "training"
      /\ weights' = [weights EXCEPT ![r] = Append(weights[r], Head(queue[r]))]
      /\ queue' = [queue EXCEPT ![r] = Tail(queue[r])]
      /\ UNCHANGED <<run, mode, initial, planner, preflight, frame, snapshots, committed,
                     phase, applied, step, saved>>
  BY DEF Backward
<1>2. /\ weights'[r] = Append(weights[r], Head(queue[r])) /\ queue'[r] = Tail(queue[r])
      /\ \A q \in Ranks \ {r} : queue'[q] = queue[q] /\ weights'[q] = weights[q]
  BY <1>0, <1>1 DEF TypeOK
<1>3. /\ queue[r] \in Seq(State) /\ weights[r] \in Seq(State)
      /\ Len(weights[r]) \in Nat /\ Len(queue[r]) \in Nat /\ Len(frame[r]) \in Nat
  BY <1>0, LengthTypes
<1>4. /\ weights'[r] \in Seq(State) /\ Len(weights'[r]) = Len(weights[r]) + 1
      /\ queue'[r] \in Seq(State) /\ Len(queue'[r]) = Len(queue[r]) - 1
  <2>1. Head(queue[r]) \in State BY <1>1, <1>3, TailElements
  <2>2. /\ Append(weights[r], Head(queue[r])) \in Seq(State)
        /\ Len(Append(weights[r], Head(queue[r]))) = Len(weights[r]) + 1
    BY <1>3, <2>1, AppendElements
  <2>3. Tail(queue[r]) \in Seq(State) /\ Len(Tail(queue[r])) = Len(queue[r]) - 1
    BY <1>1, <1>3, TailElements
  <2> QED BY <1>2, <2>2, <2>3, Zenon
<1>5. TypeOK'
  <2>1. queue' \in [Ranks -> Seq(State)] /\ weights' \in [Ranks -> Seq(State)]
    BY <1>0, <1>1, <1>2, <1>4 DEF TypeOK
  <2> QED BY <1>0, <1>1, <2>1 DEF TypeOK
<1>6. SavedInOrder' /\ AppliedAlike'
  BY <1>0, <1>1 DEF SavedInOrder, AppliedAlike
<1>7. ASSUME NEW q \in Ranks \ {r} PROVE RankInv(q)'
  BY <1>1, <1>2, InvOfRank, Undisturbed
<1>8. StreamInOrder(r)'
  <2>1. /\ Consecutive(weights'[r], 0)
        /\ Consecutive(queue'[r], 0 + Len(weights'[r]))
    <3>1. 0 + Len(weights[r]) = Len(weights[r])
      <4>1. \A m \in Nat : 0 + m = m BY SMT
      <4> QED BY <1>3, <4>1, Zenon
    <3>2. Consecutive(weights[r], 0) /\ Consecutive(queue[r], 0 + Len(weights[r]))
      BY <1>0, <3>1, Zenon DEF StreamInOrder
    <3> QED BY <1>1, <1>2, <1>3, <3>2, 0 \in Nat, HandOnConsecutive, Zenon
  <2>2. /\ 0 + Len(weights'[r]) = Len(weights'[r])
        /\ Len(weights'[r]) + Len(queue'[r]) = Len(weights[r]) + Len(queue[r])
    <3> DEFINE seen == Len(weights[r])
               held == Len(queue[r])
               seen2 == Len(weights'[r])
               held2 == Len(queue'[r])
    <3>1. seen \in Nat /\ held \in Nat /\ seen2 = seen + 1 /\ held2 = held - 1
      BY <1>3, <1>4, Zenon
    <3> HIDE DEF seen, held, seen2, held2
    <3>2. 0 + seen2 = seen2 /\ seen2 + held2 = seen + held BY <3>1
    <3> QED BY <3>2, Zenon DEF seen, held, seen2, held2
  <2>3. Framed(r)' = Framed(r) BY <1>1 DEF Framed
  <2> QED BY <1>0, <1>1, <2>1, <2>2, <2>3, Zenon DEF StreamInOrder
<1>9. CursorInStep(r)'
  <2>1. step * GA <= Len(weights[r]) /\ step * GA \in Nat
    BY <1>0, Multiples DEF CursorInStep, TypeOK
  <2>2. step * GA <= Len(weights'[r]) BY <2>1, <1>3, <1>4
  <2> QED BY <1>0, <1>1, <2>2, Zenon DEF CursorInStep
<1>10. SnapshotsCover(r)' /\ CommittedIsShared(r)'
  BY <1>0, <1>1, Zenon DEF SnapshotsCover, CommittedIsShared, Framed
<1>11. ViewsKept(r)'
  <2>1. ASSUME NEW end, SharedBefore(weights[r], end), SharedBefore(queue[r], end)
        PROVE  SharedBefore(weights'[r], end) /\ SharedBefore(queue'[r], end)
    BY <1>1, <1>2, <1>3, <2>1, HandOnShared, Zenon
  <2> QED BY <1>0, <1>1, <2>1, Zenon DEF ViewsKept
<1> QED BY <1>5, <1>6, <1>7, <1>8, <1>9, <1>10, <1>11 DEF SamplerInv, RankInv

-----------------------------------------------------------------------------
\* What the frame holds once planned: the next GA microsteps, all of the planner's
\* view but for a preflight plan.
LEMMA FrameElements ==
  ASSUME SamplerInv, NEW r \in Ranks, frame[r] = <<>>
  PROVE  /\ Len(FrameOf(r)) = GA
         /\ Consecutive(FrameOf(r), Framed(r))
         /\ \A n \in 1 .. GA : FrameOf(r)[n] \in {initial}
                 \cup [microstep : {Framed(r) + n - 1}, view : {planner[r].view}]
         /\ Framed(r) \in Nat
         /\ FrameOf(r) \in Seq({initial} \cup [microstep : Int, view : {planner[r].view}])
<1> DEFINE Plans == {initial} \cup [microstep : Int, view : {planner[r].view}]
<1>0. TypeOK /\ StreamInOrder(r) BY InvOfRank
<1>1. Framed(r) \in Nat /\ planner[r].microstep \in Nat
  <2>1. PICK j \in 0 .. MaxSteps : Framed(r) = j * GA BY <1>0 DEF StreamInOrder
  <2> QED BY <1>0, <2>1, Multiples DEF TypeOK, State
<1>2. CASE preflight[r]
  <2> DEFINE rest == [n \in 1 .. GA - 1 |->
                        [microstep |-> planner[r].microstep + n - 1, view |-> planner[r].view]]
  <2>1. FrameOf(r) = <<initial>> \o rest BY <1>2, Len(<<initial>>) = 1 DEF FrameOf
  <2>2. rest \in Seq(Plans) /\ Len(rest) = GA - 1
    BY <1>1, SMT
  <2>3. /\ Len(FrameOf(r)) = GA /\ FrameOf(r)[1] = initial
        /\ \A n \in 2 .. GA : FrameOf(r)[n] = rest[n - 1]
    BY <2>1, <2>2, SMT
  <2>9. FrameOf(r) \in Seq(Plans)
    <3> HIDE DEF rest
    <3>1. <<initial>> \in Seq(Plans) BY SMT
    <3> QED BY <2>1, <2>2, <3>1, SMT
  <2>4. Framed(r) = planner[r].microstep - 1 /\ initial.microstep = Framed(r)
    BY <1>0, <1>2 DEF Framed, StreamInOrder
  <2>5. \A n \in 2 .. GA : FrameOf(r)[n] = [microstep |-> Framed(r) + n - 1,
                                            view |-> planner[r].view]
    BY <2>3, <2>4, <1>1, SMT
  <2>6. \A n \in 1 .. GA : n = 1 \/ n \in 2 .. GA BY SMT
  <2>7. ASSUME NEW n \in 1 .. GA PROVE FrameOf(r)[n].microstep = Framed(r) + n - 1
    <3>1. CASE n = 1
      <4>1. Framed(r) + 1 - 1 = Framed(r) BY <1>1, SMT
      <4> QED BY <3>1, <4>1, <2>3, <2>4, Zenon
    <3>2. CASE n \in 2 .. GA
      <4>1. FrameOf(r)[n] = [microstep |-> Framed(r) + n - 1, view |-> planner[r].view]
        BY <3>2, <2>5, Zenon
      <4>2. Framed(r) + n - 1 \in Int BY <1>1, SMT
      <4> QED BY <4>1, <4>2
    <3> QED BY <3>1, <3>2, <2>6, Zenon
  <2>8. ASSUME NEW n \in 1 .. GA
        PROVE  FrameOf(r)[n] \in {initial}
                 \cup [microstep : {Framed(r) + n - 1}, view : {planner[r].view}]
    <3>1. CASE n = 1 BY <3>1, <2>3
    <3>2. CASE n \in 2 .. GA
      <4>1. Framed(r) + n - 1 \in Int BY <1>1, SMT
      <4>2. FrameOf(r)[n] = [microstep |-> Framed(r) + n - 1, view |-> planner[r].view]
        BY <3>2, <2>5, Zenon
      <4> QED BY <4>1, <4>2
    <3> QED BY <3>1, <3>2, <2>6, Zenon
  <2> QED BY <1>1, <2>3, <2>7, <2>8, <2>9, Zenon DEF Consecutive
<1>3. CASE ~ preflight[r]
  <2> DEFINE rest == [n \in 1 .. GA |->
                        [microstep |-> planner[r].microstep + n - 1, view |-> planner[r].view]]
  <2>1. FrameOf(r) = <<>> \o rest BY <1>3, Len(<<>>) = 0, GA - 0 = GA DEF FrameOf
  <2>2. rest \in Seq(Plans) /\ Len(rest) = GA
    BY <1>1, SMT
  <2>3. FrameOf(r) = rest BY <2>1, <2>2, SMT
  <2>4. Framed(r) = planner[r].microstep BY <1>1, <1>3 DEF Framed
  <2> QED BY <1>1, <2>2, <2>3, <2>4, SMT DEF Consecutive
<1> QED BY <1>2, <1>3 DEF TypeOK

\* The planning of a frame.
LEMMA PlanFrameKeepsInv ==
  ASSUME SamplerInv, NEW r \in Ranks, PlanFrame(r)
  PROVE  SamplerInv'
<1>0. /\ TypeOK /\ SavedInOrder /\ AppliedAlike
      /\ StreamInOrder(r) /\ CursorInStep(r) /\ SnapshotsCover(r)
      /\ ViewsKept(r) /\ CommittedIsShared(r)
  BY InvOfRank
<1> DEFINE end == [planner[r] EXCEPT !.microstep = Framed(r) + GA]
<1>1. /\ frame[r] = <<>> /\ Framed(r) < Total
      /\ frame' = [frame EXCEPT ![r] = FrameOf(r)]
      /\ preflight' = [preflight EXCEPT ![r] = FALSE]
      /\ planner' = [planner EXCEPT ![r] = end]
      /\ snapshots' = [snapshots EXCEPT ![r] =
                          {s \in snapshots[r] : s.microstep # end.microstep} \cup {end}]
      /\ UNCHANGED <<run, mode, initial, queue, committed, phase, applied, step, weights, saved>>
  BY DEF PlanFrame
<1>2. /\ frame'[r] = FrameOf(r) /\ preflight'[r] = FALSE /\ planner'[r] = end
      /\ snapshots'[r] = {s \in snapshots[r] : s.microstep # end.microstep} \cup {end}
      /\ \A q \in Ranks \ {r} : /\ frame'[q] = frame[q] /\ preflight'[q] = preflight[q]
                                /\ planner'[q] = planner[q] /\ snapshots'[q] = snapshots[q]
  BY <1>0, <1>1 DEF TypeOK
<1>3. /\ end.microstep = Framed(r) + GA /\ end.view = planner[r].view
      /\ end.view \in Views /\ planner[r].microstep \in Nat
  BY <1>0, SMTT(30) DEF TypeOK, State
<1>4. PICK j \in 0 .. MaxSteps : Framed(r) = j * GA
  BY <1>0 DEF StreamInOrder
<1>5. /\ j + 1 \in 0 .. MaxSteps /\ Framed(r) + GA = (j + 1) * GA
      /\ Framed(r) + GA <= Total /\ Framed(r) \in Nat
  <2>1. j < MaxSteps
    <3>1. MaxSteps <= j <=> MaxSteps * GA <= j * GA BY Multiples
    <3>2. j * GA \in Nat /\ MaxSteps * GA \in Nat BY Multiples
    <3> QED BY <1>1, <1>4, <3>1, <3>2, TotalIsMultiple, SMT
  <2> QED BY <1>4, <2>1, Multiples, TotalIsMultiple
<1>6. /\ Len(FrameOf(r)) = GA
      /\ Consecutive(FrameOf(r), Framed(r))
      /\ \A n \in 1 .. GA : FrameOf(r)[n] \in {initial}
              \cup [microstep : {Framed(r) + n - 1}, view : {planner[r].view}]
  BY <1>1, FrameElements
<1>7. end \in State
  <2>1. Framed(r) + GA \in 0 .. Total + 1 BY <1>5, TotalIsMultiple
  <2>2. planner[r] \in State BY <1>0 DEF TypeOK
  <2> QED BY <1>3, <2>1, <2>2 DEF State
<1>8. FrameOf(r) \in Seq(State)
  <2>1. ASSUME NEW n \in 1 .. GA PROVE FrameOf(r)[n] \in State
    <3>1. Framed(r) + n - 1 \in 0 .. Total + 1 BY <1>5, TotalIsMultiple
    <3> QED BY <1>0, <1>3, <1>6, <3>1 DEF TypeOK, State
  <2>2. FrameOf(r) \in Seq({initial} \cup [microstep : Int, view : {planner[r].view}])
    BY <1>1, FrameElements
  <2> QED BY <2>1, <2>2, <1>6
<1> HIDE DEF end
<1>9. TypeOK'
  <2>1. frame' \in [Ranks -> Seq(State)] BY <1>0, <1>1, <1>8 DEF TypeOK
  <2>2. planner' \in [Ranks -> State] BY <1>0, <1>1, <1>7 DEF TypeOK
  <2>3. preflight' \in [Ranks -> BOOLEAN] BY <1>0, <1>1 DEF TypeOK
  <2>4. snapshots' \in [Ranks -> SUBSET State] BY <1>0, <1>1, <1>7 DEF TypeOK
  <2> QED BY <1>0, <1>1, <2>1, <2>2, <2>3, <2>4 DEF TypeOK
<1>10. SavedInOrder' /\ AppliedAlike'
  BY <1>0, <1>1 DEF SavedInOrder, AppliedAlike
<1>11. ASSUME NEW q \in Ranks \ {r} PROVE RankInv(q)'
  BY <1>1, <1>2, InvOfRank, Undisturbed
<1>12. Framed(r)' = Framed(r) + GA
  BY <1>2, <1>3, <1>5 DEF Framed
<1>13. StreamInOrder(r)'
  <2>1. Len(frame[r]) = 0 /\ Len(weights[r]) \in Nat /\ Len(queue[r]) \in Nat
    BY <1>0, <1>1, LengthTypes
  <2>2. Framed(r) = Len(weights[r]) + Len(queue[r])
    <3>1. Framed(r) = Len(weights[r]) + Len(queue[r]) + Len(frame[r]) BY <1>0 DEF StreamInOrder
    <3>2. \A m, n \in Nat : m + n + 0 = m + n BY SMT
    <3> QED BY <2>1, <3>1, <3>2, Zenon
  <2>3. Framed(r)' = Len(weights[r]) + Len(queue[r]) + Len(frame'[r])
    BY <1>2, <1>6, <1>12, <2>2, Zenon
  <2>4. Consecutive(frame'[r], Len(weights[r]) + Len(queue[r]))
    BY <1>2, <1>6, <2>2, Zenon
  <2>5. \E i \in 0 .. MaxSteps : Framed(r)' = i * GA BY <1>5, <1>12
  <2> QED BY <1>0, <1>1, <1>2, <2>3, <2>4, <2>5, Zenon DEF StreamInOrder
<1>14. CursorInStep(r)' /\ CommittedIsShared(r)'
  BY <1>0, <1>1, Zenon DEF CursorInStep, CommittedIsShared
<1>15. SnapshotsCover(r)'
  <2>1. ASSUME NEW s \in snapshots'[r]
        PROVE  s.microstep <= Framed(r)'
    <3>1. Framed(r) \in Nat /\ Framed(r) + GA \in Nat /\ Framed(r) <= Framed(r) + GA
      BY <1>5, GeometryAssumption
    <3>2. s \in snapshots[r] \/ s = end BY <1>2
    <3>3. CASE s = end BY <1>3, <1>12, <3>1, <3>3
    <3>4. CASE s \in snapshots[r]
      <4>1. s.microstep <= Framed(r) BY <1>0, <3>4 DEF SnapshotsCover
      <4>2. snapshots[r] \in SUBSET State BY <1>0 DEF TypeOK
      <4>3. s.microstep \in Int BY <3>4, <4>2 DEF State
      <4> QED BY <1>12, <3>1, <4>1, <4>3
    <3> QED BY <3>2, <3>3, <3>4
  <2>2. ASSUME NEW i \in 0 .. MaxSteps, committed[r].microstep <= i * GA, i * GA <= Framed(r)'
        PROVE  \E s \in snapshots'[r] : s.microstep = i * GA
    <3>1. CASE i = j + 1 BY <1>2, <1>3, <1>5, <3>1
    <3>2. CASE i # j + 1
      <4>1. i <= j + 1 BY <1>5, <1>12, <2>2, Multiples
      <4>2. i <= j BY <3>2, <4>1, SMT
      <4>3. i * GA <= Framed(r) /\ i * GA # Framed(r) + GA
        <5>1. i * GA <= j * GA /\ i * GA \in Nat /\ j * GA \in Nat BY <4>2, Multiples
        <5> QED BY <5>1, <1>4, SMT
      <4>4. PICK s \in snapshots[r] : s.microstep = i * GA
        BY <1>0, <2>2, <4>3 DEF SnapshotsCover
      <4> QED BY <1>2, <1>3, <4>3, <4>4
    <3> QED BY <3>1, <3>2
  <2> QED BY <1>1, <2>1, <2>2 DEF SnapshotsCover
<1>16. ViewsKept(r)'
  <2>1. ASSUME NEW s \in snapshots'[r] \cup {planner'[r]}
        PROVE  /\ s.view \in {Shared, r}
               /\ s.view = Shared => /\ SharedBefore(weights[r], s.microstep)
                                     /\ SharedBefore(queue[r], s.microstep)
                                     /\ SharedBefore(frame'[r], s.microstep)
    <3>1. CASE s = end
      <4>1. s.view \in {Shared, r} BY <1>0, <1>3, <3>1 DEF ViewsKept
      <4>2. ASSUME s.view = Shared
            PROVE  /\ SharedBefore(weights[r], planner[r].microstep)
                   /\ SharedBefore(queue[r], planner[r].microstep)
        BY <1>0, <1>3, <3>1, <4>2 DEF ViewsKept
      <4>3. /\ \A n \in 1 .. Len(weights[r]) : weights[r][n].microstep < planner[r].microstep
            /\ \A n \in 1 .. Len(queue[r]) : queue[r][n].microstep < planner[r].microstep
        <5> DEFINE w == Len(weights[r])
                   q == Len(queue[r])
                   top == planner[r].microstep
        <5>1. Framed(r) <= top /\ top \in Nat BY <1>3 DEF Framed
        <5>2. w \in Nat /\ q \in Nat /\ Len(frame[r]) \in Nat BY <1>0, LengthTypes
        <5>3. Framed(r) = w + q + Len(frame[r]) BY <1>0 DEF StreamInOrder
        <5>4. /\ \A n \in 1 .. w : weights[r][n].microstep = 0 + n - 1
              /\ \A n \in 1 .. q : queue[r][n].microstep = w + n - 1
          BY <1>0 DEF StreamInOrder, Consecutive
        <5> DEFINE f == Len(frame[r])
                   all == Framed(r)
        <5>5. all <= top /\ f \in Nat /\ all = w + q + f BY <5>1, <5>2, <5>3
        <5> HIDE DEF w, q, f, top, all
        <5>6. /\ \A n \in 1 .. w : 0 + n - 1 < top
              /\ \A n \in 1 .. q : w + n - 1 < top
          BY <5>1, <5>2, <5>5, SMT
        <5>7. /\ \A n \in 1 .. w : weights[r][n].microstep < top
              /\ \A n \in 1 .. q : queue[r][n].microstep < top
          BY <5>4, <5>6, Zenon
        <5> QED BY <5>7 DEF w, q, top
      <4>4. ASSUME s.view = Shared
            PROVE  SharedBefore(weights[r], s.microstep) /\ SharedBefore(queue[r], s.microstep)
        BY <4>2, <4>3, <4>4, Zenon DEF SharedBefore
      <4>5. ASSUME s.view = Shared
            PROVE  SharedBefore(frame'[r], s.microstep)
        BY <1>0, <1>2, <1>3, <1>6, <3>1, <4>5 DEF SharedBefore, SavedInOrder
      <4> QED BY <4>1, <4>4, <4>5
    <3>2. CASE s \in snapshots[r]
      <4>1. s.microstep <= Framed(r) /\ s.microstep \in Nat
        BY <1>0, <3>2 DEF SnapshotsCover, TypeOK, State
      <4>2. SharedBefore(frame'[r], s.microstep)
        BY <1>2, <1>5, <1>6, <4>1 DEF SharedBefore, Consecutive
      <4> QED BY <1>0, <3>2, <4>2, Zenon DEF ViewsKept
    <3> QED BY <1>2, <2>1, <3>1, <3>2
  <2>2. ~ Sharded => planner'[r].view = Shared /\ \A s \in snapshots'[r] : s.view = Shared
    BY <1>0, <1>2, <1>3, Zenon DEF ViewsKept
  <2> QED BY <1>1, <2>1, <2>2, Zenon DEF ViewsKept
<1> QED BY <1>9, <1>10, <1>11, <1>13, <1>14, <1>15, <1>16 DEF SamplerInv, RankInv

\* A drifting planner has a view of its own, about which the invariant says nothing.
LEMMA DriftKeepsInv ==
  ASSUME SamplerInv, NEW r \in Ranks, Drift(r)
  PROVE  SamplerInv'
<1>0. /\ TypeOK /\ SavedInOrder /\ AppliedAlike
      /\ StreamInOrder(r) /\ CursorInStep(r) /\ SnapshotsCover(r)
      /\ ViewsKept(r) /\ CommittedIsShared(r)
  BY InvOfRank
<1>1. /\ Sharded /\ planner' = [planner EXCEPT ![r].view = r]
      /\ UNCHANGED <<run, mode, initial, preflight, frame, queue, snapshots, committed,
                     phase, applied, step, weights, saved>>
  BY DEF Drift
<1>2. /\ planner'[r] = [planner[r] EXCEPT !.view = r]
      /\ \A q \in Ranks \ {r} : planner'[q] = planner[q]
  BY <1>0, <1>1 DEF TypeOK
<1>3. /\ planner'[r] \in State /\ planner'[r].view = r
      /\ planner'[r].microstep = planner[r].microstep
  BY <1>0, <1>2, SharedIsNoRank DEF TypeOK, State
<1>4. TypeOK'
  <2>1. planner' \in [Ranks -> State] BY <1>0, <1>1, <1>2, <1>3 DEF TypeOK
  <2> QED BY <1>0, <1>1, <2>1 DEF TypeOK
<1>5. SavedInOrder' /\ AppliedAlike'
  BY <1>0, <1>1 DEF SavedInOrder, AppliedAlike
<1>6. ASSUME NEW q \in Ranks \ {r} PROVE RankInv(q)'
  BY <1>1, <1>2, InvOfRank, Undisturbed
<1>7. Framed(r)' = Framed(r) BY <1>1, <1>3, Zenon DEF Framed
<1>8. StreamInOrder(r)' /\ CursorInStep(r)' /\ SnapshotsCover(r)' /\ CommittedIsShared(r)'
  BY <1>0, <1>1, <1>7, Zenon
     DEF StreamInOrder, CursorInStep, SnapshotsCover, CommittedIsShared
<1>9. ViewsKept(r)'
  BY <1>0, <1>1, <1>3, SharedIsNoRank, Zenon DEF ViewsKept
<1> QED BY <1>4, <1>5, <1>6, <1>8, <1>9 DEF SamplerInv, RankInv

\* A commit of a snapshot of the finished step; in a sharded job the snapshots of all
\* ranks are one.
LEMMA CommitKeepsInv ==
  ASSUME SamplerInv, NEW r \in Ranks, Commit(r), UNCHANGED <<run, mode>>,
         phase[r] \in {"stepped", "gathered"},
         \A s \in AtStep(r) : s.view = Shared, \A o \in Ranks : applied[o]
  PROVE  SamplerInv'
<1>0. /\ TypeOK /\ SavedInOrder /\ AppliedAlike
      /\ StreamInOrder(r) /\ CursorInStep(r) /\ SnapshotsCover(r)
      /\ ViewsKept(r) /\ CommittedIsShared(r)
  BY InvOfRank
<1>1. PICK s \in AtStep(r) : committed' = [committed EXCEPT ![r] = s]
  BY DEF Commit
<1>2. /\ snapshots' = [snapshots EXCEPT ![r] = {t \in snapshots[r] : t.microstep >= step * GA}]
      /\ phase' = [phase EXCEPT ![r] = "committed"]
      /\ UNCHANGED <<run, mode, initial, planner, preflight, frame, queue,
                     applied, step, weights, saved>>
  BY DEF Commit
<1>3. /\ s \in snapshots[r] /\ s.microstep = step * GA /\ s.view = Shared /\ s \in State
  BY <1>0, <1>1 DEF AtStep, TypeOK
<1>4. /\ committed'[r] = s /\ phase'[r] = "committed"
      /\ snapshots'[r] = {t \in snapshots[r] : t.microstep >= step * GA}
      /\ \A q \in Ranks \ {r} : /\ committed'[q] = committed[q] /\ phase'[q] = phase[q]
                                /\ snapshots'[q] = snapshots[q]
  BY <1>0, <1>1, <1>2 DEF TypeOK
<1>5. TypeOK'
  <2>1. committed' \in [Ranks -> State] BY <1>0, <1>1, <1>3 DEF TypeOK
  <2>2. snapshots' \in [Ranks -> SUBSET State] BY <1>0, <1>2 DEF TypeOK
  <2>3. phase' \in [Ranks -> {"training", "stepped", "gathered", "committed"}]
    BY <1>0, <1>2 DEF TypeOK
  <2> QED BY <1>0, <1>2, <2>1, <2>2, <2>3 DEF TypeOK
<1>6. SavedInOrder' /\ AppliedAlike'
  BY <1>0, <1>2 DEF SavedInOrder, AppliedAlike
<1>7. ASSUME NEW q \in Ranks \ {r} PROVE RankInv(q)'
  BY <1>2, <1>4, InvOfRank, Undisturbed
<1>8. Framed(r)' = Framed(r) BY <1>2, Zenon DEF Framed
<1>9. StreamInOrder(r)'
  BY <1>0, <1>2, <1>8, Zenon DEF StreamInOrder
<1>10. step * GA \in Nat BY <1>0, Multiples DEF TypeOK
<1>11. CursorInStep(r)'
  <2>1. Len(weights[r]) = step * GA BY <1>0 DEF CursorInStep
  <2>2. committed'[r].microstep <= step * GA BY <1>3, <1>4, <1>10
  <2> QED BY <1>0, <1>2, <2>1, <2>2, Zenon DEF CursorInStep
<1>12. SnapshotsCover(r)'
  <2>1. \A t \in snapshots'[r] : t.microstep <= Framed(r)'
    BY <1>0, <1>4, <1>8 DEF SnapshotsCover
  <2>2. ASSUME NEW i \in 0 .. MaxSteps, committed'[r].microstep <= i * GA, i * GA <= Framed(r)'
        PROVE  \E t \in snapshots'[r] : t.microstep = i * GA
    <3>1. committed[r].microstep <= i * GA /\ i * GA >= step * GA
      <4>1. committed[r].microstep <= step * GA /\ committed[r].microstep \in Nat
        BY <1>0 DEF CursorInStep, TypeOK, State
      <4>2. i * GA \in Nat BY Multiples
      <4>3. step * GA <= i * GA BY <2>2, <1>3, <1>4, Zenon
      <4> QED BY <4>1, <4>2, <4>3, <1>10
    <3>2. PICK t \in snapshots[r] : t.microstep = i * GA
      BY <1>0, <1>8, <2>2, <3>1 DEF SnapshotsCover
    <3> QED BY <1>4, <3>1, <3>2
  <2> QED BY <2>1, <2>2 DEF SnapshotsCover
<1>13. ViewsKept(r)'
  BY <1>0, <1>2, <1>4, Zenon DEF ViewsKept
<1>14. CommittedIsShared(r)'
  <2>1. SharedBefore(weights[r], step * GA) BY <1>0, <1>3, Zenon DEF ViewsKept
  <2> QED BY <1>2, <1>3, <1>4, <2>1, Zenon DEF CommittedIsShared
<1> QED BY <1>5, <1>6, <1>7, <1>9, <1>11, <1>12, <1>13, <1>14 DEF SamplerInv, RankInv

\* When a job goes down, nothing else changes.
LEMMA ModeKeepsInv ==
  ASSUME SamplerInv, mode' \in {"up", "down", "done"},
         UNCHANGED <<run, sampler, phase, applied, step, weights, saved>>
  PROVE  SamplerInv'
<1>1. TypeOK' BY DEF SamplerInv, TypeOK, sampler
<1>2. SavedInOrder' /\ AppliedAlike'
  BY DEF SamplerInv, SavedInOrder, AppliedAlike, sampler
<1>3. ASSUME NEW q \in Ranks PROVE RankInv(q)'
  BY InvOfRank, Undisturbed DEF sampler
<1> QED BY <1>1, <1>2, <1>3 DEF SamplerInv

\* The end of a step in a ddp job: an update that was skipped ends the job.
LEMMA StepEndAloneKeepsInv ==
  ASSUME SamplerInv, NEW r \in Ranks, StepEndAlone(r)
  PROVE  SamplerInv'
<1>1. CASE Fail BY <1>1, ModeKeepsInv DEF Fail
<1>2. CASE Commit(r) /\ applied[r]
  <2>1. \A o \in Ranks : applied[o]
    BY <1>2, InvOfRank DEF StepEndAlone, AppliedAlike
  <2>2. \A s \in AtStep(r) : s.view = Shared
    BY InvOfRank DEF StepEndAlone, ViewsKept, AtStep
  <2>3. UNCHANGED <<run, mode>> BY <1>2 DEF Commit
  <2> QED BY <1>2, <2>1, <2>2, <2>3, CommitKeepsInv DEF StepEndAlone
<1> QED BY <1>1, <1>2 DEF StepEndAlone

\* The end of a step in a sharded job: snapshots that are one over several ranks have
\* the shared view, since each rank's is shared or the rank's own.
LEMMA StepEndTogetherKeepsInv ==
  ASSUME SamplerInv, NEW r \in Ranks, StepEndTogether(r)
  PROVE  SamplerInv'
<1>1. CASE Fail BY <1>1, ModeKeepsInv DEF Fail
<1>2. CASE Commit(r) /\ Converged(r)
  <2>1. \A o \in Ranks : applied[o] BY <1>2 DEF Converged
  <2>2. PICK o \in Ranks : o # r
    <3>1. World > 1 BY DEF StepEndTogether
    <3>2. 0 \in Ranks /\ 1 \in Ranks /\ 0 # 1 BY <3>1, SMT DEF Ranks
    <3> QED BY <3>2, Zenon
  <2>3. PICK t : UNION {AtStep(q) : q \in Ranks} = {t}
    <3> DEFINE all == UNION {AtStep(q) : q \in Ranks}
    <3>1. Cardinality(all) = 1 BY <1>2 DEF Converged
    <3>2. IsFiniteSet(all)
      <4>1. all \subseteq State BY InvOfRank DEF AtStep, TypeOK
      <4>2. IsFiniteSet(State) BY StateIsFinite
      <4> QED BY <4>1, <4>2, FS_Subset
    <3> QED BY <3>1, <3>2, FS_Singleton
  <2>4. t \in AtStep(r) /\ t \in AtStep(o) /\ AtStep(r) \subseteq {t}
    <3>1. AtStep(r) # {} /\ AtStep(o) # {} BY <1>2 DEF Converged
    <3> QED BY <2>3, <3>1
  <2>5. t.view \in {Shared, r} /\ t.view \in {Shared, o}
    BY <2>4, InvOfRank DEF ViewsKept, AtStep
  <2>6. \A s \in AtStep(r) : s.view = Shared BY <2>2, <2>4, <2>5
  <2>7. UNCHANGED <<run, mode>> BY <1>2 DEF Commit
  <2> QED BY <1>2, <2>1, <2>6, <2>7, CommitKeepsInv DEF StepEndTogether
<1> QED BY <1>1, <1>2 DEF StepEndTogether

\* Between the phases of a step only the phase changes.
LEMMA PhaseKeepsInv ==
  ASSUME SamplerInv, NEW r \in Ranks, Gather(r) \/ NextStep(r)
  PROVE  SamplerInv'
<1>0. /\ TypeOK /\ SavedInOrder /\ AppliedAlike
      /\ StreamInOrder(r) /\ CursorInStep(r) /\ SnapshotsCover(r)
      /\ ViewsKept(r) /\ CommittedIsShared(r)
  BY InvOfRank
<1>1. /\ phase[r] # "training"
      /\ \E p \in {"gathered", "training"} : phase' = [phase EXCEPT ![r] = p]
      /\ UNCHANGED <<run, mode, initial, planner, preflight, frame, queue, snapshots,
                     committed, applied, step, weights, saved>>
  BY DEF Gather, NextStep, sampler
<1>2. phase'[r] \in {"gathered", "training"} /\ \A q \in Ranks \ {r} : phase'[q] = phase[q]
  BY <1>0, <1>1 DEF TypeOK
<1>3. TypeOK'
  <2>1. phase' \in [Ranks -> {"training", "stepped", "gathered", "committed"}]
    BY <1>0, <1>1 DEF TypeOK
  <2> QED BY <1>0, <1>1, <2>1 DEF TypeOK
<1>4. SavedInOrder' /\ AppliedAlike'
  BY <1>0, <1>1 DEF SavedInOrder, AppliedAlike
<1>5. ASSUME NEW q \in Ranks \ {r} PROVE RankInv(q)'
  BY <1>1, <1>2, InvOfRank, Undisturbed
<1>6. StreamInOrder(r)' /\ CursorInStep(r)' /\ SnapshotsCover(r)' /\ ViewsKept(r)'
  BY <1>0, <1>1, <1>2, Zenon
     DEF StreamInOrder, CursorInStep, SnapshotsCover, ViewsKept, Framed
<1>7. CommittedIsShared(r)' BY <1>2 DEF CommittedIsShared
<1> QED BY <1>3, <1>4, <1>5, <1>6, <1>7 DEF SamplerInv, RankInv

\* The optimizer step moves the cursor of all ranks to the end of the frame.
LEMMA OptimizerStepKeepsInv ==
  ASSUME SamplerInv, OptimizerStep
  PROVE  SamplerInv'
<1>0. TypeOK /\ SavedInOrder BY DEF SamplerInv
<1>1. /\ step < MaxSteps /\ step' = step + 1 /\ phase' = [r \in Ranks |-> "stepped"]
      /\ \A r \in Ranks : Len(weights[r]) - step * GA = GA
      /\ UNCHANGED <<run, mode, initial, planner, preflight, frame, queue, snapshots,
                     committed, weights, saved>>
  BY DEF OptimizerStep, All, Done, sampler
<1>2. PICK skipping \in IF Sharded THEN SUBSET Ranks ELSE {{}, Ranks} :
        applied' = [r \in Ranks |-> r \notin skipping]
  BY DEF OptimizerStep
<1>3. step \in Nat /\ step' \in 0 .. MaxSteps BY <1>0, <1>1 DEF TypeOK
<1>4. step' * GA = step * GA + GA /\ step * GA \in Nat BY <1>1, <1>3, Multiples
<1>5. TypeOK'
  <2>1. applied' \in [Ranks -> BOOLEAN] BY <1>2
  <2>2. phase' \in [Ranks -> {"training", "stepped", "gathered", "committed"}] BY <1>1
  <2> QED BY <1>0, <1>1, <1>3, <2>1, <2>2 DEF TypeOK
<1>6. SavedInOrder' BY <1>0, <1>1 DEF SavedInOrder
<1>7. AppliedAlike'
  <2>1. ASSUME ~ Sharded, NEW r \in Ranks, NEW o \in Ranks PROVE applied'[r] = applied'[o]
    BY <1>2, <2>1
  <2> QED BY <2>1 DEF AppliedAlike
<1>8. ASSUME NEW r \in Ranks PROVE RankInv(r)'
  <2>1. /\ StreamInOrder(r) /\ CursorInStep(r) /\ SnapshotsCover(r) /\ ViewsKept(r)
        /\ Len(weights[r]) \in Nat
    BY InvOfRank, LengthTypes
  <2>2. StreamInOrder(r)' /\ SnapshotsCover(r)' /\ ViewsKept(r)'
    BY <1>1, <2>1, Zenon DEF StreamInOrder, SnapshotsCover, ViewsKept, Framed
  <2>3. CursorInStep(r)'
    <3>1. Len(weights[r]) = step' * GA BY <1>1, <1>4, <2>1
    <3>2. step' * GA <= Len(weights[r]) BY <1>4, <3>1
    <3>3. committed[r].microstep <= step' * GA
      <4>1. committed[r].microstep <= step * GA /\ committed[r].microstep \in Nat
        BY <1>0, <2>1 DEF CursorInStep, TypeOK, State
      <4> QED BY <4>1, <1>4, SMT
    <3> QED BY <1>1, <3>1, <3>2, <3>3, Zenon DEF CursorInStep
  <2>4. CommittedIsShared(r)' BY <1>1 DEF CommittedIsShared
  <2> QED BY <2>2, <2>3, <2>4 DEF RankInv
<1> QED BY <1>5, <1>6, <1>7, <1>8 DEF SamplerInv

\* A checkpoint is taken when all ranks have committed: its cursor is rank 0's, and
\* that is everybody's.
LEMMA SaveKeepsInv ==
  ASSUME SamplerInv, Save
  PROVE  SamplerInv'
<1>0. TypeOK /\ SavedInOrder /\ AppliedAlike BY DEF SamplerInv
<1>1. /\ \A r \in Ranks : phase[r] = "committed"
      /\ saved' = [step |-> step, state |-> committed[0], weights |-> weights]
      /\ UNCHANGED <<run, mode, initial, planner, preflight, frame, queue, snapshots,
                     committed, phase, applied, step, weights>>
  BY DEF Save, sampler
<1>2. 0 \in Ranks BY SMT DEF Ranks
<1>3. TypeOK'
  <2>1. saved' \in [step : 0 .. MaxSteps, state : State, weights : [Ranks -> Seq(State)]]
    BY <1>0, <1>1, <1>2 DEF TypeOK
  <2> QED BY <1>0, <1>1, <2>1 DEF TypeOK
<1>4. ASSUME NEW r \in Ranks
      PROVE  /\ committed[r].microstep = step * GA /\ committed[r].view = Shared
             /\ Len(weights[r]) = step * GA /\ Consecutive(weights[r], 0)
             /\ SharedBefore(weights[r], step * GA)
  BY <1>1, InvOfRank DEF CommittedIsShared, CursorInStep, StreamInOrder
<1>5. /\ saved'.state = committed[0] /\ saved'.step = step /\ saved'.weights = weights
  BY <1>1
<1>6. SavedInOrder' BY <1>0, <1>1, <1>2, <1>4, <1>5, Zenon DEF SavedInOrder
<1>7. AppliedAlike' BY <1>0, <1>1 DEF AppliedAlike
<1>8. ASSUME NEW q \in Ranks PROVE RankInv(q)'
  BY <1>1, InvOfRank, Undisturbed
<1> QED BY <1>3, <1>6, <1>7, <1>8 DEF SamplerInv

\* A job continues the stream where the checkpoint's model stands.
LEMMA StartJobKeepsInv ==
  ASSUME SamplerInv, StartJob
  PROVE  SamplerInv'
<1>0. TypeOK /\ SavedInOrder BY DEF SamplerInv
<1> DEFINE from == saved.state
           opened == [from EXCEPT !.microstep = @ + IF Preflight THEN 1 ELSE 0]
<1>1. /\ run' = run + 1 /\ run < MaxRun /\ mode' = "up"
      /\ initial' = from /\ planner' = [r \in Ranks |-> opened]
      /\ preflight' = [r \in Ranks |-> Preflight]
      /\ frame' = [r \in Ranks |-> <<>>] /\ queue' = [r \in Ranks |-> <<>>]
      /\ snapshots' = [r \in Ranks |-> {from}] /\ committed' = [r \in Ranks |-> from]
      /\ step' = saved.step /\ weights' = saved.weights /\ saved' = saved
      /\ phase' = [r \in Ranks |-> "training"] /\ applied' = [r \in Ranks |-> TRUE]
      /\ from.microstep <= Total
  BY DEF StartJob, Opened, Loaded, Resumable, All
<1>2. /\ from \in State /\ from.view = Shared /\ from.microstep = saved.step * GA
      /\ saved.step \in 0 .. MaxSteps /\ from.microstep \in Nat
  BY <1>0 DEF TypeOK, SavedInOrder, State
<1>3. opened.microstep = from.microstep + (IF Preflight THEN 1 ELSE 0) /\ opened.view = Shared
  BY <1>2 DEF State
<1>4. opened \in State
  <2>1. opened.microstep \in 0 .. Total + 1 BY <1>1, <1>2, <1>3, TotalIsMultiple
  <2> QED BY <1>2, <2>1 DEF State
<1> HIDE DEF opened
<1>5. TypeOK'
  <2>1. run' \in 0 .. MaxRun BY <1>0, <1>1 DEF TypeOK
  <2>2. planner' \in [Ranks -> State] BY <1>1, <1>4
  <2>3. frame' \in [Ranks -> Seq(State)] /\ queue' \in [Ranks -> Seq(State)]
    BY <1>1, <<>> \in Seq(State)
  <2>4. snapshots' \in [Ranks -> SUBSET State] /\ committed' \in [Ranks -> State]
    BY <1>1, <1>2
  <2>5. /\ phase' \in [Ranks -> {"training", "stepped", "gathered", "committed"}]
        /\ applied' \in [Ranks -> BOOLEAN] /\ preflight' \in [Ranks -> BOOLEAN]
    BY <1>1 DEF Preflight
  <2>6. weights' \in [Ranks -> Seq(State)] /\ step' \in 0 .. MaxSteps
    BY <1>0, <1>1 DEF TypeOK
  <2> QED BY <1>0, <1>1, <1>2, <2>1, <2>2, <2>3, <2>4, <2>5, <2>6 DEF TypeOK
<1>6. SavedInOrder' BY <1>0, <1>1, <1>2, Zenon DEF SavedInOrder
<1>7. AppliedAlike' BY <1>1 DEF AppliedAlike
<1>8. ASSUME NEW r \in Ranks PROVE RankInv(r)'
  <2>1. /\ planner'[r] = opened /\ preflight'[r] = Preflight /\ frame'[r] = <<>>
        /\ queue'[r] = <<>> /\ snapshots'[r] = {from} /\ committed'[r] = from
        /\ phase'[r] = "training" /\ weights'[r] = saved.weights[r]
    BY <1>1
  <2>2. /\ Len(saved.weights[r]) = from.microstep /\ Consecutive(saved.weights[r], 0)
        /\ SharedBefore(saved.weights[r], from.microstep)
    BY <1>0, <1>2 DEF SavedInOrder
  <2>3. Framed(r)' = from.microstep
    <3>1. Framed(r)' = opened.microstep - (IF Preflight THEN 1 ELSE 0) BY <2>1 DEF Framed
    <3> QED BY <1>2, <1>3, <3>1 DEF Preflight
  <2>4. Len(<<>>) = 0 /\ \A seq, n : seq = <<>> => Consecutive(seq, n) /\ SharedBefore(seq, n)
    BY SMT DEF Consecutive, SharedBefore
  <2>5. StreamInOrder(r)'
    <3>1. from.microstep = from.microstep + 0 + 0 BY <1>2, SMT
    <3>2. Framed(r)' = Len(weights'[r]) + Len(queue'[r]) + Len(frame'[r])
      BY <2>1, <2>2, <2>3, <2>4, <3>1, Zenon
    <3> QED BY <1>1, <1>2, <2>1, <2>2, <2>3, <2>4, <3>2, Zenon DEF StreamInOrder
  <2>6. CursorInStep(r)'
    BY <1>1, <1>2, <2>1, <2>2 DEF CursorInStep
  <2>7. SnapshotsCover(r)'
    <3>1. \A s \in snapshots'[r] : s.microstep <= Framed(r)' BY <1>2, <2>1, <2>3
    <3>2. ASSUME NEW j \in 0 .. MaxSteps, from.microstep <= j * GA, j * GA <= from.microstep
          PROVE  from.microstep = j * GA
      <4>1. j * GA \in Nat BY Multiples
      <4> QED BY <1>2, <3>2, <4>1
    <3> QED BY <2>1, <2>3, <3>1, <3>2, Zenon DEF SnapshotsCover
  <2>8. ViewsKept(r)'
    <3>1. ASSUME NEW s \in {from, opened}
          PROVE  /\ s.view = Shared
                 /\ SharedBefore(saved.weights[r], s.microstep)
      <4>1. \A n \in 1 .. Len(saved.weights[r]) :
                saved.weights[r][n].microstep < from.microstep
        <5>1. \A n \in 1 .. Len(saved.weights[r]) : saved.weights[r][n].microstep = 0 + n - 1
          BY <2>2 DEF Consecutive
        <5>2. \A n \in 1 .. Len(saved.weights[r]) : 0 + n - 1 < from.microstep
          BY <1>2, <2>2, SMT
        <5> QED BY <5>1, <5>2, Zenon
      <4>2. SharedBefore(saved.weights[r], s.microstep)
        BY <2>2, <4>1, Zenon DEF SharedBefore
      <4> QED BY <1>2, <1>3, <4>2
    <3> QED BY <2>1, <2>4, <3>1, Zenon DEF ViewsKept
  <2>9. CommittedIsShared(r)' BY <2>1 DEF CommittedIsShared
  <2> QED BY <2>5, <2>6, <2>7, <2>8, <2>9 DEF RankInv
<1> QED BY <1>5, <1>6, <1>7, <1>8 DEF SamplerInv

-----------------------------------------------------------------------------
\* Nothing is planned, trained or saved at first.
LEMMA InitInv == Init => SamplerInv
<1> SUFFICES ASSUME Init PROVE SamplerInv OBVIOUS
<1>1. /\ Start \in State /\ Start.microstep = 0 /\ Start.view = Shared
      /\ <<>> \in Seq(State) /\ Len(<<>>) = 0 /\ 0 * GA = 0
  BY SharedIsNoRank, TotalIsMultiple, SMT DEF Start, State
<1>2. \A seq, n : seq = <<>> => Consecutive(seq, n) /\ SharedBefore(seq, n)
  BY SMT DEF Consecutive, SharedBefore
<1>3. TypeOK
  <2>1. saved \in [step : 0 .. MaxSteps, state : State, weights : [Ranks -> Seq(State)]]
    BY <1>1, SMT DEF Init, Fresh, All
  <2> QED BY <1>1, <2>1, SMT DEF Init, TypeOK, All
<1>4. SavedInOrder
  <2>1. saved.step = 0 /\ saved.state = Start /\ \A r \in Ranks : saved.weights[r] = <<>>
    BY DEF Init, Fresh, All
  <2> QED BY <1>1, <1>2, <2>1 DEF SavedInOrder, Init
<1>5. AppliedAlike BY DEF AppliedAlike, Init, All
<1>6. ASSUME NEW r \in Ranks PROVE RankInv(r)
  <2>1. /\ planner[r] = Start /\ preflight[r] = FALSE /\ frame[r] = <<>> /\ queue[r] = <<>>
        /\ snapshots[r] = {Start} /\ committed[r] = Start /\ phase[r] = "training"
        /\ weights[r] = <<>> /\ step = 0
    BY DEF Init, All
  <2>2. Framed(r) = 0 BY <1>1, <2>1, SMT DEF Framed
  <2>3. StreamInOrder(r)
    <3>1. 0 \in 0 .. MaxSteps /\ 0 = 0 + 0 + 0 BY SMT
    <3> QED BY <1>1, <1>2, <2>1, <2>2, <3>1 DEF StreamInOrder
  <2>4. CursorInStep(r) BY <1>1, <2>1, SMT DEF CursorInStep
  <2>5. SnapshotsCover(r)
    <3>1. \A j \in 0 .. MaxSteps : 0 <= j * GA /\ j * GA <= 0 => 0 = j * GA
      BY Multiples, SMT
    <3> QED BY <1>1, <2>1, <2>2, <3>1 DEF SnapshotsCover
  <2>6. ViewsKept(r) BY <1>1, <1>2, <2>1, Zenon DEF ViewsKept
  <2>7. CommittedIsShared(r) BY <2>1 DEF CommittedIsShared
  <2> QED BY <2>3, <2>4, <2>5, <2>6, <2>7 DEF RankInv
<1> QED BY <1>3, <1>4, <1>5, <1>6 DEF SamplerInv

\* Every step keeps the invariant.
LEMMA NextInv == SamplerInv /\ [Next]_vars => SamplerInv'
<1> SUFFICES ASSUME SamplerInv, [Next]_vars PROVE SamplerInv' OBVIOUS
<1>1. CASE StartJob BY <1>1, StartJobKeepsInv
<1>2. CASE OptimizerStep BY <1>2, OptimizerStepKeepsInv
<1>3. CASE Save BY <1>3, SaveKeepsInv
<1>4. CASE Finish \/ Crash BY <1>4, ModeKeepsInv DEF Finish, Crash
<1>5. CASE \E r \in Ranks : Produce(r)
  BY <1>5, PlanFrameKeepsInv, YieldKeepsInv DEF Produce
<1>6. CASE \E r \in Ranks : Train(r)
  BY <1>6, BackwardKeepsInv, StepEndAloneKeepsInv, StepEndTogetherKeepsInv, PhaseKeepsInv
     DEF Train
<1>7. CASE \E r \in Ranks : Drift(r) BY <1>7, DriftKeepsInv
<1>8. CASE UNCHANGED vars
  <2>1. /\ UNCHANGED <<run, sampler, phase, applied, step, weights, saved>>
        /\ mode' \in {"up", "down", "done"}
    BY <1>8 DEF vars, SamplerInv, TypeOK
  <2> QED BY <2>1, ModeKeepsInv
<1> QED BY <1>1, <1>2, <1>3, <1>4, <1>5, <1>6, <1>7, <1>8 DEF Next

\* The invariant holds throughout, however jobs crash and resume.
THEOREM SamplerInvariance == Spec => []SamplerInv
BY InitInv, NextInv, PTL DEF Spec

\* The shape of the state, for every world size and length of the training.
THEOREM SamplerTyped == Spec => []TypeOK
<1>1. SamplerInv => TypeOK BY DEF SamplerInv
<1> QED BY <1>1, SamplerInvariance, PTL

\* The model of every rank sees every microstep once and in order.
THEOREM SamplerTrainedInOrder == Spec => []TrainedInOrder
<1>1. SamplerInv => TrainedInOrder
  <2> SUFFICES ASSUME SamplerInv, NEW r \in Ranks, NEW n \in 1 .. Len(weights[r])
               PROVE  weights[r][n].microstep = n - 1
    BY DEF TrainedInOrder
  <2>1. weights[r][n].microstep = 0 + n - 1
    BY InvOfRank DEF StreamInOrder, Consecutive
  <2>2. 0 + n - 1 = n - 1 BY SMT
  <2> QED BY <2>1, <2>2, Zenon
<1> QED BY <1>1, SamplerInvariance, PTL

\* A checkpoint's cursor is what its model has seen, planned from one view.
THEOREM SamplerSavedIsExecuted == Spec => []SavedIsExecuted
<1>1. SamplerInv => SavedIsExecuted
  <2> SUFFICES ASSUME SamplerInv, NEW r \in Ranks
               PROVE  /\ Len(saved.weights[r]) = saved.state.microstep
                      /\ saved.state.microstep = saved.step * GA
                      /\ \A n \in 1 .. Len(saved.weights[r]) : saved.weights[r][n].view = Shared
    BY DEF SavedIsExecuted
  <2>1. /\ saved.state.microstep = saved.step * GA
        /\ Len(saved.weights[r]) = saved.step * GA
        /\ Consecutive(saved.weights[r], 0)
        /\ SharedBefore(saved.weights[r], saved.step * GA)
    BY DEF SamplerInv, SavedInOrder
  <2>2. saved.step * GA \in Nat BY Multiples DEF SamplerInv, TypeOK
  <2>3. \A n \in 1 .. Len(saved.weights[r]) : 0 + n - 1 < saved.step * GA
    BY <2>1, <2>2, SMT
  <2>4. \A n \in 1 .. Len(saved.weights[r]) : saved.weights[r][n].microstep < saved.step * GA
    BY <2>1, <2>3, Zenon DEF Consecutive
  <2> QED BY <2>1, <2>4, Zenon DEF SharedBefore
<1> QED BY <1>1, SamplerInvariance, PTL

\* The cursor is past a step only if its update was applied on every rank.
THEOREM SamplerCommitsAppliedOnly == Spec => []CommitsAppliedOnly
<1>1. SamplerInv => CommitsAppliedOnly
  BY InvOfRank DEF CommitsAppliedOnly, CommittedIsShared
<1> QED BY <1>1, SamplerInvariance, PTL

\* on_step_end always finds the state of the finished step.
THEOREM SamplerSnapshotReady == Spec => []SnapshotReady
<1>1. SamplerInv => SnapshotReady
  <2> SUFFICES ASSUME SamplerInv, NEW r \in Ranks, phase[r] \in {"stepped", "gathered"}
               PROVE  AtStep(r) # {}
    BY DEF SnapshotReady
  <2>1. /\ TypeOK /\ StreamInOrder(r) /\ CursorInStep(r) /\ SnapshotsCover(r)
        /\ Len(weights[r]) \in Nat /\ Len(queue[r]) \in Nat /\ Len(frame[r]) \in Nat
    BY InvOfRank, LengthTypes
  <2>2. step \in 0 .. MaxSteps /\ committed[r].microstep <= step * GA
    BY <2>1 DEF TypeOK, CursorInStep
  <2>3. step * GA <= Framed(r)
    <3>1. Len(weights[r]) = step * GA BY <2>1 DEF CursorInStep
    <3>2. Framed(r) = step * GA + Len(queue[r]) + Len(frame[r])
      BY <2>1, <3>1, Zenon DEF StreamInOrder
    <3>3. step * GA \in Nat BY <2>2, Multiples
    <3> DEFINE g == step * GA
               q == Len(queue[r])
               f == Len(frame[r])
    <3>4. g \in Nat /\ q \in Nat /\ f \in Nat BY <2>1, <3>3
    <3> HIDE DEF g, q, f
    <3>5. g <= g + q + f BY <3>4, SMT
    <3> QED BY <3>2, <3>5 DEF g, q, f
  <2>4. PICK s \in snapshots[r] : s.microstep = step * GA
    BY <2>1, <2>2, <2>3 DEF SnapshotsCover
  <2>5. s.microstep >= committed[r].microstep
    <3>1. s.microstep \in Nat /\ committed[r].microstep \in Nat
      BY <2>1 DEF TypeOK, State
    <3> QED BY <2>2, <2>4, <3>1
  <2> QED BY <2>4, <2>5 DEF AtStep
<1> QED BY <1>1, SamplerInvariance, PTL
==============================================================================
