--------------------------- MODULE SampleSchedule ---------------------------
(***************************************************************************)
(* The endless stream of draws that a mixture of sources is trained on     *)
(* (ShaftSampleSchedule, and the unshuffled stream of ShaftSamplePlan).    *)
(* Nothing is stored: a draw's source, and which of the source's samples   *)
(* it is, are computed from its number.                                    *)
(*                                                                         *)
(* A weighted stream consists of blocks of tickets, each source having its *)
(* quota of them.  All blocks are one shuffled block, each rotated by      *)
(* another amount so that a rare ticket does not always meet the same      *)
(* rank.  What the code takes from a hash is arbitrary here: the shuffle,  *)
(* the phase of a group of blocks, and the affine map of a "concat" cycle. *)
(* Within a source a keyed Feistel network, which is one to one, permutes  *)
(* the samples of each cycle: the model stops at the occurrence.           *)
(***************************************************************************)
EXTENDS Integers, FiniteSets, FiniteSetsExt, Functions

CONSTANTS NumSources,    \* sources 1 .. NumSources
          MaxWeight,     \* of integer weights
          BlockSize,     \* tickets of a block, rows of a concat cycle
          PhaseBlocks,   \* blocks that share a phase
          MaxWorld,      \* ranks the rotation is meant for
          MaxBlocks      \* bound: blocks, or concat cycles, drawn

ASSUME ScheduleAssumption ==
    /\ NumSources \in Nat \ {0} /\ MaxWeight \in Nat \ {0} /\ BlockSize \in Nat \ {0}
    /\ PhaseBlocks \in Nat \ {0} /\ MaxWorld \in Nat \ {0} /\ MaxBlocks \in Nat

VARIABLES kind,   \* "concat", "weighted" or "unshuffled"
          world,  \* data-parallel ranks; draw n goes to rank n % world
          quota,  \* source -> its tickets in a block
          block,  \* ticket -> source
          phase,  \* of this group of blocks
          affine, \* multiplier and offset of this concat cycle
          draw,   \* the next draw
          last,   \* the last draw: its source and occurrence (weighted), its row (concat)
          drawn,  \* ghost: draws of each source so far
          rows,   \* ghost: rows drawn in this concat cycle
          met     \* ghost: how often each ticket met each rank

scheduleVars == <<kind, world, quota, block, phase, affine, draw, last, drawn, rows, met>>

Source == 1 .. NumSources
Ticket == 0 .. BlockSize - 1
Worlds == 1 .. MaxWorld

Coprime(m, n) == \A d \in 2 .. m : m % d # 0 \/ n % d # 0
CeilDiv(m, n) == (m + n - 1) \div n

-----------------------------------------------------------------------------
(* Quotas and blocks *)

\* Shares of a block by largest remainder, ties to the first source.
Hamilton(weight) ==
    LET total == SumFunction(weight)
        floor == [s \in Source |-> (weight[s] * BlockSize) \div total]
        rest == [s \in Source |-> (weight[s] * BlockSize) % total]
        Larger(s) == {t \in Source : rest[t] > rest[s] \/ (rest[t] = rest[s] /\ t < s)}
    IN  [s \in Source |-> floor[s] + IF Cardinality(Larger(s)) < BlockSize - SumFunction(floor)
                                     THEN 1 ELSE 0]

\* Any order of the tickets.
Shuffled == {b \in [Ticket -> Source] :
                \A s \in Source : Cardinality({p \in Ticket : b[p] = s}) = quota[s]}

\* The tickets ordered by the midpoints (2i + 1) / 2q of their source's quota, so that each
\* source is spread evenly, ties to the first source.
Merged ==
    LET Occurrence == UNION {{s} \X (0 .. quota[s] - 1) : s \in Source}
        Precedes(x, y) ==
            LET left == (2 * x[2] + 1) * quota[y[1]]
                right == (2 * y[2] + 1) * quota[x[1]]
            IN  left < right \/ (left = right /\ x[1] < y[1])
    IN  [p \in Ticket |-> (CHOOSE x \in Occurrence :
                               Cardinality({y \in Occurrence : Precedes(y, x)}) = p)[1]]

\* Mutant: the step only has to reach every ticket.
BlockStep ==
    IF BlockSize <= 1 THEN 0 ELSE Min({n \in 1 .. BlockSize : Coprime(n, BlockSize)})

\* It reaches every ticket and, from a block to the next, every rank.
Reaching(n) == Coprime(n, BlockSize) /\ \A w \in Worlds : Coprime(w, BlockSize + n)

\* The smallest such step.
RotationStep ==
    IF BlockSize <= 1 THEN 0 ELSE Min({n \in 1 .. 100 * BlockSize : Reaching(n)})

\* The code looks for the step without a limit.
ASSUME StepAssumption == BlockSize > 1 => \E n \in 1 .. 100 * BlockSize : Reaching(n)

-----------------------------------------------------------------------------
(* The draws *)

\* The number of the source's tickets in the block before this place.
Rank(s, place) == Cardinality({p \in 0 .. place - 1 : block[p] = s})

\* Mutant: a source's occurrences are counted from the start of the unrotated block.
UnrotatedOccurrence(s, ticket, rotation) == Rank(s, ticket)

\* Which of the source's tickets of this block it is, from where the rotated block starts.
LocalOccurrence(s, ticket, rotation) ==
    IF ticket >= rotation THEN Rank(s, ticket) - Rank(s, rotation)
    ELSE quota[s] - Rank(s, rotation) + Rank(s, ticket)

DrawTicket ==
    /\ kind # "concat"
    /\ LET number == draw \div BlockSize
           offset == draw % BlockSize
           fresh == kind = "weighted" /\ offset = 0 /\ number % PhaseBlocks = 0
           rotation == IF kind = "weighted"
                       THEN (phase' - RotationStep * (number % PhaseBlocks)) % BlockSize
                       ELSE 0
           ticket == (offset + rotation) % BlockSize
           s == block[ticket]
       IN  /\ phase' \in IF fresh THEN Ticket ELSE {phase}
           /\ last' = <<s, number * quota[s] + LocalOccurrence(s, ticket, rotation)>>
           /\ drawn' = [drawn EXCEPT ![s] = @ + 1]
           /\ met' = [met EXCEPT ![ticket][draw % world] = @ + 1]
    /\ UNCHANGED <<affine, rows>>

\* The multiplier is advanced until it has no factor in common with the cycle.
Multipliers == {m \in 1 .. BlockSize : Coprime(m, BlockSize)}

DrawRow ==
    /\ kind = "concat"
    /\ LET position == draw % BlockSize
       IN  /\ affine' \in IF position = 0 THEN Multipliers \X Ticket ELSE {affine}
           /\ LET row == (affine'[1] * position + affine'[2]) % BlockSize
              IN  /\ last' = <<0, row>>
                  /\ rows' = IF position = 0 THEN {row} ELSE rows \cup {row}
    /\ UNCHANGED <<phase, drawn, met>>

Draw ==
    /\ draw < MaxBlocks * BlockSize
    /\ draw' = draw + 1
    /\ DrawTicket \/ DrawRow
    /\ UNCHANGED <<kind, world, quota, block>>

-----------------------------------------------------------------------------
\* Every source has a ticket, or the block size is not used.
ScheduleInit ==
    /\ kind \in {"concat", "weighted", "unshuffled"}
    /\ world \in Worlds
    /\ quota \in {q \in {Hamilton(weight) : weight \in [Source -> 1 .. MaxWeight]} :
                     \A s \in Source : q[s] > 0}
    /\ block \in IF kind = "weighted" THEN Shuffled ELSE {Merged}
    /\ phase = 0 /\ affine = <<1, 0>>
    /\ draw = 0 /\ last = <<0, 0>>
    /\ drawn = [s \in Source |-> 0] /\ rows = {}
    /\ met = [t \in Ticket |-> [r \in 0 .. world - 1 |-> 0]]

ScheduleSpec == ScheduleInit /\ [][Draw]_scheduleVars

-----------------------------------------------------------------------------
(* Properties *)

\* The draws of a source are its samples 0, 1, 2, ... in order, across rotated blocks and
\* changes of phase, so that no row comes again before the source is exhausted; a concat
\* cycle draws every row once.
WithoutReplacement ==
    /\ kind # "concat" /\ draw > 0 => last[2] = drawn[last[1]] - 1
    /\ kind = "concat" /\ draw > 0 => Cardinality(rows) = ((draw - 1) % BlockSize) + 1

\* How far the ranks may be apart after so many blocks of a group.
Discrepancy(blocks) ==
    IF blocks = 0 THEN 0 ELSE 1 + CeilDiv(RotationStep * (blocks - 1), BlockSize)

\* Every ticket, however rare, meets the ranks about equally often.
RanksMeetTickets ==
    kind = "weighted" /\ draw % BlockSize = 0 =>
        LET blocks == draw \div BlockSize
            bound == (blocks \div PhaseBlocks) * Discrepancy(PhaseBlocks)
                     + Discrepancy(blocks % PhaseBlocks)
        IN  \A t \in Ticket : \A q, r \in DOMAIN met[t] : met[t][q] - met[t][r] <= bound
=============================================================================
