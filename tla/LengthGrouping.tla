---------------------------- MODULE LengthGrouping -----------------------------
(***************************************************************************)
(* The costs of planned batches, and how the planner chooses from a window *)
(* with grouping "length" (data/batching.py, and _next_length_microbatch of *)
(* data/dynamic_batching.py): neighbours in length, one to a physical pack, *)
(* or whole samples packed up to MaxSequence; then packs are dealt to ranks. *)
(*                                                                         *)
(* A sample is its draw id and its cost: tokens, and patches, which are the *)
(* only resource the configuration knows (SHAFT_BATCH_RESOURCE_NAMES).  A  *)
(* pack is a set of samples; a window is a sequence, its oldest first.     *)
(***************************************************************************)
EXTENDS Integers, Sequences, FiniteSets, FiniteSetsExt, SequencesExt

CONSTANTS
    World,        \* data_world_size
    Local,        \* per_device_microbatch_size
    MaxPatches,   \* resource_budgets["vision_patches"]
    MaxSequence   \* max_sequence_length

ASSUME LengthAssumption ==
    /\ World \in Nat \ {0} /\ Local \in Nat \ {0}
    /\ MaxPatches \in Nat \ {0} /\ MaxSequence \in Nat \ {0}

DataRanks == 1 .. World
Global == World * Local

Tokens(s)   == s.tokens
Patches(s)  == s.patches
Useful(B)   == MapThenSumSet(Tokens, B)
PatchSum(B) == MapThenSumSet(Patches, B)

\* Python's order of tuples
Before(s, t) ==
    \E k \in 1 .. Len(s) : s[k] < t[k] /\ \A j \in 1 .. k - 1 : s[j] = t[j]

\* A strict order's sequence of S; SetToSortSeq would go through all sequences of S.
Sorted(S, before(_, _)) ==
    [n \in 1 .. Cardinality(S) |->
        CHOOSE s \in S : Cardinality({t \in S : before(t, s)}) = n - 1]

-----------------------------------------------------------------------------
(* Ranks *)

\* The packs of one rank; the cap on tokens is derived from the length of a sequence.
RankFits(P) ==
    /\ Cardinality(P) <= Local
    /\ Useful(UNION P) <= Local * MaxSequence
    /\ PatchSum(UNION P) <= MaxPatches

\* The pack that is dealt first: _pack_load, times Local * MaxSequence * MaxPatches.
Heaviest(packs) ==
    LET key(p) == <<- Useful(p) * MaxPatches - PatchSum(p) * Local * MaxSequence,
                    Min({s.id : s \in p})>>
    IN  CHOOSE p \in packs : \A o \in packs \ {p} : Before(key(p), key(o))

\* _assign_packs_to_ranks searches through these; the model takes any, the code the first.
\* All that it skips are ranks that look the same, as all do to the heaviest pack.
Assignments(packs) ==
    {dealt \in [DataRanks -> {P \in SUBSET packs : RankFits(P)}] :
        /\ \A q, r \in DataRanks : q # r => dealt[q] \cap dealt[r] = {}
        /\ UNION {dealt[r] : r \in DataRanks} = packs
        /\ Heaviest(packs) \in dealt[1]}

\* _packs_can_be_assigned
Assignable(packs) == Cardinality(packs) <= Global /\ Assignments(packs) # {}

-----------------------------------------------------------------------------
(* Packs *)

\* ShaftLengthBatchGrouping.build
ByLength(S) ==
    LET longer(s, t) == Before(<<-s.tokens, s.id>>, <<-t.tokens, t.id>>)
    IN  Sorted(S, longer)

\* Without packing: of the chunks of Global samples the one with the oldest; the last
\* chunk is moved back to be whole.
Chunk(w) ==
    LET ordered == ByLength(ToSet(w))
        oldest  == CHOOSE n \in 1 .. Len(ordered) : ordered[n] = w[1]
        start   == Min({((oldest - 1) \div Global) * Global, Len(w) - Global})
    IN  {{s} : s \in ToSet(SubSeq(ordered, start + 1, start + Global))}

\* A pack for the oldest, then one for each of the longest that leave the packs assignable.
Seed(bins, s) ==
    IF Len(bins) < Global /\ Assignable(ToSet(bins) \cup {{s}}) THEN Append(bins, {s}) ELSE bins

Seeds(w) == FoldLeft(Seed, <<{w[1]}>>, ByLength(ToSet(Tail(w))))

\* A sample goes where the least room is left.
BestFit(bins, s) ==
    LET room(i) == MaxSequence - Useful(bins[i]) - s.tokens
        with(i) == [bins EXCEPT ![i] = @ \cup {s}]
        open == {i \in DOMAIN bins : room(i) >= 0 /\ Assignable(ToSet(with(i)))}
        best == CHOOSE i \in open : \A o \in open \ {i} : Before(<<room(i), i>>, <<room(o), o>>)
    IN  IF open = {} THEN bins ELSE with(best)

\* ShaftGreedySequencePacker.build raises if not every pack has a seed.
Packed(w) ==
    LET seeds == Seeds(w)
        rest  == ToSet(w) \ UNION ToSet(seeds)
    IN  IF Len(seeds) < Global THEN {} ELSE {ToSet(FoldLeft(BestFit, seeds, ByLength(rest)))}

\* The plans of a window, none of them if the code raises.
LengthPlans(w, packing) ==
    UNION {Assignments(packs) : packs \in IF packing THEN Packed(w) ELSE {Chunk(w)}}
=============================================================================
