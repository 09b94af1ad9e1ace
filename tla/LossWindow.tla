----------------------------- MODULE LossWindow -----------------------------
(***************************************************************************)
(* The weights of an optimizer window.  An OPD step learns how many tokens *)
(* its completions have only microbatch by microbatch, and rescales the    *)
(* gradients it has accumulated each time (shaft/opd/trainer.py); an SFT   *)
(* step with loss_normalization=global_token counts the whole window first *)
(* (shaft/training/sft_trainer.py).  Both promise the mean over the tokens *)
(* of all microbatches and ranks.                                          *)
(*                                                                         *)
(* A gradient is, for each microbatch of the window, the weight of its sum *)
(* of token losses: a fraction <<p, q>>.  Rounding is not modelled.        *)
(***************************************************************************)
EXTENDS Naturals, FiniteSets, Functions

CONSTANTS LossRanks,
          MaxMass,      \* tokens of a microbatch on a rank: 0 .. MaxMass
          MaxWindow,    \* microbatches of a window; the last of an epoch may have fewer
          Windows       \* bound: windows of a run

ASSUME WindowAssumption ==
    IsFiniteSet(LossRanks) /\ LossRanks # {} /\ MaxMass \in Nat /\ MaxWindow \in Nat

VARIABLES mass,         \* rank -> microbatch of the window -> its tokens, 0 before it is done
          size,         \* current_gradient_accumulation_steps
          j,            \* microbatches done
          grad,         \* rank -> microbatch -> its weight in the rank's .grad
          denominator,  \* _opd_window_denominator, 0 for None
          window,       \* "idle", "window", "raised" or "applied"
          count         \* windows begun

lossVars == <<mass, size, j, grad, denominator, window, count>>

LossWorld == Cardinality(LossRanks)
Microbatches == 1 .. MaxWindow

NoWeight == <<0, 1>>
Times(a, b) == <<a[1] * b[1], a[2] * b[2]>>
Same(a, b) == a[1] * b[2] = b[1] * a[2]

\* Tokens of f on all ranks, and of the window so far.
AcrossRanks(f) == FoldFunction(+, 0, f)
TokensIn(masses) ==
    FoldFunction(+, 0, [i \in Microbatches |-> AcrossRanks([r \in LossRanks |-> masses[r][i]])])
Total == TokensIn(mass)

-----------------------------------------------------------------------------
LossInit ==
    /\ mass = [r \in LossRanks |-> [i \in Microbatches |-> 0]] /\ size = 1 /\ j = 0
    /\ grad = [r \in LossRanks |-> [i \in Microbatches |-> NoWeight]]
    /\ denominator = 0 /\ window = "idle" /\ count = 0

\* A window begins with zeroed gradients, after an optimizer step or in a new run.
BeginWindow(n) ==
    /\ window # "window" /\ count < Windows
    /\ mass' = [r \in LossRanks |-> [i \in Microbatches |-> 0]]
    /\ size' = n /\ j' = 0
    /\ grad' = [r \in LossRanks |-> [i \in Microbatches |-> NoWeight]]
    /\ window' = "window" /\ count' = count + 1
    /\ UNCHANGED denominator

\* HF divides each loss by the window's size; DDP averages over the ranks at its end.
Backward(old, weight) ==
    LET i == j + 1
        new == [r \in LossRanks |-> [old[r] EXCEPT ![i] = Times(weight, <<1, size>>)]]
    IN  IF i = size
        THEN [r \in LossRanks |-> [k \in Microbatches |-> Times(new[r][k], <<1, LossWorld>>)]]
        ELSE new

\* Mutant: the window's denominator outlives it.
MicrobatchKeeping(m) ==
    /\ window = "window" /\ AcrossRanks(m) > 0
    /\ LET i == j + 1
           d == denominator + AcrossRanks(m)
           old == IF denominator = 0 THEN grad
                  ELSE [r \in LossRanks |-> [k \in Microbatches |-> Times(grad[r][k], <<denominator, d>>)]]
       IN  /\ mass' = [r \in LossRanks |-> [mass[r] EXCEPT ![i] = m[r]]]
           /\ grad' = Backward(old, <<LossWorld * size, d>>)
           /\ denominator' = d
           /\ window' = IF i = size THEN "applied" ELSE "window"
    /\ j' = j + 1
    /\ UNCHANGED <<size, count>>

\* The next microbatch has m[r] completion tokens on rank r, and at least one somewhere.
Microbatch(m) ==
    /\ window = "window" /\ AcrossRanks(m) > 0
    /\ LET i == j + 1
           d == denominator + AcrossRanks(m)
           old == IF denominator = 0 THEN grad
                  ELSE [r \in LossRanks |-> [k \in Microbatches |-> Times(grad[r][k], <<denominator, d>>)]]
       IN  /\ mass' = [r \in LossRanks |-> [mass[r] EXCEPT ![i] = m[r]]]
           /\ grad' = Backward(old, <<LossWorld * size, d>>)
           /\ denominator' = IF i = size THEN 0 ELSE d
           /\ window' = IF i = size THEN "applied" ELSE "window"
    /\ j' = j + 1
    /\ UNCHANGED <<size, count>>

\* A step raises in mid-window, on all ranks if a microbatch has no token anywhere; the
\* window's state is reset, its gradients are not.
Raise ==
    /\ window = "window"
    /\ window' = "raised" /\ denominator' = 0
    /\ UNCHANGED <<mass, size, j, grad, count>>

LossNext ==
    \/ \E n \in Microbatches : BeginWindow(n)
    \/ \E m \in [LossRanks -> 0 .. MaxMass] : Microbatch(m)
    \/ Raise

LossSpec == LossInit /\ [][LossNext]_lossVars

-----------------------------------------------------------------------------
(* The other way *)

\* The weight of every token in an SFT step: the loss is divided by the tokens of the
\* window on all ranks and multiplied by the ranks, over which DDP averages.
GlobalToken == Times(Times(<<1, Total>>, <<LossWorld, 1>>), <<1, LossWorld>>)

-----------------------------------------------------------------------------
(* Properties *)

\* The gradient of an OPD step is the mean over the tokens of its window, as in an SFT step
\* over the same tokens: however these are spread over microbatches and ranks, in a
\* window that is shorter than the others, and after a window that raised.
GradientIsTokenMean ==
    window = "applied" =>
        \A r \in LossRanks, i \in 1 .. size : Same(grad[r][i], GlobalToken)
=============================================================================
