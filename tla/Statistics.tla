------------------------------ MODULE Statistics ------------------------------
(***************************************************************************)
(* The stochastic classification of src/engine/statistics.rs.  Trials are  *)
(* counted, so the one-sided Fisher exact probability is a rational number *)
(* and is compared with alpha exactly; the code sums exponentials of f64   *)
(* logarithms and may land on the other side of a p-value equal to alpha.  *)
(***************************************************************************)
EXTENDS Naturals, FiniteSetsExt, Combinatorics

CONSTANTS AlphaNum, AlphaDen    \* stochastic_alpha = AlphaNum / AlphaDen

\* "stochastic_alpha must be strictly between 0 and 1"
ASSUME AlphaAssumption ==
    AlphaNum \in Nat \ {0} /\ AlphaDen \in Nat /\ AlphaNum < AlphaDen

\* Faulty: the sum leaves out the table that was observed.
FisherTailBeyond(a, b, c, d) ==
    LET changed == a + c
        most == IF changed <= c + d THEN changed ELSE c + d
    IN  MapThenSumSet(
            LAMBDA x : choose(c + d, x) * choose(a + b, changed - x),
            {x \in (c + 1)..most : changed - x <= a + b})

\* Ways to place a + c changed trials among all trials with c or more of them
\* in the variant group, a of b + a and c of c + d being what was observed.
FisherTail(a, b, c, d) ==
    LET changed == a + c
        most == IF changed <= c + d THEN changed ELSE c + d
    IN  MapThenSumSet(
            LAMBDA x : choose(c + d, x) * choose(a + b, changed - x),
            {x \in c..most : changed - x <= a + b})

\* fisher_exact_greater(a, b, c, d) <= alpha.  An empty group gives p = 1.
FisherAtMostAlpha(a, b, c, d) ==
    /\ a + b > 0
    /\ c + d > 0
    /\ FisherTail(a, b, c, d) * AlphaDen
          <= AlphaNum * choose(a + b + c + d, a + c)

\* Faulty: a departure in either group makes the baseline unstable.
ClassificationOfAll(bc, bt, vc, vt) ==
    CASE bc + vc > 0 -> "baseline_unstable"
      [] OTHER -> "not_supported"

\* assess_stochastic_effect(...).classification: `bc` of `bt` baseline trials
\* and `vc` of `vt` variant trials departed from the control artifacts.
Classification(bc, bt, vc, vt) ==
    CASE bc > 0 -> "baseline_unstable"
      [] bc = 0 /\ vc > 0 /\ FisherAtMostAlpha(bc, bt - bc, vc, vt - vc)
            -> "supported"
      [] OTHER -> "not_supported"
===============================================================================
