------------------------------ MODULE Statistics ------------------------------
(***************************************************************************)
(* The arithmetic of comparison.py: percentiles of timings, the p-value of *)
(* a paired comparison, and the order in which scorers take their turns.   *)
(* Quantiles are given in hundredths, and so are the percentiles.          *)
(***************************************************************************)
EXTENDS Integers, Sequences, FiniteSets, SequencesExt, FiniteSetsExt, Combinatorics, TLC

ScorerKeys == <<"semantic", "semantic-independent", "letters", "generated">>

Percentile(values, hundredths) ==
  LET ordered == SortSeq(values, LAMBDA a, b : a < b)
      position == hundredths * (Len(values) - 1)
      lower == position \div 100
      fraction == position % 100
  IN IF fraction = 0 THEN 100 * ordered[lower + 1]
     ELSE ordered[lower + 1] * (100 - fraction) + ordered[lower + 2] * fraction

(* Faulty: one tail only, and doubled when both are the same. *)
PValueDoubled(left, right) ==
  2 * MapThenSumSet(LAMBDA k : choose(left + right, k), 0 .. Min({left, right}))

(* The exact two-sided binomial p-value, times 2^(left + right).           *)
PValue(left, right) ==
  LET tail == MapThenSumSet(LAMBDA k : choose(left + right, k), 0 .. Min({left, right}))
  IN IF left + right = 0 THEN 1 ELSE Min({2 ^ (left + right), 2 * tail})

Rotate(offset) ==
  LET amount == offset % Len(ScorerKeys)
  IN SubSeq(ScorerKeys, amount + 1, Len(ScorerKeys)) \o SubSeq(ScorerKeys, 1, amount)
=============================================================================
