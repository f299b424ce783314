------------------------------- MODULE Totals -------------------------------
(***************************************************************************)
(* Sums over sequences of numbers: of tokens over the rows of a call or    *)
(* the moves of a trace, of bytes over the entries of a cache.             *)
(***************************************************************************)
EXTENDS Integers, Sequences

(* The sum of the first n numbers, for every n. *)
Totals(a) ==
  LET sum[n \in 0 .. Len(a)] == IF n = 0 THEN 0 ELSE sum[n - 1] + a[n]
  IN  sum

Total(a) == Totals(a)[Len(a)]
=============================================================================
