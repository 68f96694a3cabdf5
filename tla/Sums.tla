-------------------------------- MODULE Sums --------------------------------
(***************************************************************************)
(* Sums of numbers, over sequences and over finite sets.  They have the    *)
(* values of the community modules' folds; a recursive function on 0 .. n  *)
(* is what SumProofs can reason about.                                     *)
(***************************************************************************)
EXTENDS Integers, Sequences, FiniteSets, SequencesExt

\* f[1] + ... + f[n]
SumTo(f, n) ==
  LET sum[i \in 0 .. n] == IF i = 0 THEN 0 ELSE sum[i - 1] + f[i]
  IN  sum[n]

\* The sum of f[x] over the elements x of S, in any order.
SumOver(S, f) ==
  LET seq == SetToSeq(S)
  IN  SumTo([i \in 1 .. Cardinality(S) |-> f[seq[i]]], Cardinality(S))
=============================================================================
