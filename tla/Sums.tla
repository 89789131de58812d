-------------------------------- MODULE Sums --------------------------------
(***************************************************************************)
(* Sums of the numbers of a sequence, part by part: what a reduce of       *)
(* lib/amount.ts computes, and what a contract with one balance owes.      *)
(***************************************************************************)
EXTENDS Integers, Sequences

SumUpTo(parts) ==
    LET sum[i \in 0..Len(parts)] == IF i = 0 THEN 0 ELSE sum[i - 1] + parts[i]
    IN sum

\* reduce((a, b) => a + b, 0).
Sum(parts) == SumUpTo(parts)[Len(parts)]
=============================================================================
