---------------------------- MODULE MCEscrowFlow ----------------------------
(***************************************************************************)
(* A son who pays his mother out of an escrow, through one or two server   *)
(* processes.  He can afford one schedule of two periods, or two of one.   *)
(***************************************************************************)
EXTENDS EscrowFlow, TLC

CONSTANTS son, mother, r1, r2, s1, s2, c1, c2, x1, x2

MCFunds == [a \in {son, mother} |-> IF a = son THEN 2 ELSE 0]
MCAmounts == {1}
MCOneMonth == {1}
MCTwoMonths == {2}
MCFirstDues == {0, 1}

\* The requests run the same handlers; so do the processes.  Transactions of
\* one kind are numbered only by the account's sequence.
MCSymmetry ==
    Permutations({r1, r2}) \cup Permutations({s1, s2})
        \cup Permutations({c1, c2}) \cup Permutations({x1, x2})
=============================================================================
