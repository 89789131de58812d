-------------------------- MODULE MCPayoutRecords --------------------------
(***************************************************************************)
(* Small instances of the plan and payout records: p is a classic plan, q  *)
(* an escrowed one.  pay1 and pay2 are payments for p, and pay2 matches q  *)
(* as well (the same recipient and amount); rel is a release of q.  again  *)
(* is another spelling of the hash of pay2.                                *)
(***************************************************************************)
EXTENDS PayoutRecords, TLC

CONSTANTS p, q, pay1, pay2, rel, again, r1, r2

MCCovers ==
    [t \in Payments \cup Releases |->
        IF t = pay1 THEN {p} ELSE IF t = pay2 THEN {p, q} \cap Plans ELSE {q} \cap Plans]

MCNamed == [h \in Hashes |-> IF h = again THEN pay2 ELSE h]

\* The requests run the same handlers.
MCSymmetry == Permutations({r1, r2})
=============================================================================
