--------------------------- MODULE MCBaktiEscrow ---------------------------
(* A small instance of the escrow contract and its accounts for TLC. *)
EXTENDS BaktiEscrow

CONSTANTS son, mother

MCFunds == [a \in {son, mother} |-> IF a = son THEN 3 ELSE 0]
MCAmounts == {-1, 0, 1, 2}
MCMonths == {0, 1, 2}
MCFirstDues == {1, 4}
=============================================================================
