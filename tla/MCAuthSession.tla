--------------------------- MODULE MCAuthSession ---------------------------
(***************************************************************************)
(* Two wallets and one challenge at a time, verified by two requests at    *)
(* once; one session more than they can make of one challenge.             *)
(***************************************************************************)
EXTENDS AuthSession, TLC

CONSTANTS son, mother, n1, r1, r2, s1, s2, s3

MCSymmetry ==
    Permutations({son, mother})
        \cup Permutations({r1, r2}) \cup Permutations({s1, s2, s3})
=============================================================================
