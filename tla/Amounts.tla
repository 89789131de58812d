------------------------------ MODULE Amounts ------------------------------
(***************************************************************************)
(* Amounts of money as text and as stroops: lib/amount.ts.                 *)
(*                                                                         *)
(* A text is the number it spells: a sign, a whole part, and so many       *)
(* places after the point; the commas, spaces and underscores that are     *)
(* taken out first are not in it.  The empty text and a lone point spell   *)
(* zero.                                                                   *)
(***************************************************************************)
EXTENDS Sums

CONSTANTS
    DECIMALS,       \* 7
    NotAnAmount,    \* what is thrown
    Malformed,      \* a text that is no decimal
    Wholes,         \* bound: the whole parts tried
    Totals,         \* bound: the totals split
    ShareLists      \* bound: the lists of percentages

ASSUME DecimalsAssumption == DECIMALS \in Nat \ {0}
ASSUME WholesAssumption == Wholes \subseteq Nat
ASSUME MalformedAssumption ==
    Malformed \notin [neg : BOOLEAN, whole : Nat, places : Nat, frac : Nat]

\* Powers of ten.
Pow10[n \in Nat] == IF n = 0 THEN 1 ELSE 10 * Pow10[n - 1]

STROOPS == Pow10[DECIMALS]

Signed(neg, n) == IF neg THEN -n ELSE n

\* toStroops.
\* (mutant) digits beyond the last place are cut off.
ToStroopsTruncated(text) ==
    IF text = Malformed THEN NotAnAmount
    ELSE Signed(text.neg,
                text.whole * STROOPS + (text.frac * STROOPS) \div Pow10[text.places])
ToStroops(text) ==
    IF text = Malformed \/ text.places > DECIMALS THEN NotAnAmount
    ELSE Signed(text.neg,
                text.whole * STROOPS + text.frac * Pow10[DECIMALS - text.places])

\* fromStroops: as many places as are needed.
Places(frac) == CHOOSE p \in 0..DECIMALS :
    /\ frac % Pow10[DECIMALS - p] = 0
    /\ \A q \in 0..(p - 1) : frac % Pow10[DECIMALS - q] # 0

FromStroops(s) ==
    LET abs  == IF s < 0 THEN -s ELSE s
        frac == abs % STROOPS
        p    == Places(frac)
    IN [neg |-> s < 0, whole |-> abs \div STROOPS,
        places |-> p, frac |-> frac \div Pow10[DECIMALS - p]]

\* allocateByShares: each share rounded down, and the last one gets the rest.
\* (mutant) each share rounded down.
AllocateByShares_NoRest(total, shares) ==
    [i \in DOMAIN shares |-> (total * shares[i]) \div 100]
AllocateByShares(total, shares) ==
    LET out == [i \in DOMAIN shares |-> (total * shares[i]) \div 100]
    IN IF shares = <<>> THEN out
       ELSE [out EXCEPT ![Len(shares)] = @ + (total - Sum(out))]

\* What allocateByShares is for: percentages that make up the whole.
ASSUME SharesAssumption ==
    /\ Totals \subseteq Nat
    /\ \A shares \in ShareLists : shares \in Seq(Nat) /\ Sum(shares) = 100

-----------------------------------------------------------------------------
\* The decimals tried: up to one place more than stroops have.
Texts ==
    UNION {[neg : BOOLEAN, whole : Wholes, places : {p},
            frac : 0..(Pow10[p] - 1)] : p \in 0..(DECIMALS + 1)}

\* An amount keeps its value from the form to stroops and back to the text that
\* the database keeps: what is written of an amount and read again is the same
\* amount, in the shortest way to write it; and a decimal is worth exactly what
\* it spells, or refused because it has more places than stroops (toStroops,
\* fromStroops).
ConversionsAreExact ==
    /\ \A s \in -(2 * STROOPS)..(2 * STROOPS) : ToStroops(FromStroops(s)) = s
    /\ \A t \in Texts :
           LET s == ToStroops(t) IN
           IF t.places > DECIMALS THEN s = NotAnAmount
           ELSE /\ s * Pow10[t.places] = Signed(t.neg, t.whole * Pow10[t.places] + t.frac) * STROOPS
                /\ FromStroops(s).places <= t.places

\* Percentages that make up 100 split a total completely: each part is what its
\* share rounds down to, and the last takes less than a stroop per other part on
\* top (allocateByShares, which the tests call and no page calls yet).
SplitsAreComplete ==
    \A total \in Totals, shares \in ShareLists :
        LET parts == AllocateByShares(total, shares) IN
        /\ Sum(parts) = total
        /\ \A i \in DOMAIN parts :
               LET over == 100 * parts[i] - total * shares[i] IN
               IF i < Len(parts) THEN over \in -99..0
               ELSE over \in 0..(99 * (Len(parts) - 1))
=============================================================================
