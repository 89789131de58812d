--------------------------- MODULE StandingOrder ---------------------------
(***************************************************************************)
(* The abstract promise of a pre-funded standing order: each order has its *)
(* own pot, filled once by its sender with months * monthly_amount, out of *)
(* which its recipient gets monthly_amount at most months times, the k-th  *)
(* time no earlier than first_due_ledger + (k - 1) * Gap.  Nothing else    *)
(* touches a pot, and an order's terms never change.                       *)
(***************************************************************************)
EXTENDS Integers

CONSTANTS
    People,   \* whose wallets the promise is about
    House,    \* who keeps the pots; it may also be the recipient of an order
    NoOrder,  \* the terms of an order not placed yet
    Gap,      \* between two due dates of an order
    Numbers   \* of orders

VARIABLES
    clock,
    wallet,   \* what each person holds
    order,    \* the terms of each order
    paid,     \* how many periods of each order have been paid
    pot       \* what is left of each order's pre-payment

vars == <<clock, wallet, order, paid, pot>>

Init ==
    /\ clock = 0
    /\ wallet \in [People -> Nat]
    /\ order = [n \in Numbers |-> NoOrder]
    /\ paid = [n \in Numbers |-> 0]
    /\ pot = [n \in Numbers |-> 0]

\* The sender fills a new pot from its own wallet.
Place(n) ==
    LET o == order'[n]
        total == o.monthly_amount * o.months
    IN
    /\ order[n] = NoOrder /\ o # NoOrder
    /\ o.sender \in People /\ o.recipient \in People \cup {House}
    /\ total > 0 /\ total <= wallet[o.sender]
    /\ order' = [order EXCEPT ![n] = o]
    /\ pot' = [pot EXCEPT ![n] = total]
    /\ wallet' = [wallet EXCEPT ![o.sender] = @ - total]
    /\ UNCHANGED <<clock, paid>>

\* One more period is due and is paid, out of this order's own pot.
Pay(n) ==
    LET o == order[n] IN
    /\ o # NoOrder
    /\ paid[n] < o.months
    /\ clock >= o.first_due_ledger + paid[n] * Gap
    /\ o.monthly_amount <= pot[n]
    /\ paid' = [paid EXCEPT ![n] = @ + 1]
    /\ pot' = [pot EXCEPT ![n] = @ - o.monthly_amount]
    /\ wallet' = IF o.recipient = House THEN wallet
                 ELSE [wallet EXCEPT ![o.recipient] = @ + o.monthly_amount]
    /\ UNCHANGED <<clock, order>>

Tick == clock' = clock + 1 /\ UNCHANGED <<wallet, order, paid, pot>>

\* Somebody pays somebody else, or gives money to the house.
Spend(p, q) ==
    LET amount == wallet[p] - wallet'[p] IN
    /\ amount > 0 /\ p # q
    /\ wallet' = IF q = House THEN [wallet EXCEPT ![p] = @ - amount]
                 ELSE [wallet EXCEPT ![p] = @ - amount, ![q] = @ + amount]
    /\ UNCHANGED <<clock, order, paid, pot>>

Next ==
    \/ \E n \in Numbers : Place(n) \/ Pay(n)
    \/ Tick
    \/ \E p \in People, q \in People \cup {House} : Spend(p, q)

Spec == Init /\ [][Next]_vars
=============================================================================
