---------------------------- MODULE PaymentBook ----------------------------
(***************************************************************************)
(* The abstract promise of the server's plans and payments: a book of      *)
(* payments, to which only lines are added.  A line names, by some text, a *)
(* transaction that was applied and pays the line's plan, is written while *)
(* the plan is active and for a month that has come.  No text has two      *)
(* lines, and a release, whose hash is computed, has no other text.  A     *)
(* plan is active or paused until it is ended, once and for all.           *)
(***************************************************************************)
EXTENDS Integers

CONSTANTS
    Plans,
    Payments,
    Releases,
    Hashes,  \* the texts
    Named,   \* the transaction a text names
    Pays    \* the plans that a transaction pays

Txs == Payments \cup Releases

VARIABLES
    month,
    status,    \* of each plan
    applied,   \* the transactions that took effect
    book       \* the lines

vars == <<month, status, applied, book>>

Init ==
    /\ month = 1
    /\ status = [p \in Plans |-> "absent"]
    /\ applied = {}
    /\ book = {}

NextMonth == month' = month + 1 /\ UNCHANGED <<status, applied, book>>

Move(p, from, to) ==
    /\ status[p] = from
    /\ status' = [status EXCEPT ![p] = to]
    /\ UNCHANGED <<month, applied, book>>

OpenPlan(p) == Move(p, "absent", "active")
Pause(p) == Move(p, "active", "paused")
Resume(p) == Move(p, "paused", "active")
End(p) == \E from \in {"active", "paused"} : Move(p, from, "ended")

Apply(t) ==
    /\ t \notin applied
    /\ applied' = applied \cup {t}
    /\ UNCHANGED <<month, status, book>>

WriteLine(p, h) ==
    /\ status[p] = "active"
    /\ Named[h] \in applied /\ p \in Pays[Named[h]]
    /\ \A line \in book :
           /\ line.tx # h
           /\ Named[h] \notin Payments => Named[line.tx] # Named[h]
    /\ \E m \in 1 .. month :
           book' = book \cup {[plan |-> p, period |-> m, tx |-> h]}
    /\ UNCHANGED <<month, status, applied>>

Next ==
    \/ NextMonth
    \/ \E p \in Plans : OpenPlan(p) \/ Pause(p) \/ Resume(p) \/ End(p)
    \/ \E t \in Txs : Apply(t)
    \/ \E p \in Plans, h \in Hashes : WriteLine(p, h)

Spec == Init /\ [][Next]_vars
=============================================================================
