------------------------- MODULE BaktiEscrowProofs -------------------------
(***************************************************************************)
(* Theorems about the escrow contract, for every value of its constants:   *)
(* terms, calendars and types first; then that it is solvent; then that    *)
(* its pooled balance behaves like one pot per schedule, that is, that it  *)
(* implements StandingOrder.                                               *)
(***************************************************************************)
EXTENDS BaktiEscrow, SumsProofs

USE DEF Parties, Ids, U32, Total, Due

\* Id 0 is only handed out once the contract is initialized, so initialize,
\* which resets NextId, can never make it reuse one.
FreshCounter == admin = NoAdmin => nextId = 0

\* Every stored schedule has its history record.
TermsRecorded == \A id \in Ids : Created(id) <=> terms[id] # NoSchedule

IInv ==
    /\ TypeOK
    /\ FreshCounter
    /\ TermsRecorded
    /\ TermsKept
    /\ DueDatesNeverDrift
    /\ NeverPaidEarly

\* A positive amount for a positive number of months is a positive total.
LEMMA PositiveTotal ==
    ASSUME NEW a \in Nat \ {0}, NEW m \in Nat \ {0}
    PROVE  a * m \in Nat \ {0}
  OBVIOUS

\* One more released period moves the due ledger by one period.
LEMMA NextPeriod ==
    ASSUME NEW f \in Nat, NEW k \in Nat, NEW g \in Nat
    PROVE  /\ f + ((k + 1) - 1) * g = f + k * g
           /\ f + ((k + 2) - 1) * g = f + k * g + g
           /\ f + (k - 1) * g \in Int
           /\ f + k * g \in Nat
  OBVIOUS

\* Moving money between parties that can afford it keeps all balances natural.
LEMMA MovedType ==
    ASSUME balance \in [Parties -> Nat],
           NEW p \in Parties, NEW q \in Parties, NEW n \in Nat, balance[p] >= n
    PROVE  Moved(p, q, n) \in [Parties -> Nat]
  <1>1. [balance EXCEPT ![p] = @ - n] \in [Parties -> Nat]
    OBVIOUS
  <1> QED
    BY <1>1 DEF Moved

\* What release writes back is a schedule with the same terms, one period and
\* one gap further.
LEMMA AfterReleaseFields ==
    ASSUME NEW s \in Schedule, s.periods_released < s.months,
           AfterRelease(s).next_due_ledger <= MaxU32
    PROVE  /\ AfterRelease(s) \in Schedule
           /\ AfterRelease(s).sender = s.sender
           /\ AfterRelease(s).recipient = s.recipient
           /\ AfterRelease(s).monthly_amount = s.monthly_amount
           /\ AfterRelease(s).months = s.months
           /\ AfterRelease(s).periods_released = s.periods_released + 1
           /\ AfterRelease(s).next_due_ledger = s.next_due_ledger + LedgersPerPeriod
  <1>1. /\ AfterRelease(s).periods_released = s.periods_released + 1
        /\ AfterRelease(s).next_due_ledger = s.next_due_ledger + LedgersPerPeriod
        /\ AfterRelease(s).sender = s.sender
        /\ AfterRelease(s).recipient = s.recipient
        /\ AfterRelease(s).monthly_amount = s.monthly_amount
        /\ AfterRelease(s).months = s.months
    BY DEF AfterRelease, Schedule
  <1>2. s.periods_released + 1 \in U32
    BY WidthAssumption DEF Schedule
  <1>3. s.next_due_ledger + LedgersPerPeriod \in U32
    BY <1>1, WidthAssumption DEF Schedule
  <1>4. AfterRelease(s) \in Schedule
    BY <1>2, <1>3 DEF AfterRelease, Schedule
  <1> QED
    BY <1>1, <1>4

\* Every reachable state is well typed (all operations of the contract).
LEMMA TypeInit == Init => TypeOK
  BY FundsAssumption, BoundAssumption, EscrowIsNoAccount DEF Init, TypeOK

LEMMA TypeStep == TypeOK /\ [Next]_vars => TypeOK'
  <1> SUFFICES ASSUME TypeOK, [Next]_vars PROVE TypeOK'
    OBVIOUS
  <1> USE DEF TypeOK
  <1>1. ASSUME NEW a \in Accounts, Initialize(a) PROVE TypeOK'
    BY <1>1, BoundAssumption DEF Initialize
  <1>2. ASSUME NEW s \in Accounts, NEW r \in Parties, NEW amt \in Amounts,
               NEW m \in MonthCounts, NEW d \in FirstDues,
               CreateSchedule(s, r, amt, m, d)
        PROVE TypeOK'
    <2>0. amt \in Nat \ {0} /\ m \in U32 \ {0} /\ d \in U32
      BY <1>2, ArgumentAssumption, WidthAssumption DEF CreateSchedule
    <2>1. amt * m \in Nat
      BY <2>0, WidthAssumption, PositiveTotal
    <2>2. balance' \in [Parties -> Nat]
      BY <1>2, <2>1, MovedType DEF CreateSchedule, CanMove
    <2>3. nextId \in Ids /\ nextId' \in 0 .. MaxSchedules
      BY <1>2, BoundAssumption DEF CreateSchedule
    <2>4. schedules' \in [Ids -> Schedule \cup {NoSchedule}]
      BY <1>2, <2>0, <2>3, WidthAssumption DEF CreateSchedule, Schedule
    <2>5. terms' \in [Ids -> Terms \cup {NoSchedule}]
      BY <1>2, <2>0, <2>3 DEF CreateSchedule, Terms
    <2> QED
      BY <1>2, <2>2, <2>3, <2>4, <2>5 DEF CreateSchedule
  <1>3. ASSUME NEW id \in Ids, NEW c \in Accounts, Release(id, c) PROVE TypeOK'
    <2>1. schedules[id] \in Schedule
      BY <1>3 DEF Release
    <2>2. balance' \in [Parties -> Nat]
      BY <1>3, <2>1, MovedType DEF Release, CanMove, Schedule
    <2>3. AfterRelease(schedules[id]) \in Schedule
      BY <1>3, <2>1, AfterReleaseFields DEF Release
    <2> QED
      BY <1>3, <2>2, <2>3 DEF Release
  <1>4. ASSUME CloseLedger PROVE TypeOK'
    BY <1>4, BoundAssumption DEF CloseLedger
  <1>5. ASSUME NEW a \in Accounts, OpenAccount(a) PROVE TypeOK'
    BY <1>5 DEF OpenAccount
  <1>6. ASSUME NEW a \in Accounts, NEW p \in Parties, NEW amt \in Amounts,
               TransferToken(a, p, amt)
        PROVE TypeOK'
    <2>1. amt \in Nat
      BY <1>6, ArgumentAssumption DEF TransferToken
    <2> QED
      BY <1>6, <2>1, MovedType DEF TransferToken, CanMove
  <1>7. CASE UNCHANGED vars
    BY <1>7 DEF vars
  <1> QED
    BY <1>1, <1>2, <1>3, <1>4, <1>5, <1>6, <1>7 DEF Next

THEOREM TypeCorrect == Spec => []TypeOK
  BY TypeInit, TypeStep, PTL DEF Spec

-----------------------------------------------------------------------------
(***************************************************************************)
(* The inductive invariant.  DueDatesNeverDrift ties the stored due ledger *)
(* to the agreed calendar; NeverPaidEarly then follows from the NotDueYet  *)
(* guard; FreshCounter is what keeps ids from being reused.                *)
(***************************************************************************)
LEMMA InvInit == Init => IInv
  <1> SUFFICES ASSUME Init PROVE IInv
    OBVIOUS
  <1>1. TypeOK
    BY TypeInit
  <1>2. \A id \in Ids : ~Created(id) /\ ~(id < nextId)
    BY BoundAssumption DEF Init, Created
  <1> QED
    BY <1>1, <1>2 DEF Init, IInv, FreshCounter, TermsRecorded, TermsKept, DueDatesNeverDrift, NeverPaidEarly

\* A stored schedule and its history record are numbers, never the placeholder.
LEMMA TermsAreNatural ==
    ASSUME TypeOK, TermsRecorded, NEW id \in Ids, Created(id)
    PROVE  /\ schedules[id] \in Schedule
           /\ terms[id] \in Terms
           /\ terms[id].first_due_ledger \in Nat
           /\ schedules[id].periods_released \in Nat
           /\ schedules[id].months \in Nat \ {0}
           /\ schedules[id].monthly_amount \in Nat \ {0}
           /\ LedgersPerPeriod \in Nat
  BY WidthAssumption DEF TypeOK, TermsRecorded, Created, Schedule, Terms

LEMMA CreateKeepsInv ==
    ASSUME IInv, TypeOK', NEW s \in Accounts, NEW r \in Parties, NEW amt \in Amounts,
           NEW m \in MonthCounts, NEW d \in FirstDues, CreateSchedule(s, r, amt, m, d)
    PROVE  IInv'
  <1> USE DEF IInv
  <1>1. nextId \in Ids /\ nextId' = nextId + 1
    BY BoundAssumption DEF CreateSchedule, TypeOK
  <1>2. /\ schedules'[nextId].sender = terms'[nextId].sender
        /\ schedules'[nextId].recipient = terms'[nextId].recipient
        /\ schedules'[nextId].monthly_amount = terms'[nextId].monthly_amount
        /\ schedules'[nextId].months = terms'[nextId].months
        /\ schedules'[nextId].periods_released = 0
        /\ schedules'[nextId].next_due_ledger = terms'[nextId].first_due_ledger
    BY <1>1 DEF CreateSchedule, TypeOK
  <1>3. schedules'[nextId] \in Schedule /\ terms'[nextId] \in Terms
    <2>1. amt \in Nat \ {0} /\ m \in U32 \ {0} /\ d \in U32
      BY ArgumentAssumption, WidthAssumption DEF CreateSchedule
    <2> QED
      BY <1>1, <2>1, WidthAssumption DEF CreateSchedule, TypeOK, Schedule, Terms
  <1>4. \A id \in Ids \ {nextId} :
           schedules'[id] = schedules[id] /\ terms'[id] = terms[id]
    BY <1>1 DEF CreateSchedule, TypeOK
  <1>5. schedules'[nextId] # NoSchedule
    BY <1>3, NoScheduleAssumption
  <1>6. TermsKept'
    BY <1>1, <1>2, <1>4, <1>5 DEF TermsKept, Created, TypeOK
  <1>7. DueDatesNeverDrift'
    <2> SUFFICES ASSUME NEW id \in Ids, Created(id)'
                 PROVE  /\ schedules'[id].periods_released <= schedules'[id].months
                        /\ schedules'[id].next_due_ledger
                              = terms'[id].first_due_ledger
                                + ((schedules'[id].periods_released + 1) - 1) * LedgersPerPeriod
      BY DEF DueDatesNeverDrift, DueLedger
    <2>1. CASE id = nextId
      BY <2>1, <1>2, <1>3, WidthAssumption, NextPeriod DEF DueLedger, Schedule, Terms
    <2>2. CASE id # nextId
      BY <2>2, <1>4 DEF DueDatesNeverDrift, Created, DueLedger
    <2> QED
      BY <2>1, <2>2
  <1>8. NeverPaidEarly'
    <2> SUFFICES ASSUME NEW id \in Ids, Created(id)', schedules'[id].periods_released > 0
                 PROVE  ledger' >= terms'[id].first_due_ledger
                                + (schedules'[id].periods_released - 1) * LedgersPerPeriod
      BY DEF NeverPaidEarly, DueLedger
    <2>1. id # nextId
      BY <1>2
    <2> QED
      BY <2>1, <1>4 DEF NeverPaidEarly, Created, DueLedger, CreateSchedule
  <1>9. TermsRecorded'
    BY <1>3, <1>4, NoScheduleAssumption DEF TermsRecorded, Created
  <1> QED
    BY <1>6, <1>7, <1>8, <1>9 DEF FreshCounter, CreateSchedule

LEMMA ReleaseKeepsInv ==
    ASSUME IInv, TypeOK', NEW id \in Ids, NEW c \in Accounts, Release(id, c)
    PROVE  IInv'
  <1> USE DEF IInv
  <1>1. Created(id) /\ schedules[id] \in Schedule
    BY DEF Release, TypeOK, Created
  <1>2. /\ schedules'[id].sender = schedules[id].sender
        /\ schedules'[id].recipient = schedules[id].recipient
        /\ schedules'[id].monthly_amount = schedules[id].monthly_amount
        /\ schedules'[id].months = schedules[id].months
        /\ schedules'[id].periods_released = schedules[id].periods_released + 1
        /\ schedules'[id].next_due_ledger = schedules[id].next_due_ledger + LedgersPerPeriod
        /\ schedules'[id] \in Schedule
    BY <1>1, AfterReleaseFields DEF Release, TypeOK
  <1>3. \A i \in Ids \ {id} : schedules'[i] = schedules[i]
    BY DEF Release, TypeOK
  <1>4. Created(id)'
    BY <1>2, NoScheduleAssumption DEF Created
  <1>5. UNCHANGED <<ledger, admin, nextId, terms>>
    BY DEF Release
  <1>6. TermsKept'
    BY <1>1, <1>2, <1>3, <1>4, <1>5 DEF TermsKept, Created
  <1>7. DueDatesNeverDrift'
    <2> SUFFICES ASSUME NEW i \in Ids, Created(i)'
                 PROVE  /\ schedules'[i].periods_released <= schedules'[i].months
                        /\ schedules'[i].next_due_ledger
                              = terms'[i].first_due_ledger
                                + ((schedules'[i].periods_released + 1) - 1) * LedgersPerPeriod
      BY DEF DueDatesNeverDrift, DueLedger
    <2>1. CASE i = id
      <3>1. schedules[id].periods_released < schedules[id].months
        BY DEF Release
      <3>2. schedules[id].next_due_ledger = DueLedger(id, schedules[id].periods_released + 1)
        BY <1>1 DEF DueDatesNeverDrift
      <3> QED
        BY <2>1, <3>1, <3>2, <1>1, <1>2, <1>5, TermsAreNatural, WidthAssumption, NextPeriod
           DEF DueLedger, Schedule
    <2>2. CASE i # id
      BY <2>2, <1>3, <1>5 DEF DueDatesNeverDrift, Created, DueLedger
    <2> QED
      BY <2>1, <2>2
  <1>8. NeverPaidEarly'
    <2> SUFFICES ASSUME NEW i \in Ids, Created(i)', schedules'[i].periods_released > 0
                 PROVE  ledger' >= terms'[i].first_due_ledger
                                + (schedules'[i].periods_released - 1) * LedgersPerPeriod
      BY DEF NeverPaidEarly, DueLedger
    <2>1. CASE i = id
      <3>1. ledger >= schedules[id].next_due_ledger
        BY DEF Release
      <3>2. schedules[id].next_due_ledger = DueLedger(id, schedules[id].periods_released + 1)
        BY <1>1 DEF DueDatesNeverDrift
      <3> QED
        BY <2>1, <3>1, <3>2, <1>1, <1>2, <1>5 DEF DueLedger
    <2>2. CASE i # id
      BY <2>2, <1>3, <1>5 DEF NeverPaidEarly, Created, DueLedger
    <2> QED
      BY <2>1, <2>2
  <1> QED
    <2>1. TermsRecorded'
      BY <1>1, <1>3, <1>4, <1>5 DEF TermsRecorded, Created
    <2> QED
      BY <2>1, <1>5, <1>6, <1>7, <1>8 DEF FreshCounter

LEMMA InvStep == IInv /\ [Next]_vars => IInv'
  <1> SUFFICES ASSUME IInv, [Next]_vars PROVE IInv'
    OBVIOUS
  <1>0. TypeOK'
    BY TypeStep DEF IInv
  <1> USE DEF IInv, FreshCounter, TermsRecorded, TermsKept, DueDatesNeverDrift, NeverPaidEarly, Created, DueLedger
  <1>1. ASSUME NEW a \in Accounts, Initialize(a) PROVE IInv'
    BY <1>0, <1>1, NoAdminAssumption DEF Initialize
  <1>2. ASSUME NEW s \in Accounts, NEW r \in Parties, NEW amt \in Amounts,
               NEW m \in MonthCounts, NEW d \in FirstDues,
               CreateSchedule(s, r, amt, m, d)
        PROVE IInv'
    BY <1>0, <1>2, CreateKeepsInv
  <1>3. ASSUME NEW id \in Ids, NEW c \in Accounts, Release(id, c) PROVE IInv'
    BY <1>0, <1>3, ReleaseKeepsInv
  <1>4. ASSUME CloseLedger PROVE IInv'
    <2>1. \A id \in Ids : Created(id) /\ schedules[id].periods_released > 0 =>
             DueLedger(id, schedules[id].periods_released) \in Int
      BY TermsAreNatural, NextPeriod
    <2> QED
      BY <1>0, <1>4, <2>1 DEF CloseLedger, TypeOK
  <1>5. ASSUME NEW a \in Accounts, OpenAccount(a) PROVE IInv'
    BY <1>0, <1>5 DEF OpenAccount
  <1>6. ASSUME NEW a \in Accounts, NEW p \in Parties, NEW amt \in Amounts,
               TransferToken(a, p, amt)
        PROVE IInv'
    BY <1>0, <1>6 DEF TransferToken
  <1>7. CASE UNCHANGED vars
    BY <1>0, <1>7 DEF vars
  <1> QED
    BY <1>1, <1>2, <1>3, <1>4, <1>5, <1>6, <1>7 DEF Next

\* The inductive invariant holds throughout.
THEOREM Invariance == Spec => []IInv
  BY InvInit, InvStep, PTL DEF Spec

\* A stored schedule always is what its sender agreed to (no id reuse, no
\* overwriting, no changed terms), however many schedules and calls there are.
THEOREM TermsAreKept == Spec => []TermsKept
  BY Invariance, PTL DEF IInv

\* Due dates follow the agreed calendar whatever the delays of the callers.
THEOREM NoDrift == Spec => []DueDatesNeverDrift
  BY Invariance, PTL DEF IInv

\* No recipient is ever paid before the period it is paid for is due.
THEOREM NoEarlyPayment == Spec => []NeverPaidEarly
  BY Invariance, PTL DEF IInv

-----------------------------------------------------------------------------
(***************************************************************************)
(* What the contract owes.  The invariant is SInv: what is owed to all     *)
(* schedules together is in the balance, because no step makes the         *)
(* liability grow by more than it puts there.                              *)
(***************************************************************************)
Debts == [k \in 1 .. MaxSchedules |-> Owed(k - 1)]

SInv == IInv /\ Solvent

\* A product with one factor less by one is one factor smaller.
LEMMA OneMonthLess ==
    ASSUME NEW a \in Nat \ {0}, NEW m \in Nat, NEW k \in Nat, k < m
    PROVE  /\ a * (m - (k + 1)) = a * (m - k) - a
           /\ a * (m - k) \in Nat
           /\ a * (m - k) >= a
  <1>1. m - k \in Nat \ {0}
    OBVIOUS
  <1>2. a * (m - (k + 1)) = a * (m - k) - a
    BY <1>1
  <1>3. m - k >= 1 => a * (m - k) >= a
    BY <1>1
  <1> QED
    BY <1>1, <1>2, <1>3

\* What an unfinished schedule is owed is at least one month.
LEMMA OwedType ==
    ASSUME TypeOK, TermsRecorded, DueDatesNeverDrift, NEW id \in Ids
    PROVE  /\ Owed(id) \in Nat
           /\ Created(id) /\ schedules[id].periods_released < schedules[id].months
                 => Owed(id) >= schedules[id].monthly_amount
  <1>1. CASE ~Created(id)
    BY <1>1 DEF Owed
  <1>2. CASE Created(id)
    <2> DEFINE s == schedules[id]
    <2>1. s.monthly_amount \in Nat \ {0} /\ s.months \in Nat /\ s.periods_released \in Nat
      BY <1>2, TermsAreNatural
    <2>2. s.periods_released <= s.months
      BY <1>2 DEF DueDatesNeverDrift
    <2>3. Owed(id) = s.monthly_amount * (s.months - s.periods_released)
      BY <1>2 DEF Owed
    <2>4. CASE s.periods_released < s.months
      BY <2>1, <2>3, <2>4, OneMonthLess
    <2>5. CASE s.periods_released = s.months
      BY <2>1, <2>3, <2>5
    <2> QED
      BY <2>1, <2>2, <2>4, <2>5
  <1> QED
    BY <1>1, <1>2

\* The liability is the sum of natural numbers, of which none exceeds it.
LEMMA LiabilityCovers ==
    ASSUME IInv
    PROVE  Liability \in Nat /\ \A id \in Ids : Owed(id) <= Liability
  <1>1. MaxSchedules \in Nat /\ Liability = Sum(Debts)
    BY BoundAssumption DEF Liability, Debts
  <1>2. Debts \in [1 .. MaxSchedules -> Nat]
    <2>1. \A k \in 1 .. MaxSchedules : k - 1 \in Ids
      BY <1>1
    <2>2. \A id \in Ids : Owed(id) \in Nat
      BY OwedType DEF IInv
    <2> QED
      BY <2>1, <2>2 DEF Debts
  <1>3. Sum(Debts) \in Nat /\ \A k \in 1 .. MaxSchedules : Debts[k] <= Sum(Debts)
    BY <1>1, <1>2, SumCovers
  <1>4. \A id \in Ids : id + 1 \in 1 .. MaxSchedules /\ Debts[id + 1] = Owed(id)
    BY <1>1 DEF Debts
  <1> QED
    BY <1>1, <1>3, <1>4

\* When only one schedule's debt changes, the liability changes by as much.
LEMMA LiabilityFollows ==
    ASSUME NEW id \in Ids, NEW amt \in Int, \A i \in Ids : Owed(i) \in Int,
           \A i \in Ids \ {id} : Owed(i)' = Owed(i), Owed(id)' = Owed(id) + amt
    PROVE  Liability' = Liability + amt
  <1>1. /\ MaxSchedules \in Nat /\ id + 1 \in 1 .. MaxSchedules
        /\ \A k \in 1 .. MaxSchedules : k - 1 \in Ids
    BY BoundAssumption
  <1>2. Debts \in [1 .. MaxSchedules -> Int]
    BY <1>1 DEF Debts
  <1>3. /\ Debts'[id + 1] = Debts[id + 1] + amt
        /\ \A k \in 1 .. MaxSchedules : k # id + 1 => Debts'[k] = Debts[k]
    BY <1>1 DEF Debts
  <1>4. Debts' \in [1 .. MaxSchedules -> Int]
    <2>1. \A k \in 1 .. MaxSchedules : Debts'[k] \in Int
      BY <1>2, <1>3
    <2>2. Debts' = [k \in 1 .. MaxSchedules |-> Debts'[k]]
      BY DEF Debts
    <2> QED
      BY <2>1, <2>2
  <1>5. Liability = Sum(Debts) /\ Liability' = Sum(Debts')
    BY DEF Liability, Debts
  <1> DEFINE p == Debts
             q == Debts'
  <1> HIDE DEF p, q
  <1>6. /\ p \in [1 .. MaxSchedules -> Int] /\ q \in [1 .. MaxSchedules -> Int]
        /\ q[id + 1] = p[id + 1] + amt
        /\ \A k \in 1 .. MaxSchedules : k # id + 1 => q[k] = p[k]
    BY <1>2, <1>3, <1>4 DEF p, q
  <1>7. Sum(q) = Sum(p) + amt
    BY <1>1, <1>6, SumOfChanged
  <1> QED
    BY <1>5, <1>7 DEF p, q

LEMMA SolventInit == Init => SInv
  <1> SUFFICES ASSUME Init PROVE SInv
    OBVIOUS
  <1>1. IInv
    BY InvInit
  <1>2. MaxSchedules \in Nat /\ \A k \in 1 .. MaxSchedules : k - 1 \in Ids
    BY BoundAssumption
  <1>3. \A id \in Ids : Owed(id) = 0
    BY DEF Init, Owed, Created
  <1>4. Debts \in [1 .. MaxSchedules -> Int] /\ \A k \in 1 .. MaxSchedules : Debts[k] = 0
    BY <1>2, <1>3 DEF Debts
  <1>5. Sum(Debts) = 0
    BY <1>2, <1>4, SumOfNothing
  <1>6. balance[Escrow] = 0
    BY DEF Init
  <1> QED
    BY <1>1, <1>5, <1>6 DEF SInv, Solvent, Liability, Debts

LEMMA CreateKeepsSolvent ==
    ASSUME SInv, IInv', NEW s \in Accounts, NEW r \in Parties, NEW amt \in Amounts,
           NEW m \in MonthCounts, NEW d \in FirstDues, CreateSchedule(s, r, amt, m, d)
    PROVE  Solvent'
  <1>1. amt \in Nat \ {0} /\ m \in Nat \ {0}
    BY ArgumentAssumption, WidthAssumption DEF CreateSchedule
  <1> DEFINE total == amt * m
  <1>2. total \in Nat \ {0}
    BY <1>1, PositiveTotal
  <1>3. PICK n \in Ids : n = nextId
    BY BoundAssumption DEF CreateSchedule, SInv, IInv, TypeOK
  <1>4. balance'[Escrow] = balance[Escrow] + total
    BY <1>1, EscrowIsNoAccount DEF CreateSchedule, Moved, SInv, IInv, TypeOK
  <1>5. \A id \in Ids \ {n} : Owed(id)' = Owed(id)
    BY <1>3 DEF CreateSchedule, Owed, Created, SInv, IInv, TypeOK
  <1>6. Owed(n) = 0
    BY <1>3, BoundAssumption DEF Owed, SInv, IInv, TermsKept
  <1>7. Owed(n)' = total
    <2>1. schedules'[n].monthly_amount = amt /\ schedules'[n].months = m
          /\ schedules'[n].periods_released = 0
      BY <1>3 DEF CreateSchedule, SInv, IInv, TypeOK
    <2>2. Created(n)'
      BY <1>3, BoundAssumption DEF CreateSchedule, IInv, TermsKept
    <2> QED
      BY <1>1, <2>1, <2>2 DEF Owed
  <1>8. \A id \in Ids : Owed(id) \in Int
    BY OwedType DEF SInv, IInv
  <1> HIDE DEF total
  <1>9. Liability' = Liability + total
    <2>1. total \in Int /\ Owed(n)' = Owed(n) + total
      BY <1>2, <1>6, <1>7
    <2> QED
      BY <1>5, <1>8, <2>1, LiabilityFollows
  <1>10. Liability \in Nat /\ balance[Escrow] \in Nat
    BY LiabilityCovers DEF SInv, IInv, TypeOK
  <1> QED
    BY <1>2, <1>4, <1>9, <1>10 DEF SInv, Solvent

LEMMA ReleaseKeepsSolvent ==
    ASSUME SInv, IInv', NEW id \in Ids, NEW c \in Accounts, Release(id, c)
    PROVE  Solvent'
  <1> DEFINE amt == schedules[id].monthly_amount
  <1>1. /\ Created(id) /\ schedules[id].periods_released < schedules[id].months
        /\ schedules[id] \in Schedule
    BY DEF Release, Created, SInv, IInv, TypeOK
  <1>2. /\ amt \in Nat \ {0} /\ schedules[id].months \in Nat
        /\ schedules[id].periods_released \in Nat
    BY <1>1, TermsAreNatural DEF SInv, IInv
  <1>3. balance'[Escrow] \in {balance[Escrow] - amt, balance[Escrow]}
    BY <1>1, <1>2, EscrowIsNoAccount DEF Release, Moved, SInv, IInv, TypeOK, Schedule
  <1>4. \A i \in Ids \ {id} : Owed(i)' = Owed(i)
    BY DEF Release, Owed, Created, SInv, IInv, TypeOK
  <1>5. Owed(id)' = Owed(id) - amt
    <2>1. /\ schedules'[id].monthly_amount = amt
          /\ schedules'[id].months = schedules[id].months
          /\ schedules'[id].periods_released = schedules[id].periods_released + 1
          /\ schedules'[id] \in Schedule
      BY <1>1, AfterReleaseFields DEF Release, SInv, IInv, TypeOK
    <2>2. Created(id)'
      BY <2>1, NoScheduleAssumption DEF Created
    <2> QED
      BY <1>1, <1>2, <2>1, <2>2, OneMonthLess DEF Owed
  <1>6. \A i \in Ids : Owed(i) \in Int
    BY OwedType DEF SInv, IInv
  <1> HIDE DEF amt
  <1>7. Liability' = Liability - amt
    <2>1. -amt \in Int /\ Owed(id)' = Owed(id) + (-amt)
      BY <1>2, <1>5, <1>6
    <2>2. Liability' = Liability + (-amt)
      BY <1>4, <1>6, <2>1, LiabilityFollows
    <2>3. Liability \in Nat
      BY LiabilityCovers DEF SInv
    <2> QED
      BY <1>2, <2>2, <2>3
  <1>8. Liability \in Nat /\ balance[Escrow] \in Nat
    BY LiabilityCovers DEF SInv, IInv, TypeOK
  <1> QED
    BY <1>2, <1>3, <1>7, <1>8 DEF SInv, Solvent

LEMMA SolventStep == SInv /\ [Next]_vars => SInv'
  <1> SUFFICES ASSUME SInv, [Next]_vars PROVE SInv'
    OBVIOUS
  <1>0. IInv /\ IInv'
    BY InvStep DEF SInv
  <1>1. ASSUME NEW s \in Accounts, NEW r \in Parties, NEW amt \in Amounts,
               NEW m \in MonthCounts, NEW d \in FirstDues,
               CreateSchedule(s, r, amt, m, d)
        PROVE SInv'
    BY <1>0, <1>1, CreateKeepsSolvent DEF SInv
  <1>2. ASSUME NEW id \in Ids, NEW c \in Accounts, Release(id, c) PROVE SInv'
    BY <1>0, <1>2, ReleaseKeepsSolvent DEF SInv
  <1>3. ASSUME UNCHANGED schedules, balance'[Escrow] >= balance[Escrow] PROVE SInv'
    <2>1. Liability' = Liability
      BY <1>3 DEF Liability, Owed, Created
    <2>2. Liability \in Nat /\ balance[Escrow] \in Nat /\ balance'[Escrow] \in Nat
      BY <1>0, LiabilityCovers DEF IInv, TypeOK
    <2> QED
      BY <1>0, <1>3, <2>1, <2>2 DEF SInv, Solvent
  <1>4. balance \in [Parties -> Nat] /\ balance[Escrow] \in Nat
    BY <1>0 DEF IInv, TypeOK
  <1>5. ASSUME NEW a \in Accounts, NEW p \in Parties, NEW amt \in Amounts,
               TransferToken(a, p, amt)
        PROVE SInv'
    <2>1. amt \in Nat
      BY <1>5, ArgumentAssumption DEF TransferToken
    <2>2. balance'[Escrow] >= balance[Escrow]
      BY <1>4, <1>5, <2>1, EscrowIsNoAccount DEF TransferToken, Moved
    <2> QED
      BY <1>3, <1>5, <2>2 DEF TransferToken
  <1>6. ASSUME NEW a \in Accounts, Initialize(a) \/ OpenAccount(a) PROVE SInv'
    BY <1>3, <1>4, <1>6 DEF Initialize, OpenAccount
  <1>7. CASE CloseLedger
    BY <1>3, <1>4, <1>7 DEF CloseLedger
  <1>8. CASE UNCHANGED vars
    BY <1>3, <1>4, <1>8 DEF vars
  <1> QED
    BY <1>1, <1>2, <1>5, <1>6, <1>7, <1>8 DEF Next

LEMMA Solvency == Spec => []SInv
  BY SolventInit, SolventStep, PTL DEF Spec

\* The pooled balance covers everything owed to all schedules, always.
THEOREM EscrowIsSolvent == Spec => []Solvent
  BY Solvency, PTL DEF SInv

\* Who is owed months that are not released can be paid the next one.
LEMMA SolventCovers ==
    ASSUME SInv, NEW id \in Ids, Created(id),
           schedules[id].periods_released < schedules[id].months
    PROVE  balance[Escrow] >= schedules[id].monthly_amount
  <1>1. Owed(id) >= schedules[id].monthly_amount /\ Owed(id) \in Nat
    BY OwedType DEF SInv, IInv
  <1>2. Liability \in Nat /\ Owed(id) <= Liability
    BY LiabilityCovers DEF SInv
  <1> QED
    BY <1>1, <1>2, TermsAreNatural DEF SInv, IInv, TypeOK, Solvent

\* No release of a due month can fail for want of money.
THEOREM MonthsAreCovered == Spec => []NextMonthCovered
  <1>1. SInv => NextMonthCovered
    <2> SUFFICES ASSUME SInv, NEW id \in Ids, Created(id),
                        schedules[id].periods_released < schedules[id].months
                 PROVE  \/ CanMove(Escrow, schedules[id].recipient, schedules[id].monthly_amount)
                        \/ schedules[id].recipient \in Accounts \ open
      BY DEF NextMonthCovered
    <2>1. balance[Escrow] >= schedules[id].monthly_amount
      BY SolventCovers
    <2>2. schedules[id].recipient \in Parties
      BY TermsAreNatural DEF SInv, IInv, Schedule
    <2> QED
      BY <2>1, <2>2 DEF CanMove
  <1> QED
    BY <1>1, Solvency, PTL

-----------------------------------------------------------------------------
(* What the abstract specification sees of the contract.                   *)

PWallet == [a \in Accounts |-> balance[a]]
PPaid == [id \in Ids |-> IF Created(id) THEN schedules[id].periods_released ELSE 0]
PPot == [id \in Ids |-> Owed(id)]

LEMMA PromiseInit == Init => Promise!Init
  <1> SUFFICES ASSUME Init PROVE Promise!Init
    OBVIOUS
  <1>1. PWallet \in [Accounts -> Nat]
    BY FundsAssumption, EscrowIsNoAccount DEF Init, PWallet
  <1>2. \A id \in Ids : ~Created(id)
    BY DEF Init, Created
  <1> QED
    BY <1>1, <1>2 DEF Init, PWallet, Owed, Promise!Init

LEMMA CreateIsPlace ==
    ASSUME IInv, IInv', NEW s \in Accounts, NEW r \in Parties, NEW amt \in Amounts,
           NEW m \in MonthCounts, NEW d \in FirstDues, CreateSchedule(s, r, amt, m, d)
    PROVE  Promise!Next
  <1>1. amt * m \in Nat \ {0}
    <2>1. amt \in Nat \ {0} /\ m \in U32 \ {0}
      BY ArgumentAssumption, WidthAssumption DEF CreateSchedule
    <2> QED
      BY <2>1, WidthAssumption, PositiveTotal
  <1>2. PICK n \in Ids : n = nextId
    BY BoundAssumption DEF CreateSchedule, IInv, TypeOK
  <1>3. ~Created(n) /\ Created(n)'
    BY <1>2, BoundAssumption DEF IInv, TermsKept, CreateSchedule
  <1>4. /\ \A i \in Ids \ {n} : schedules'[i] = schedules[i]
        /\ terms' = [terms EXCEPT ![n] = terms'[n]]
        /\ terms'[n] = [sender |-> s, recipient |-> r, monthly_amount |-> amt,
                        months |-> m, first_due_ledger |-> d]
        /\ schedules'[n] = [sender |-> s, recipient |-> r, monthly_amount |-> amt,
                            months |-> m, periods_released |-> 0, next_due_ledger |-> d]
    BY <1>2 DEF CreateSchedule, IInv, TypeOK
  <1>5. terms[n] = NoSchedule /\ terms'[n] # NoSchedule
    BY <1>3 DEF IInv, TermsRecorded
  <1>6. PPaid' = PPaid
    BY <1>3, <1>4 DEF PPaid, Created
  <1>7. PPot' = [PPot EXCEPT ![n] = amt * m]
    <2>1. Owed(n)' = amt * m
      <3>1. amt * (m - 0) = amt * m
        BY ArgumentAssumption
      <3> QED
        BY <1>3, <1>4, <3>1 DEF Owed
    <2>2. \A i \in Ids \ {n} : Owed(i)' = Owed(i)
      BY <1>4 DEF Owed, Created
    <2> QED
      BY <2>1, <2>2 DEF PPot
  <1>8. amt * m <= PWallet[s] /\ PWallet' = [PWallet EXCEPT ![s] = @ - amt * m]
    <2>1. balance \in [Parties -> Nat] /\ balance[s] >= amt * m
      BY DEF CreateSchedule, CanMove, IInv, TypeOK
    <2>2. \A a \in Accounts : balance'[a] = IF a = s THEN balance[a] - amt * m ELSE balance[a]
      BY <1>1, <2>1, EscrowIsNoAccount DEF CreateSchedule, Moved
    <2> QED
      BY <2>1, <2>2 DEF PWallet
  <1>9. UNCHANGED ledger
    BY DEF CreateSchedule
  <1>10. Promise!Place(n)
    BY <1>1, <1>4, <1>5, <1>6, <1>7, <1>8, <1>9
       DEF Promise!Place, PWallet, PPaid, PPot
  <1> QED
    BY <1>10 DEF Promise!Next

LEMMA ReleaseIsPay ==
    ASSUME IInv, IInv', NEW id \in Ids, NEW c \in Accounts, Release(id, c)
    PROVE  Promise!Next
  <1> DEFINE amt == schedules[id].monthly_amount
  <1>1. Created(id) /\ schedules[id] \in Schedule /\ schedules[id].periods_released < schedules[id].months
    BY DEF Release, Created, IInv, TypeOK
  <1>2. /\ amt \in Nat \ {0} /\ schedules[id].months \in Nat
        /\ schedules[id].periods_released \in Nat
        /\ terms[id] # NoSchedule
        /\ terms[id].recipient = schedules[id].recipient
        /\ terms[id].monthly_amount = amt
        /\ terms[id].months = schedules[id].months
    BY <1>1, TermsAreNatural DEF IInv, TermsRecorded, TermsKept
  <1>3. /\ schedules'[id].monthly_amount = amt
        /\ schedules'[id].months = schedules[id].months
        /\ schedules'[id].periods_released = schedules[id].periods_released + 1
        /\ schedules'[id] \in Schedule
        /\ UNCHANGED <<ledger, terms>>
        /\ \A i \in Ids \ {id} : schedules'[i] = schedules[i]
    BY <1>1, AfterReleaseFields DEF Release, IInv, TypeOK
  <1>4. Created(id)'
    BY <1>3, NoScheduleAssumption DEF Created
  <1>5. PPaid[id] = schedules[id].periods_released /\ PPaid' = [PPaid EXCEPT ![id] = @ + 1]
    BY <1>1, <1>3, <1>4 DEF PPaid, Created
  <1>6. amt <= PPot[id] /\ PPot' = [PPot EXCEPT ![id] = @ - amt]
    <2>1. Owed(id)' = Owed(id) - amt /\ Owed(id) >= amt
      BY <1>1, <1>2, <1>3, <1>4, OneMonthLess DEF Owed
    <2>2. \A i \in Ids \ {id} : Owed(i)' = Owed(i)
      BY <1>3 DEF Owed, Created
    <2> QED
      BY <2>1, <2>2 DEF PPot
  <1>7. PWallet' = IF schedules[id].recipient = Escrow THEN PWallet
                   ELSE [PWallet EXCEPT ![schedules[id].recipient] = @ + amt]
    <2>1. balance \in [Parties -> Nat] /\ schedules[id].recipient \in Parties
      BY <1>1 DEF IInv, TypeOK, Schedule
    <2>2. \A a \in Accounts : balance'[a] =
             IF a = schedules[id].recipient THEN balance[a] + amt ELSE balance[a]
      BY <1>2, <2>1, EscrowIsNoAccount DEF Release, Moved
    <2> QED
      BY <2>1, <2>2, EscrowIsNoAccount DEF PWallet
  <1>8. ledger >= terms[id].first_due_ledger + schedules[id].periods_released * LedgersPerPeriod
    <2>1. schedules[id].next_due_ledger = DueLedger(id, schedules[id].periods_released + 1)
      BY <1>1 DEF IInv, DueDatesNeverDrift
    <2> QED
      BY <1>1, <1>2, <2>1, TermsAreNatural, NextPeriod DEF Release, DueLedger, IInv
  <1> HIDE DEF amt
  <1>9. Promise!Pay(id)
    BY <1>1, <1>2, <1>3, <1>5, <1>6, <1>7, <1>8 DEF Promise!Pay, PWallet, PPaid, PPot
  <1> QED
    BY <1>9 DEF Promise!Next

LEMMA TransferIsSpend ==
    ASSUME IInv, NEW a \in Accounts, NEW p \in Parties, NEW amt \in Amounts,
           TransferToken(a, p, amt)
    PROVE  Promise!Next
  <1>1. amt \in Nat \ {0}
    BY ArgumentAssumption DEF TransferToken
  <1>2. /\ PWallet[a] - PWallet'[a] = amt
        /\ PWallet' = IF p = Escrow THEN [PWallet EXCEPT ![a] = @ - amt]
                      ELSE [PWallet EXCEPT ![a] = @ - amt, ![p] = @ + amt]
    <2>1. balance \in [Parties -> Nat] /\ a # p
      BY DEF TransferToken, IInv, TypeOK
    <2>2. \A b \in Accounts : balance'[b] =
             IF b = a THEN balance[b] - amt ELSE IF b = p THEN balance[b] + amt ELSE balance[b]
      BY <1>1, <2>1, EscrowIsNoAccount DEF TransferToken, Moved
    <2>3. /\ p = Escrow => PWallet' = [PWallet EXCEPT ![a] = @ - amt]
          /\ p # Escrow => PWallet' = [PWallet EXCEPT ![a] = @ - amt, ![p] = @ + amt]
      BY <2>1, <2>2, EscrowIsNoAccount DEF PWallet
    <2>4. PWallet[a] - PWallet'[a] = amt
      BY <1>1, <2>1, <2>2 DEF PWallet
    <2> QED
      BY <2>3, <2>4
  <1>3. Promise!Spend(a, p)
    BY <1>1, <1>2 DEF Promise!Spend, TransferToken, PWallet, Owed, Created
  <1> QED
    BY <1>3 DEF Promise!Next

LEMMA PromiseStep == IInv /\ IInv' /\ [Next]_vars => [Promise!Next]_(Promise!vars)
  <1> SUFFICES ASSUME IInv, IInv', [Next]_vars PROVE [Promise!Next]_(Promise!vars)
    OBVIOUS
  <1> USE DEF Promise!vars, Owed, Created
  <1>1. ASSUME NEW a \in Accounts, Initialize(a) \/ OpenAccount(a)
        PROVE UNCHANGED Promise!vars
    BY <1>1 DEF Initialize, OpenAccount
  <1>2. ASSUME CloseLedger PROVE Promise!Tick
    BY <1>2 DEF CloseLedger, Promise!Tick
  <1>3. CASE UNCHANGED vars
    BY <1>3 DEF vars
  <1> QED
    BY <1>1, <1>2, <1>3, CreateIsPlace, ReleaseIsPay, TransferIsSpend DEF Next, Promise!Next

\* The contract keeps the promise of StandingOrder.
THEOREM ContractKeepsThePromise == Spec => KeepsThePromise
  BY Invariance, PromiseInit, PromiseStep, PTL DEF Spec, KeepsThePromise, Promise!Spec

\* The contract's balance only ever falls by one month of one schedule, paid to
\* that schedule's recipient.
THEOREM BalanceFallsByReleases == Spec => EscrowPaysOnlyByRelease
  <1>1. IInv /\ [Next]_vars => [PaysOnlyByRelease]_vars
    <2> SUFFICES ASSUME IInv, Next, balance'[Escrow] < balance[Escrow]
                 PROVE  PaysOnlyByRelease
      BY DEF PaysOnlyByRelease
    <2>1. balance \in [Parties -> Nat]
      BY DEF IInv, TypeOK
    <2>2. PICK id \in Ids, c \in Accounts : Release(id, c)
      <3>1. ASSUME NEW s \in Accounts, NEW r \in Parties, NEW amt \in Amounts,
                   NEW m \in MonthCounts, NEW d \in FirstDues,
                   CreateSchedule(s, r, amt, m, d)
            PROVE FALSE
        <4>1. amt * m \in Nat
          BY <3>1, ArgumentAssumption, WidthAssumption, PositiveTotal DEF CreateSchedule
        <4> QED
          BY <2>1, <3>1, <4>1, EscrowIsNoAccount DEF CreateSchedule, Moved
      <3>2. ASSUME NEW a \in Accounts, NEW p \in Parties, NEW amt \in Amounts,
                   TransferToken(a, p, amt)
            PROVE FALSE
        <4>1. amt \in Nat
          BY <3>2, ArgumentAssumption DEF TransferToken
        <4> QED
          BY <2>1, <3>2, <4>1, EscrowIsNoAccount DEF TransferToken, Moved
      <3>3. UNCHANGED balance => FALSE
        BY <2>1
      <3> QED
        BY <3>1, <3>2, <3>3 DEF Next, Initialize, CloseLedger, OpenAccount
    <2>3. Created(id) /\ schedules[id] \in Schedule
      BY <2>2 DEF Release, Created, IInv, TypeOK
    <2>4. schedules'[id].periods_released = schedules[id].periods_released + 1
      BY <2>2, <2>3, AfterReleaseFields DEF Release, IInv, TypeOK
    <2>5. schedules[id].recipient # Escrow
      BY <2>1, <2>2, <2>3 DEF Release, Moved, Schedule
    <2>6. schedules' = [schedules EXCEPT ![id] = schedules'[id]]
      BY <2>2 DEF Release, IInv, TypeOK
    <2> QED
      BY <2>2, <2>3, <2>4, <2>5, <2>6 DEF PaysOnlyByRelease, Release
  <1> QED
    BY <1>1, Invariance, PTL DEF Spec, EscrowPaysOnlyByRelease
=============================================================================
