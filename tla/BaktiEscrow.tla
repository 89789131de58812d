---------------------------- MODULE BaktiEscrow ----------------------------
(***************************************************************************)
(* The allowance escrow contract, contracts/bakti-escrow/src/lib.rs.       *)
(*                                                                         *)
(* A sender pre-funds monthly_amount * months; every release pays one      *)
(* month to the recipient once the ledger has reached the schedule's next  *)
(* due ledger.  All schedules share the single token balance of the        *)
(* contract.  An invocation is atomic: one that returns an error or traps  *)
(* (an arithmetic overflow, a refused transfer) leaves no trace, so each   *)
(* error return is the negation of a guard below and a failed call is a    *)
(* stuttering step.                                                        *)
(*                                                                         *)
(* External to the contract, and modelled only as it uses them: the ledger *)
(* sequence, the token contract's balances, and which accounts exist (the  *)
(* token refuses to credit an account that does not).                      *)
(***************************************************************************)
EXTENDS Sums

CONSTANTS
    Accounts,          \* classic accounts: senders, recipients, callers
    Escrow,            \* the address of the contract itself
    NoAdmin,           \* instance storage without DataKey::Admin
    NoSchedule,        \* persistent storage without DataKey::Schedule(id)
    Funds,             \* the token balance each account starts with
    Amounts,           \* monthly_amount arguments, invalid ones included
    MonthCounts,       \* months arguments, 0 included
    FirstDues,         \* first_due_ledger arguments
    LedgersPerPeriod,  \* LEDGERS_PER_PERIOD
    MaxU32,            \* the largest u32
    MaxI128,           \* the largest i128
    MaxLedger,         \* bound: the last ledger the model closes
    MaxSchedules       \* bound: how many schedules may be created

Parties == Accounts \cup {Escrow}
Ids == 0 .. MaxSchedules - 1
U32 == 0 .. MaxU32

ASSUME EscrowIsNoAccount == Escrow \notin Accounts
ASSUME NoAdminAssumption == NoAdmin \notin Accounts
ASSUME FundsAssumption == Funds \in [Accounts -> Nat]
ASSUME ArgumentAssumption ==
    Amounts \subseteq Int /\ MonthCounts \subseteq U32 /\ FirstDues \subseteq U32
ASSUME WidthAssumption ==
    /\ MaxU32 \in Nat
    /\ MaxI128 \in Nat
    /\ LedgersPerPeriod \in U32 \ {0}
ASSUME BoundAssumption == MaxLedger \in U32 /\ MaxSchedules \in Nat

\* struct Schedule (types.rs).
Schedule ==
    [sender : Accounts, recipient : Parties, monthly_amount : Nat \ {0},
     months : U32 \ {0}, periods_released : U32, next_due_ledger : U32]

\* The arguments create_schedule was called with.
Terms ==
    [sender : Accounts, recipient : Parties, monthly_amount : Nat \ {0},
     months : U32 \ {0}, first_due_ledger : U32]

ASSUME NoScheduleAssumption == NoSchedule \notin Schedule \cup Terms

VARIABLES
    ledger,     \* env.ledger().sequence()
    balance,    \* token balance of every party
    open,       \* the accounts that exist on the network
    admin,      \* instance storage: DataKey::Admin
    nextId,     \* instance storage: DataKey::NextId
    schedules,  \* persistent storage: DataKey::Schedule(id)
    terms       \* history: the arguments each schedule was created with

vars == <<ledger, balance, open, admin, nextId, schedules, terms>>

\* The token moves amt from one party to another (to itself: no change).
Moved(from, to, amt) ==
    [[balance EXCEPT ![from] = @ - amt] EXCEPT ![to] = @ + amt]

\* (mutant) the token does not look at the payer's balance.
CanMoveUncovered(from, to, amt) == to \in open \cup {Escrow}

\* The token refuses an overdraft and an account that does not exist.
CanMove(from, to, amt) ==
    /\ balance[from] >= amt
    /\ to \in open \cup {Escrow}

Init ==
    /\ ledger = 0
    /\ open \in {o \in SUBSET Accounts : \A a \in Accounts \ o : Funds[a] = 0}
    /\ balance = [p \in Parties |-> IF p = Escrow THEN 0 ELSE Funds[p]]
    /\ admin = NoAdmin
    /\ nextId = 0
    /\ schedules = [i \in Ids |-> NoSchedule]
    /\ terms = [i \in Ids |-> NoSchedule]

\* (mutant) initialize without its AlreadyInitialized check.
InitializeAgain(a) ==
    /\ admin' = a
    /\ nextId' = 0
    /\ UNCHANGED <<ledger, balance, open, schedules, terms>>

\* initialize: AlreadyInitialized unless DataKey::Admin is absent.
Initialize(a) ==
    /\ admin = NoAdmin
    /\ admin' = a
    /\ nextId' = 0
    /\ UNCHANGED <<ledger, balance, open, schedules, terms>>

\* (mutant) only the first month is escrowed.
OneMonth(amt, m) == amt

\* What create_schedule escrows: the whole run.
Total(amt, m) == amt * m

\* create_schedule: the whole run is moved into the contract, then the
\* schedule is saved under the next id.
CreateSchedule(sender, recipient, amt, m, firstDue) ==
    /\ sender \in open
    /\ amt > 0                                     \* InvalidAmount
    /\ m # 0                                       \* InvalidMonths
    /\ Total(amt, m) <= MaxI128                          \* overflow-checks
    /\ admin # NoAdmin                             \* NotInitialized
    /\ CanMove(sender, Escrow, Total(amt, m))
    /\ nextId < MaxSchedules                       \* bound
    /\ balance' = Moved(sender, Escrow, Total(amt, m))
    /\ nextId' = nextId + 1
    /\ schedules' = [schedules EXCEPT ![nextId] =
           [sender |-> sender, recipient |-> recipient,
            monthly_amount |-> amt, months |-> m,
            periods_released |-> 0, next_due_ledger |-> firstDue]]
    /\ terms' = [terms EXCEPT ![nextId] =
           [sender |-> sender, recipient |-> recipient,
            monthly_amount |-> amt, months |-> m,
            first_due_ledger |-> firstDue]]
    /\ UNCHANGED <<ledger, open, admin>>

\* (mutant) the next period counts from the moment of the release.
AfterReleaseFromNow(s) ==
    [s EXCEPT !.periods_released = @ + 1, !.next_due_ledger = ledger + LedgersPerPeriod]

\* (mutant) the released period is not counted.
AfterReleaseUncounted(s) == [s EXCEPT !.next_due_ledger = @ + LedgersPerPeriod]

\* The schedule release writes back: one more period, due one period later.
AfterRelease(s) ==
    [s EXCEPT !.periods_released = @ + 1,
              !.next_due_ledger = @ + LedgersPerPeriod]

\* (mutant) one ledger too early.
DueOneEarly(s) == ledger + 1 >= s.next_due_ledger

\* NotDueYet is the error of the opposite.
Due(s) == ledger >= s.next_due_ledger

\* release: any existing account may call; the recipient is paid.
Release(id, caller) ==
    /\ caller \in open
    /\ schedules[id] # NoSchedule                                \* ScheduleNotFound
    /\ schedules[id].periods_released < schedules[id].months     \* AllReleased
    /\ Due(schedules[id])                                        \* NotDueYet
    /\ CanMove(Escrow, schedules[id].recipient, schedules[id].monthly_amount)
    /\ AfterRelease(schedules[id]).next_due_ledger <= MaxU32     \* overflow-checks
    /\ balance' = Moved(Escrow, schedules[id].recipient, schedules[id].monthly_amount)
    /\ schedules' = [schedules EXCEPT ![id] = AfterRelease(schedules[id])]
    /\ UNCHANGED <<ledger, open, admin, nextId, terms>>

\* The network closes a ledger.
CloseLedger ==
    /\ ledger < MaxLedger                                        \* bound
    /\ ledger' = ledger + 1
    /\ UNCHANGED <<balance, open, admin, nextId, schedules, terms>>

\* Somebody creates an account that did not exist.
OpenAccount(a) ==
    /\ a \notin open
    /\ open' = open \cup {a}
    /\ UNCHANGED <<ledger, balance, admin, nextId, schedules, terms>>

\* A token transfer that does not go through the contract; to may be the
\* contract's address.
TransferToken(from, to, amt) ==
    /\ from \in open
    /\ from # to
    /\ amt > 0
    /\ CanMove(from, to, amt)
    /\ balance' = Moved(from, to, amt)
    /\ UNCHANGED <<ledger, open, admin, nextId, schedules, terms>>

Next ==
    \/ \E a \in Accounts : Initialize(a)
    \/ \E s \in Accounts, r \in Parties, amt \in Amounts, m \in MonthCounts,
         d \in FirstDues :
          CreateSchedule(s, r, amt, m, d)
    \/ \E id \in Ids, c \in Accounts : Release(id, c)
    \/ CloseLedger
    \/ \E a \in Accounts : OpenAccount(a)
    \/ \E a \in Accounts, p \in Parties, amt \in Amounts : TransferToken(a, p, amt)

Spec == Init /\ [][Next]_vars

\* Ledgers keep closing, and for every schedule some caller keeps trying: the
\* keeper the contract's documentation counts on (lib.rs, "a keeper pattern").
FairSpec ==
    /\ Spec
    /\ WF_vars(CloseLedger)
    /\ \A id \in Ids : WF_vars(\E c \in Accounts : Release(id, c))

-----------------------------------------------------------------------------
Created(id) == schedules[id] # NoSchedule

\* The ledger at which period number k (counted from 1) of a schedule is due.
DueLedger(id, k) == terms[id].first_due_ledger + (k - 1) * LedgersPerPeriod

Owed(id) ==
    IF Created(id)
    THEN schedules[id].monthly_amount
            * (schedules[id].months - schedules[id].periods_released)
    ELSE 0

\* The contract keeps no account of what it owes to all schedules together.
Liability == Sum([k \in 1 .. MaxSchedules |-> Owed(k - 1)])

TypeOK ==
    /\ ledger \in 0 .. MaxLedger
    /\ balance \in [Parties -> Nat]
    /\ open \subseteq Accounts
    /\ admin \in Accounts \cup {NoAdmin}
    /\ nextId \in 0 .. MaxSchedules
    /\ schedules \in [Ids -> Schedule \cup {NoSchedule}]
    /\ terms \in [Ids -> Terms \cup {NoSchedule}]

\* What a schedule stores is what its sender agreed to, for as long as the
\* contract lives: parties, amount and count never change, no id is handed out
\* twice, and no later call overwrites it (create_schedule, next_id, save_schedule).
TermsKept ==
    \A id \in Ids :
        /\ Created(id) <=> id < nextId
        /\ Created(id) =>
            /\ schedules[id].sender = terms[id].sender
            /\ schedules[id].recipient = terms[id].recipient
            /\ schedules[id].monthly_amount = terms[id].monthly_amount
            /\ schedules[id].months = terms[id].months

\* A late release neither skips nor moves later periods: the stored due ledger
\* is always the original first one plus a period per release, and at most
\* months periods are ever released (release, next_due_ledger += ...).
DueDatesNeverDrift ==
    \A id \in Ids : Created(id) =>
        /\ schedules[id].periods_released <= schedules[id].months
        /\ schedules[id].next_due_ledger = DueLedger(id, schedules[id].periods_released + 1)

\* No period is ever paid early: k released periods mean that the k-th due
\* ledger of the agreed terms has been reached (release, NotDueYet).
NeverPaidEarly ==
    \A id \in Ids : Created(id) /\ schedules[id].periods_released > 0 =>
        ledger >= DueLedger(id, schedules[id].periods_released)

\* The pooled balance always covers the sum of all unpaid months: tokens given
\* to the contract may exceed it, no interleaving of schedules ever falls below
\* it (create_schedule, release).
Solvent == balance[Escrow] >= Liability

\* A due release never fails for want of money: whatever the other schedules
\* were paid, the balance covers the next month of each unfinished one, so the
\* token can only refuse it because the recipient has no account (release).
NextMonthCovered ==
    \A id \in Ids : Created(id) /\ schedules[id].periods_released < schedules[id].months =>
        \/ CanMove(Escrow, schedules[id].recipient, schedules[id].monthly_amount)
        \/ schedules[id].recipient \in Accounts \ open

\* Whenever the contract's balance falls, it is by one month of exactly one
\* schedule, which advances by one period and whose recipient is credited that
\* amount; the caller and every other party keep what they had (release).
PaysOnlyByRelease ==
    balance'[Escrow] < balance[Escrow] =>
        \E id \in Ids :
            /\ Created(id)
            /\ schedules' = [schedules EXCEPT ![id] = schedules'[id]]
            /\ schedules'[id].periods_released = schedules[id].periods_released + 1
            /\ schedules[id].recipient # Escrow
            /\ balance' = Moved(Escrow, schedules[id].recipient,
                                schedules[id].monthly_amount)

EscrowPaysOnlyByRelease == [][PaysOnlyByRelease]_vars

\* Under a keeper, a schedule whose last due ledger the chain reaches pays all
\* its periods once its recipient's account exists; a schedule whose last
\* next_due_ledger would overflow u32 is excluded, since release traps on it.
Payable(id) ==
    /\ Created(id)
    /\ schedules[id].recipient \in open \cup {Escrow}
    /\ DueLedger(id, schedules[id].months) <= MaxLedger
    /\ DueLedger(id, schedules[id].months + 1) <= MaxU32

AllPeriodsPaid ==
    \A id \in Ids :
        Payable(id) ~> (Created(id) /\ schedules[id].periods_released = schedules[id].months)

-----------------------------------------------------------------------------
\* What the contract promises its users, with a pot of money per schedule.
Promise == INSTANCE StandingOrder WITH
    People <- Accounts, House <- Escrow, NoOrder <- NoSchedule,
    Gap <- LedgersPerPeriod, Numbers <- Ids,
    clock <- ledger,
    wallet <- [a \in Accounts |-> balance[a]],
    order <- terms,
    paid <- [id \in Ids |-> IF Created(id) THEN schedules[id].periods_released ELSE 0],
    pot <- [id \in Ids |-> Owed(id)]

\* The shared balance behaves, for everybody outside the contract, like one
\* separate pot per schedule paid out by the agreed calendar (the whole contract).
KeepsThePromise == Promise!Spec
=============================================================================
