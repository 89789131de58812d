SPECIFICATION FairSpec
CONSTANTS
    son = son
    mother = mother
    Accounts = {son, mother}
    Escrow = Escrow
    NoAdmin = NoAdmin
    NoSchedule = NoSchedule
    Funds <- MCFunds
    Amounts <- MCAmounts
    MonthCounts <- MCMonths
    FirstDues <- MCFirstDues
    LedgersPerPeriod = 2
    MaxU32 = 5
    MaxI128 = 3
    MaxLedger = 4
    MaxSchedules = 2
INVARIANTS
    TypeOK
    TermsKept
    DueDatesNeverDrift
    NeverPaidEarly
    Solvent
    NextMonthCovered
PROPERTIES
    EscrowPaysOnlyByRelease
    KeepsThePromise
    AllPeriodsPaid
CHECK_DEADLOCK FALSE
