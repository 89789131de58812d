SPECIFICATION FairFlow
CONSTANTS
    son = son
    mother = mother
    r1 = r1
    r2 = r2
    s1 = s1
    s2 = s2
    c1 = c1
    c2 = c2
    x1 = x1
    x2 = x2
    Accounts = {son, mother}
    Escrow = Escrow
    NoAdmin = NoAdmin
    NoSchedule = NoSchedule
    Funds <- MCFunds
    Amounts <- MCAmounts
    MonthCounts <- MCOneMonth
    FirstDues <- MCFirstDues
    LedgersPerPeriod = 1
    MaxU32 = 9
    MaxI128 = 9
    MaxLedger = 0
    MaxSchedules = 1
    Owner = son
    Servers = {s1}
    Requests = {r1, r2}
    Creates = {c1}
    Releases = {x1}
    NoTx = NoTx
    NoInput = NoInput
    PlanRows = {1, 2}
    MaxPolls = 2
    ResendEvery = 1
    MaxSeq = 1
INVARIANTS
    FTypeOK
    OnePlanPerSchedule
PROPERTY
    EveryRequestAnswered
CHECK_DEADLOCK FALSE
