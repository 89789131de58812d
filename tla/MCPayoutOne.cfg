SPECIFICATION Spec
CONSTANTS
    p = p
    q = q
    pay1 = pay1
    pay2 = pay2
    rel = rel
    again = again
    Plans = {p, q}
    Escrowed = {q}
    Payments = {pay1, pay2}
    Releases = {rel}
    Hashes = {pay1, pay2, again, rel}
    Named <- MCNamed
    Covers <- MCCovers
    r1 = r1
    r2 = r2
    Requests = {r1}
    NoPlan = NoPlan
    NoTx = NoTx
    NoRow = NoRow
    MaxRows = 3
    MaxPeriod = 2
INVARIANTS
    TypeOK
PROPERTIES
    EndedIsFinal
    KeepsTheBook
    SentIsKept
CHECK_DEADLOCK FALSE
