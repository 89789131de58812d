SPECIFICATION Spec
CONSTANTS
    p = p
    q = q
    pay1 = pay1
    pay2 = pay2
    rel = rel
    again = again
    r1 = r1
    r2 = r2
    Plans = {p}
    Escrowed = {}
    Payments = {pay1}
    Releases = {}
    Hashes = {pay1}
    Named <- MCNamed
    Covers <- MCCovers
    Requests = {r1, r2}
    NoPlan = NoPlan
    NoTx = NoTx
    NoRow = NoRow
    MaxRows = 2
    MaxPeriod = 1
PROPERTY EndedIsFinal
CHECK_DEADLOCK FALSE
