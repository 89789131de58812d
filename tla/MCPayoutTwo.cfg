SPECIFICATION Spec
CONSTANTS
    p = p
    q = q
    pay1 = pay1
    pay2 = pay2
    rel = rel
    again = again
    Plans = {p, q}
    Escrowed = {q}
    Payments = {pay2}
    Releases = {rel}
    Hashes = {pay2, again, rel}
    Named <- MCNamed
    Covers <- MCCovers
    r1 = r1
    r2 = r2
    Requests = {r1, r2}
    NoPlan = NoPlan
    NoTx = NoTx
    NoRow = NoRow
    MaxRows = 3
    MaxPeriod = 1
SYMMETRY MCSymmetry
INVARIANTS
    OneRecordPerSpelling
    SentMeansPaid
    OpenRecordsAreFew
PROPERTY StopsTakeEffect
CHECK_DEADLOCK FALSE
