SPECIFICATION FairSpec
CONSTANTS
    son = son
    f1 = f1
    f2 = f2
    v1 = v1
    v2 = v2
    Keys = {son}
    NoKey = NoKey
    Flows = {f1, f2}
    Unset = Unset
    Envs <- MCEnvs
    DECIMALS = 2
    NotAnAmount = NotAnAmount
    Malformed = Malformed
    Wholes = {0, 1, 12}
    Totals <- MCTotals
    ShareLists <- MCShareLists
    Saves = {v1, v2}
    MaxFetches = 2
INVARIANTS
    TypeOK
    TabKnowsItsSession
    AmountsAreExact
    SharesAddUp
PROPERTIES
    FormSettles
