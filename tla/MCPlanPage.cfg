SPECIFICATION FairSpec
CONSTANTS
    son = son
    guest = guest
    f1 = f1
    t1 = t1
    Keys = {son, guest}
    NoKey = NoKey
    Flows = {f1}
    Owner = son
    Txs = {t1}
    NoTx = NoTx
    NoCopy = NoCopy
INVARIANTS
    TypeOK
    LossesAreReported
PROPERTIES
    PageSettles
