SPECIFICATION Spec
CONSTANTS
    son = son
    mother = mother
    n1 = n1
    r1 = r1
    r2 = r2
    s1 = s1
    s2 = s2
    s3 = s3
    Keys = {son, mother}
    Nonces = {n1}
    NoNonce = NoNonce
    SessionIds = {s1, s2, s3}
    NoSession = NoSession
    Requests = {r1, r2}
    NONCE_TTL = 1
    SESSION_TTL = 1
    ENABLE_TEST_LOGIN = TRUE
    MaxTime = 2
SYMMETRY MCSymmetry
INVARIANTS
    SessionsAreEarned
    ReplaysAreBounded
CHECK_DEADLOCK FALSE
