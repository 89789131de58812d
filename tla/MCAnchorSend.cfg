SPECIFICATION FairSpec
CONSTANTS
    bakti = bakti
    guest = guest
    here = here
    there = there
    home = home
    other = other
    anon = anon
    maria = maria
    jose = jose
    r1 = r1
    r2 = r2
    Ips = {anon}
    NoBucket = NoBucket
    CAPACITY = 3
    MS_PER_TOKEN = 1
    MaxTime = 3
    Calls = {r1, r2}
    Sends <- MCSends
    Deployments = {here, there}
    This = here
    HomeDomain = home
    CHALLENGE_TTL = 1
    TOKEN_TTL = 1
    GRACE = 0
    None = None
INVARIANTS
    TypeOK
    BucketIsWindow
    StatusIsOwn
    OneRegistrationPerCall
    OutcomeIsDeserved
PROPERTIES
    RowsAreAuthenticated
    EveryCallEnds
CHECK_DEADLOCK FALSE
