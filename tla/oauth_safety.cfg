SPECIFICATION Spec
CONSTANTS
    u1 = u1
    u2 = u2
    web = web
    url = url
    svc = svc
    s1 = s1
    s2 = s2
    Nil = Nil
    Users = {u1, u2}
    Clients = {web, url, svc}
    Kind <- MCKind
    ServiceUser <- MCServiceUser
    Slots = {s1, s2}
    LoginTTL = 1
    CodeTTL = 1
    AccessTTL = 1
    RefreshTTL = 1
    RateLimit = 1
    RateWindow = 1
    MaxTime = 2
    MaxLogins = 1
    MaxCodes = 2
    MaxRefresh = 2
    MaxFailures = 1
    MaxCrashes = 1
SYMMETRY Symmetry
INVARIANTS
    TypeOK
    OneCredential
    GrantsAreBound
    AttemptsBounded
    MemoryCoversDatabase
PROPERTIES
    GrantsAreConserved
    CleanupIsInvisible
    ImplementsGrants
