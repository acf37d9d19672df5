SPECIFICATION Spec
CONSTANTS
    r1 = r1
    r2 = r2
    admin = admin
    guest = guest
    pw1 = pw1
    pw2 = pw2
    ip1 = ip1
    ip2 = ip2
    Nil = Nil
    Requests = {r1, r2}
    Attempts = {r1, r2}
    Routes = {"login", "panel", "register", "token", "upload"}
    Exempt = {"upload"}
    ChunkSizes = {1}
    MaxBytes = 1
    MaxSent = 2
    Names = {admin}
    Admin = admin
    Passwords = {pw1, pw2}
    Ips = {ip1}
    Thresholds = {1, 2}
    Window = 1
    Interval = 1
    MaxTime = 3
    MaxFailures = 1
    MaxRequests = 2
    MaxCommands = 2
SYMMETRY Symmetry
INVARIANTS
    TypeOK
    OneResponse
    NothingPastLimit
    CutFormSignsNobodyIn
    PasswordsAreChosen
PROPERTIES
    AttackIsReported
