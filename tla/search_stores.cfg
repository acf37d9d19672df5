SPECIFICATION SearchSpec
CONSTANTS
    d1 = d1
    d2 = d2
    c1 = c1
    c2 = c2
    r1 = r1
    p1 = p1
    u1 = u1
    u2 = u2
    txt = txt
    s1 = s1
    Nil = Nil
    DocIds = {d1, d2}
    Users = {u1, u2}
    Contents = {c1}
    Formats = {txt}
    Extract <- MCExtract
    Procs = {p1}
    Slots = {r1}
    Searches = {s1}
    CandidateK = 2
    TopK = 1
    MaxJobs = 2
    MaxFailures = 1
    MaxCrashes = 1
SYMMETRY Symmetry
INVARIANTS
    SearchTypeOK
    VectorsHaveRows
    ResultsAreOwned
    DeletedStaysDeleted
    SearchFindsDone
