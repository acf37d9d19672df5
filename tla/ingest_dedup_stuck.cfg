SPECIFICATION Spec
CONSTANTS
    d1 = d1
    d2 = d2
    d3 = d3
    c1 = c1
    c2 = c2
    r1 = r1
    r2 = r2
    p1 = p1
    p2 = p2
    u1 = u1
    u2 = u2
    txt = txt
    pdf = pdf
    Nil = Nil
    DocIds = {d1}
    Users = {u1, u2}
    Contents = {c1, c2}
    Formats = {txt, pdf}
    Extract <- MCExtract
    Procs = {p1, p2}
    Slots = {r1, r2}
    MaxJobs = 2
    MaxFailures = 0
    MaxCrashes = 1
SYMMETRY Symmetry
PROPERTY
    DedupMeansLive
