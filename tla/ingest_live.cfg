SPECIFICATION FairSpec
CONSTANTS
    d1 = d1
    d2 = d2
    d3 = d3
    c1 = c1
    c2 = c2
    r1 = r1
    r2 = r2
    p1 = p1
    p2 = p2
    u1 = u1
    u2 = u2
    txt = txt
    pdf = pdf
    Nil = Nil
    DocIds = {d1, d2}
    Users = {u1}
    Contents = {c1, c2}
    Formats = {txt}
    Extract <- MCExtract
    Procs = {p1}
    Slots = {r1}
    MaxJobs = 2
    MaxFailures = 0
    MaxCrashes = 1
PROPERTIES
    Settles
    JobsAreClaimed
