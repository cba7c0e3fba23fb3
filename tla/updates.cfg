CONSTANTS
    p1 = p1  p2 = p2
    s1 = s1  s2 = s2  s3 = s3
    Procs = {p1, p2}
    Sources = {s1}
    Requests <- BothUpdate
    Registered = {s1}
    Faults = {}
    NoFile = NoFile
    NoRequest = NoRequest
SPECIFICATION Spec
INVARIANTS DbIsCatalog
