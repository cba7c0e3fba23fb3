CONSTANTS
    p1 = p1  p2 = p2
    s1 = s1  s2 = s2  s3 = s3
    Procs = {p1, p2}
    Sources = {s1, s2, s3}
    Requests <- OneSaver
    Registered = {s3}
    Faults = {"crash", "network", "garbage"}
    NoFile = NoFile
    NoRequest = NoRequest
SPECIFICATION Spec
INVARIANTS TypeOK DbIsCatalog
PROPERTIES SourcesPromise
