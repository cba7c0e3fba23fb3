CONSTANTS
    p1 = p1  p2 = p2
    A = A  Z = Z  U = U  M = M
    x = x  y = y  z = z
    v1 = v1  v2 = v2
    Procs = {p1, p2}
    Names = {A, M}
    Aliases = {x}
    Versions = {v1, v2}
    Offers <- MonikerOffers
    UrlInstalls <- NoUrls
    InitialSlots = {NoLink}
    PkgCommands = {}
    Faults = {}
    Menu = {"install", "upgrade", "pin", "unpin"}
    NoProc = NoProc  NoName = NoName  NoVersion = NoVersion  NoJob = NoJob
    NoMarker = NoMarker  Truncated = Truncated
    NoLink = NoLink  Foreign = Foreign  Dangling = Dangling
    Absent = Absent  Empty = Empty  Partial = Partial  Incomplete = Incomplete
SPECIFICATION Spec
PROPERTIES PinnedIsSkipped
