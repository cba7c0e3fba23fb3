CONSTANTS
    p1 = p1  p2 = p2
    A = A  Z = Z  U = U  M = M
    x = x  y = y  z = z
    v1 = v1  v2 = v2
    Procs = {p1, p2}
    Names = {Z, U}
    Aliases = {y, z}
    Versions = {v1}
    Offers <- TwoPackageOffers
    UrlInstalls <- UrlOfZ
    InitialSlots = {NoLink, Foreign}
    PkgCommands = {z}
    Faults = {"crash", "unpack", "disk", "lock"}
    Menu = {"install", "install_url"}
    NoProc = NoProc  NoName = NoName  NoVersion = NoVersion  NoJob = NoJob
    NoMarker = NoMarker  Truncated = Truncated
    NoLink = NoLink  Foreign = Foreign  Dangling = Dangling
    Absent = Absent  Empty = Empty  Partial = Partial  Incomplete = Incomplete
SPECIFICATION Spec
SYMMETRY EitherProc
PROPERTIES ForeignPreserved
