CONSTANTS
    p1 = p1  p2 = p2  pu = pu
    s1 = s1  s2 = s2
    f1 = f1  f2 = f2  f3 = f3
    newest = newest  older = older  other = other  urls = urls
    Ids = {p1, p2, pu}
    Newest = 3
    Sources = {s1, s2}
    Files = {f1, f2, f3}
    Paths = {newest, older, other, urls}
    FileNames <- NamesOfFiles
    Supported <- WithInstaller
    UrlIds = {pu}
    PathOf <- PathsOf
    MayPublish <- WillPublish
    PublishedFirst <- First
    Flaky = {s2}
    RegisteredFirst <- Order
    RecordedFirst <- Installed
    ExportedFirst <- Brought
    Patience = 4
    Faults = {"crash", "network", "disk", "exception"}
    Local = Local  NoRecord = NoRecord
    NoFile = NoFile  Unreadable = Unreadable
SPECIFICATION Spec
CHECK_DEADLOCK FALSE
INVARIANTS TypeOK  QuietImportRestores
  
