------------------------------ MODULE Catalogs ------------------------------
(***************************************************************************)
(* What winget-termux finds in its catalogs, and the commands that live on *)
(* the answer: index, install, uninstall, upgrade [--all], list, export,   *)
(* import, pin, and the source commands as far as they change the answer.  *)
(*                                                                         *)
(*   rows        the local SQLite catalog: which stored file a release has *)
(*   stored      the manifests under ~/.winget/manifests, by file name     *)
(*   sources     sources.list, in the order in which sources are asked     *)
(*   snapshot    what <name>.db lists; nothing, when it cannot be read     *)
(*   published   what the server of each source has under each path        *)
(*   health      what is on disk and on PATH for each package              *)
(*   record      the version marker of each package                        *)
(*                                                                         *)
(* One action is one command, except for `index`, which changes the file   *)
(* and the catalog one after the other, and for `upgrade` and `import`,    *)
(* which visit one package after the other while other shells run.  What   *)
(* happens inside the install of one package is the subject of             *)
(* PackageStore.                                                           *)
(*                                                                         *)
(* Names that end in _Bug are seeded faults: each is the definition after  *)
(* it with a plausible mistake, kept to show that some property notices.   *)
(***************************************************************************)
EXTENDS Naturals, Sequences

CONSTANTS
    Ids, Newest,    \* packages; the number of their versions
    Sources,        \* remote sources
    Files,          \* names of stored manifest files
    Paths,          \* paths of manifest files on a server
    FileNames,      \* [Releases -> SUBSET Files]: what the user's manifest of it may be called
    Supported,      \* the releases with a Zip, Portable or Script installer
    UrlIds,         \* the url:<alias> packages, which no catalog knows
    PathOf,         \* [Sources -> [Releases -> Paths]]: where a server has a release; the
                    \* catalog of this repository has one path for all versions of a package
    MayPublish,     \* [Sources -> SUBSET Releases]: what they put up or take down
    PublishedFirst, \* [Sources -> [Paths -> Releases \cup {NoFile}]]
    Flaky,          \* the sources whose server may be out of reach
    RegisteredFirst, \* the sources of the beginning, in their order
    RecordedFirst,  \* [Ids -> Records \cup {NoRecord}]: what is installed then
    ExportedFirst,  \* an export file brought along from another device
    Patience,       \* how many commands are typed and servers change (a bound of the model)
    Faults,         \* what may go wrong: a subset of FaultKinds ("disk": it is full, and
                    \* files cannot be written; "exception": SQLite or the filesystem throws)
    Local, NoRecord, NoFile, Unreadable

Versions == 1..Newest      \* in their order
Releases == [id : Ids, version : Versions]
Records == [version : Versions \cup {0}, source : Sources \cup {Local}]
Rows == [id : Ids, version : Versions, file : Files]
Entries == [id : Ids, pinned : BOOLEAN]
FaultKinds == {"crash", "network", "disk", "exception"}

ASSUME NewestAssumption == Newest \in Nat
ASSUME FileNamesAssumption == FileNames \in [Releases -> SUBSET Files]
ASSUME PublishAssumption ==
    /\ PathOf \in [Sources -> [Releases -> Paths]]
    /\ MayPublish \in [Sources -> SUBSET Releases]
    /\ PublishedFirst \in [Sources -> [Paths -> Releases \cup {NoFile}]]
    /\ \A s \in Sources, p \in Paths :
          PublishedFirst[s][p] \in Releases => PathOf[s][PublishedFirst[s][p]] = p
ASSUME FirstAssumption ==
    /\ RegisteredFirst \in Seq(Sources)
    /\ \A i, j \in DOMAIN RegisteredFirst : RegisteredFirst[i] = RegisteredFirst[j] => i = j
    /\ RecordedFirst \in [Ids -> Records \cup {NoRecord}]
    /\ ExportedFirst \subseteq Entries
ASSUME SentinelAssumption ==
    /\ Local \notin Sources /\ NoRecord \notin Records
    /\ NoFile \notin Files /\ NoFile # Unreadable
    /\ {NoFile, Unreadable} \cap Releases = {}
ASSUME EnvironmentAssumption == Faults \subseteq FaultKinds /\ Patience \in Nat

VARIABLES rows, stored, indexing,                \* the local catalog
          sources, snapshot, published, online,  \* the remote ones
          health, record, pinned,                \* the packages
          exported, batch,                       \* the export file, the loop of a command
          events                                 \* how much has happened, for the bound

local == <<rows, stored, indexing>>
remote == <<sources, snapshot, published, online>>
packages == <<health, record, pinned>>
vars == <<rows, stored, indexing, sources, snapshot, published, online,
          health, record, pinned, exported, batch, events>>

\* A loop is quiet as long as nothing else happens in any shell or on a server, and
\* the disk has taken each record and pin that it wrote.
Idle == [kind |-> "idle", left |-> {}, ok |-> {}, failed |-> {}, quiet |-> FALSE]
Registered == {sources[i] : i \in DOMAIN sources}
Listing(s) == {published[s][p] : p \in Paths} \ {NoFile}   \* the catalog file on the server

\* Every variable has its type, and a source is registered at most once.
TypeOK ==
    /\ rows \in SUBSET Rows
    /\ stored \in [Files -> Releases \cup {NoFile, Unreadable}]
    /\ indexing \in SUBSET Files
    /\ sources \in Seq(Sources)
    /\ \A i, j \in DOMAIN sources : sources[i] = sources[j] => i = j
    /\ snapshot \in [Sources -> SUBSET Releases]
    /\ published \in [Sources -> [Paths -> Releases \cup {NoFile}]]
    /\ online \in SUBSET Sources
    /\ health \in [Ids -> {"none", "leftover", "runs"}]
    /\ record \in [Ids -> Records \cup {NoRecord}]
    /\ pinned \in SUBSET Ids
    /\ exported \in SUBSET Entries
    /\ batch \in [kind : {"idle", "upgrade", "import"}, left : SUBSET Entries,
                  ok : SUBSET Ids, failed : SUBSET Ids, quiet : BOOLEAN]
    /\ events \in 0..Patience

Init ==
    /\ rows = {}
    /\ stored = [f \in Files |-> NoFile]
    /\ indexing = {}
    /\ sources = RegisteredFirst
    /\ published = PublishedFirst
    /\ snapshot = [s \in Sources |-> IF s \in Registered THEN Listing(s) ELSE {}]
    /\ online = Sources
    /\ health = [n \in Ids |-> IF RecordedFirst[n] = NoRecord THEN "none" ELSE "runs"]
    /\ record = RecordedFirst
    /\ pinned = {}
    /\ exported = ExportedFirst
    /\ batch = Idle
    /\ events = 0

-----------------------------------------------------------------------------
(* Resolution *)

OfPackage(n, releases) == {r \in releases : r.id = n}

Latest_Bug(n, releases) ==     \* the row that Search returns, here the oldest
    CHOOSE r \in OfPackage(n, releases) :
        \A q \in OfPackage(n, releases) : r.version <= q.version

\* GetVersionKeysById, the first key.
Latest(n, releases) ==
    CHOOSE r \in OfPackage(n, releases) :
        \A q \in OfPackage(n, releases) : q.version <= r.version

None == [kind |-> "none"]
Throws == [kind |-> "throws"]
Found(r, s) == [kind |-> "found", release |-> r, source |-> s]

\* The parse of a stored file throws when it is missing or not a manifest, and
\* nothing up to main catches that.
ResolveManifestById(n) ==
    IF OfPackage(n, rows) = {} THEN None
    ELSE LET content == stored[Latest(n, rows).file]
         IN  IF content \in Releases THEN Found(content, Local) ELSE Throws

\* What the server has under the path of the latest release that was listed at the
\* last update, whatever release that is by now.  Whatever goes wrong is caught, and
\* the source has not got the package.
ResolveManifestFromSource(s, n) ==
    LET content == published[s][PathOf[s][Latest(n, snapshot[s])]]
    IN  IF OfPackage(n, snapshot[s]) # {} /\ s \in online /\ content \in Releases
        THEN Found(content, s) ELSE None

ResolveManifestAnywhere(n) ==
    LET mine == ResolveManifestById(n)
        having == {i \in DOMAIN sources : ResolveManifestFromSource(sources[i], n) # None}
        first == CHOOSE i \in having : \A j \in having : i <= j
    IN  IF mine # None THEN mine
        ELSE IF having = {} THEN None
        ELSE ResolveManifestFromSource(sources[first], n)

RecordedSource(n) == IF record[n] = NoRecord THEN Local ELSE record[n].source

ResolveForUpgrade_Bug(n) ==     \* whoever answers first
    ResolveManifestAnywhere(n)

\* CmdUpgrade: the persisted source first, and all of them when it fails.
ResolveForUpgrade(n) ==
    LET own == RecordedSource(n)
    IN  IF own # Local /\ own \in Registered /\ ResolveManifestFromSource(own, n) # None
        THEN ResolveManifestFromSource(own, n)
        ELSE ResolveManifestAnywhere(n)

-----------------------------------------------------------------------------
(* install, upgrade and uninstall of one package, by their outcomes *)

Outcome(rc, h, m) == [rc |-> rc, health |-> h, record |-> m]
Nothing(rc) == {Outcome(rc, health, record)}
When(faults, outcomes) == IF Faults \cap faults # {} THEN outcomes ELSE {}

Mark(n, v, s) == [record EXCEPT ![n] = [version |-> v, source |-> s]]

Deliver_Bug(a, before) ==       \* a marker that exists is not written again
    LET n == a.release.id
    IN  {Outcome("ok", [before EXCEPT ![n] = "runs"],
                 IF record[n] = NoRecord THEN Mark(n, a.release.version, a.source) ELSE record)}

\* InstallPortable or InstallZip over what `before` leaves, then WriteVersionMarker,
\* whose failure nobody notices.  A failure may leave an unusable directory, none, or
\* a command that was there before; a kill, or an exception, which only main catches,
\* any of these, a marker cut short, or a finished installation nobody is told of.
Deliver(a, before) ==
    LET n == a.release.id
        marked == Mark(n, a.release.version, a.source)
        cut == Mark(n, 0, Local)
        With(h) == [before EXCEPT ![n] = h]
    IN  {Outcome("ok", With("runs"), marked)}
        \cup When({"disk"}, {Outcome("unrecorded", With("runs"), m) : m \in {record, cut}})
        \cup When({"network", "disk"}, {Outcome("failed", With(h), record) :
                                           h \in {"none", "leftover", before[n]}})
        \cup When({"crash", "exception"}, {Outcome("stopped", With(h), record) :
                                              h \in {"none", "leftover", "runs"}}
                           \cup {Outcome("stopped", With("runs"), m) : m \in {marked, cut}})

\* CmdInstall: an orphan of the name typed is cleared whatever follows.
Install(n) ==
    LET a == ResolveManifestAnywhere(n)
        Cleaned(h) ==
            IF record[n] = NoRecord /\ health[n] # "none" THEN [health EXCEPT ![n] = h] ELSE health
        cleaned == Cleaned("none")
    IN  (CASE a.kind = "none" -> {Outcome("not_found", cleaned, record)}
           [] a.kind = "throws" -> {Outcome("stopped", cleaned, record)}
           [] a.kind = "found" -> IF a.release \in Supported THEN Deliver(a, cleaned)
                                  ELSE {Outcome("unsupported", cleaned, record)})
        \cup When({"crash", "exception"}, {Outcome("stopped", h, record) :
                                              h \in {health, Cleaned("leftover"), cleaned}})

\* CmdUpgrade: any difference of versions is an upgrade, and the old version
\* is gone before the new one is fetched.
Upgrade(n) ==
    LET a == ResolveForUpgrade(n)
        m == a.release
    IN  (IF n \in pinned THEN Nothing("ok")
         ELSE CASE a.kind = "none" -> Nothing("not_found")
                [] a.kind = "throws" -> Nothing("stopped")
                [] a.kind = "found" ->
                     IF m \notin Supported THEN Nothing("unsupported")
                     ELSE IF record[m.id] = NoRecord THEN Nothing("not_installed")
                     ELSE IF record[m.id].version = m.version THEN Nothing("ok")
                     ELSE Deliver(a, [health EXCEPT ![m.id] = "none"]))
        \cup When({"crash", "exception"}, Nothing("stopped"))

HasAlias(n) == record[n] # NoRecord /\ record[n].version # 0

\* CmdUninstall: without an alias of its own it asks the catalogs for one.
\* A kill leaves at most files without a command, and the record.
Uninstall(n) ==
    LET a == IF HasAlias(n) THEN None ELSE ResolveManifestAnywhere(n)
    IN  (IF health[n] = "none" THEN Nothing("not_installed")
         ELSE IF ~HasAlias(n) /\ a.kind = "none" THEN Nothing("not_found")
         ELSE IF ~HasAlias(n) /\ a.kind = "throws" THEN Nothing("stopped")
         ELSE {Outcome("ok", [health EXCEPT ![n] = "none"], [record EXCEPT ![n] = NoRecord])}
              \cup When({"crash", "exception"}, {Outcome("stopped", [health EXCEPT ![n] = h], record) :
                                                    h \in {"none", "leftover"}}))
        \cup When({"crash", "exception"}, Nothing("stopped"))

Becomes(o) == health' = o.health /\ record' = o.record

-----------------------------------------------------------------------------
(* Reports *)

\* CmdList shows what has a directory, an alias, and a command that runs.
ListShows(n) ==
    health[n] = "runs" /\ (HasAlias(n) \/ ResolveManifestById(n).kind = "found")

\* list --upgrade-available.
Announced(n) ==
    LET a == ResolveManifestAnywhere(n)
    IN  /\ ListShows(n) /\ record[n] # NoRecord /\ n \notin pinned
        /\ a.kind = "found" /\ a.release.version # record[n].version

ScanInstalled == {n \in Ids : health[n] # "none"}

-----------------------------------------------------------------------------
(* Commands of one step, typed in any shell, whatever a loop is doing *)

Event == events < Patience /\ events' = events + 1
Meanwhile == batch' = [batch EXCEPT !.quiet = FALSE]

InstallCommand(n) ==
    /\ Event /\ Meanwhile
    /\ \E o \in Install(n) : Becomes(o)
    /\ UNCHANGED <<local, remote, pinned, exported>>

UninstallCommand(n) ==
    /\ Event /\ Meanwhile
    /\ \E o \in Uninstall(n) : Becomes(o)
    /\ UNCHANGED <<local, remote, pinned, exported>>

\* CmdInstallUrl: no catalog is asked, and the version is a part of the hash.
InstallUrl(n) ==
    /\ Event /\ Meanwhile
    /\ n \in UrlIds
    /\ \E v \in Versions : \E o \in Deliver(Found([id |-> n, version |-> v], Local), health) :
          Becomes(o)
    /\ UNCHANGED <<local, remote, pinned, exported>>

\* CmdPin does not look whether the pin could be created.
CmdPin(n) == {pinned \cup {n}} \cup When({"disk"}, {pinned})

Pin(n) ==
    /\ Event /\ Meanwhile
    /\ pinned' \in IF record[n] = NoRecord THEN {pinned} ELSE CmdPin(n)
    /\ UNCHANGED <<local, remote, health, record, exported>>

Unpin(n) ==
    /\ Event /\ Meanwhile
    /\ pinned' = pinned \ {n}
    /\ UNCHANGED <<local, remote, health, record, exported>>

\* A file that is cut short is not JSON, and import visits nothing.
Export ==
    /\ Event /\ Meanwhile
    /\ exported' \in {{[id |-> n, pinned |-> n \in pinned] :
                          n \in {m \in ScanInstalled : record[m] # NoRecord}}}
                     \cup When({"disk"}, {exported, {}})
    /\ UNCHANGED <<local, remote, packages>>

\* The three source commands by their effect on what is resolved; their steps
\* are the subject of SourceRegistry.
SourceAdd_Bug(s) ==     \* the name is not looked for first
    /\ Event /\ Meanwhile
    /\ s \in online
    /\ sources' = Append(sources, s)
    /\ snapshot' = [snapshot EXCEPT ![s] = Listing(s)]
    /\ UNCHANGED <<local, packages, exported, published, online>>

SourceAdd(s) ==
    /\ Event /\ Meanwhile
    /\ s \notin Registered /\ s \in online
    /\ sources' = Append(sources, s)
    /\ snapshot' = [snapshot EXCEPT ![s] = Listing(s)]
    /\ UNCHANGED <<local, packages, exported, published, online>>

SourceUpdate(s) ==
    /\ Event /\ Meanwhile
    /\ s \in Registered /\ s \in online
    /\ snapshot' = [snapshot EXCEPT ![s] = Listing(s)]
    /\ UNCHANGED <<local, packages, exported, sources, published, online>>

SourceRemove(s) ==
    /\ Event /\ Meanwhile
    /\ \E i \in DOMAIN sources :
          /\ sources[i] = s
          /\ sources' = SubSeq(sources, 1, i - 1) \o SubSeq(sources, i + 1, Len(sources))
    /\ snapshot' = [snapshot EXCEPT ![s] = {}]
    /\ UNCHANGED <<local, packages, exported, published, online>>

-----------------------------------------------------------------------------
(* index *)

\* CmdIndex copies the manifest over whatever has its name.  A copy that
\* fails or is killed halfway is no manifest, and the command ends.
StageManifest(r, f) ==
    /\ Event /\ Meanwhile
    /\ f \in FileNames[r]
    /\ \/ stored' = [stored EXCEPT ![f] = r] /\ indexing' = indexing \cup {f}
       \/ /\ Faults \cap {"disk", "crash"} # {}
          /\ stored' = [stored EXCEPT ![f] = Unreadable]
          /\ UNCHANGED indexing
    /\ UNCHANGED <<rows, remote, packages, exported>>

\* AddManifest parses the copy; it refuses what is not a manifest, an {id,
\* version} the catalog has, and a path it has.
AddManifest(f) ==
    /\ f \in indexing /\ Meanwhile
    /\ LET content == stored[f]
           refused == \/ content \notin Releases
                      \/ \E row \in rows : row.file = f \/ (row.id = content.id /\ row.version = content.version)
       IN  rows' = IF refused THEN rows
                   ELSE rows \cup {[id |-> content.id, version |-> content.version, file |-> f]}
    /\ indexing' = indexing \ {f}
    /\ UNCHANGED <<stored, remote, packages, exported, events>>

KillIndex(f) ==
    /\ "crash" \in Faults /\ f \in indexing /\ Meanwhile
    /\ indexing' = indexing \ {f}
    /\ UNCHANGED <<rows, stored, remote, packages, exported, events>>

-----------------------------------------------------------------------------
(* upgrade, upgrade --all and import: a loop over packages *)

Begin(kind, entries) ==
    /\ Event
    /\ batch.kind = "idle"
    /\ batch' = [kind |-> kind, left |-> entries, ok |-> {}, failed |-> {}, quiet |-> TRUE]
    /\ UNCHANGED <<local, remote, packages, exported>>

ToUpgrade(ids) == {[id |-> n, pinned |-> FALSE] : n \in ids}

UpgradeOne(n) == Begin("upgrade", ToUpgrade({n}))
UpgradeAll == ScanInstalled # {} /\ Begin("upgrade", ToUpgrade(ScanInstalled))
Import == exported # {} /\ Begin("import", exported)

\* What an exception or a kill leaves undone stays undone: only main catches.
Tally(e, rc, pinKept) ==
    batch' = IF rc = "stopped" THEN Idle
             ELSE IF rc \in {"ok", "unrecorded"}
                  THEN [batch EXCEPT !.left = @ \ {e}, !.ok = @ \cup {e.id},
                                     !.quiet = @ /\ rc = "ok" /\ pinKept]
                  ELSE [batch EXCEPT !.left = @ \ {e}, !.failed = @ \cup {e.id}]

VisitForUpgrade(e) ==
    /\ batch.kind = "upgrade"
    /\ UNCHANGED <<local, remote, pinned, exported, events>>
    /\ \E o \in Upgrade(e.id) : Becomes(o) /\ Tally(e, o.rc, TRUE)

VisitForImport_Bug(e) ==    \* CmdPin before CmdInstall has written a record
    /\ batch.kind = "import"
    /\ UNCHANGED <<local, remote, exported, events>>
    /\ \E o \in Install(e.id) : Becomes(o) /\ Tally(e, o.rc, TRUE)
    /\ pinned' = IF e.pinned /\ record[e.id] # NoRecord THEN pinned \cup {e.id} ELSE pinned

\* CmdInstall, and CmdPin for what was pinned when it was exported.
VisitForImport(e) ==
    /\ batch.kind = "import"
    /\ UNCHANGED <<local, remote, exported, events>>
    /\ \E o \in Install(e.id) :
          LET pins == o.rc \in {"ok", "unrecorded"} /\ e.pinned /\ o.record[e.id] # NoRecord
          IN  /\ Becomes(o)
              /\ pinned' \in IF pins THEN CmdPin(e.id) ELSE {pinned}
              /\ Tally(e, o.rc, pins => e.id \in pinned')

Finish ==
    /\ batch.kind # "idle" /\ batch.left = {}
    /\ batch' = Idle
    /\ UNCHANGED <<local, remote, packages, exported, events>>

-----------------------------------------------------------------------------
(* The servers *)

\* A release is put where the server has it, in place of the one that was there, or
\* withdrawn; the catalog on the server follows, the copies of it do not.
Publish(s, r) ==
    /\ Event /\ Meanwhile
    /\ r \in MayPublish[s]
    /\ LET p == PathOf[s][r]
       IN  \/ published' = [published EXCEPT ![s][p] = r]
           \/ published[s][p] = r /\ published' = [published EXCEPT ![s][p] = NoFile]
    /\ UNCHANGED <<local, packages, exported, sources, snapshot, online>>

Reachability(s) ==
    /\ "network" \in Faults /\ s \in Flaky /\ Event /\ Meanwhile
    /\ online' = IF s \in online THEN online \ {s} ELSE online \cup {s}
    /\ UNCHANGED <<local, packages, exported, sources, snapshot, published>>

-----------------------------------------------------------------------------
Next ==
    \/ \E n \in Ids :
          \/ InstallCommand(n) \/ UninstallCommand(n) \/ InstallUrl(n)
          \/ Pin(n) \/ Unpin(n) \/ UpgradeOne(n)
    \/ \E s \in Sources : SourceAdd(s) \/ SourceUpdate(s) \/ SourceRemove(s) \/ Reachability(s)
    \/ \E s \in Sources : \E r \in MayPublish[s] : Publish(s, r)
    \/ \E r \in Releases : \E f \in FileNames[r] : StageManifest(r, f)
    \/ \E f \in Files : AddManifest(f) \/ KillIndex(f)
    \/ Export \/ UpgradeAll \/ Import
    \/ (\E e \in batch.left : VisitForUpgrade(e) \/ VisitForImport(e))
    \/ Finish

Spec == Init /\ [][Next]_vars

-----------------------------------------------------------------------------
(* Properties *)

\* What the catalog says is stored, is stored, and is a manifest of that package or
\* no manifest at all: a copy cut short, a refused re-index and an index in another
\* shell never make the catalog deliver another package (CmdIndex copies a manifest
\* "so ResolveManifestById can find it again later").
RowsFindTheirPackage ==
    \A row \in rows :
        /\ stored[row.file] # NoFile
        /\ stored[row.file] \in Releases => stored[row.file].id = row.id

Offers(s, n) ==     \* what the catalog of a source lists
    OfPackage(n, IF s = Local THEN {[id |-> row.id, version |-> row.version] : row \in rows}
                 ELSE snapshot[s])

Replaced(n) ==      \* an upgrade wrote a new record for n
    /\ batch.kind = "upgrade" /\ n \in {e.id : e \in batch.left \ batch'.left}
    /\ record'[n] # record[n] /\ record'[n].version # 0

\* An upgrade comes from where the package came from as long as that source is
\* registered and serves it, whoever else offers the package and whatever the
\* order of the sources has become (CmdUpgrade, "should come from the same
\* place the package did").
KeepsSource(n) ==
    LET own == RecordedSource(n)
    IN  Replaced(n) /\ own \in Registered /\ ResolveManifestFromSource(own, n) # None
           => record'[n].source = own

UpgradeKeepsSource == [][\A n \in Ids : KeepsSource(n)]_vars

Faithful ==     \* no refused or failed index has touched a stored manifest
    \A row \in rows : stored[row.file] = [id |-> row.id, version |-> row.version]

ServesWhatItLists(s, n) ==
    LET latest == Latest(n, snapshot[s])
    IN  s \in online /\ published[s][PathOf[s][latest]] = latest

\* Versions are only compared for being different, and still an upgrade goes back
\* to an older release only if the source of the installed one does not list it any
\* more, is not registered, or does not serve the latest release it lists, because
\* it is out of reach or has another file there now (CmdUpgrade with
\* GetVersionKeysById).
NeverGoesBack(n) ==
    LET own == RecordedSource(n)
    IN  /\ Replaced(n) /\ record'[n].version < record[n].version
        /\ [id |-> n, version |-> record[n].version] \in Offers(own, n)
        => IF own = Local THEN ~Faithful
           ELSE own \notin Registered \/ ~ServesWhatItLists(own, n)

UpgradeNeverGoesBack == [][\A n \in Ids : NeverGoesBack(n)]_vars

\* After an upgrade that nobody disturbed, `list --upgrade-available` repeats
\* of the packages that went well only those for which another source answers
\* first than the one upgrade prefers (CmdList against CmdUpgrade).
QuietUpgradeSettles ==
    batch.kind = "upgrade" /\ batch.quiet /\ batch.left = {} =>
        \A n \in batch.ok :
            Announced(n) => ResolveManifestAnywhere(n).source # RecordedSource(n)

\* An import that nobody disturbed and that counts no failure has installed
\* every exported package, and pinned what was pinned (CmdImport).
QuietImportRestores ==
    batch.kind = "import" /\ batch.quiet /\ batch.left = {} /\ batch.failed = {} =>
        \A e \in exported :
            /\ health[e.id] = "runs" /\ HasAlias(e.id)
            /\ e.pinned => e.id \in pinned
=============================================================================
