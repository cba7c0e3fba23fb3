---------------------------- MODULE PackageStore ----------------------------
(***************************************************************************)
(* The installed state of winget-termux and the commands that change it.   *)
(*                                                                         *)
(* Every `winget install | uninstall | upgrade | install-url | pin |       *)
(* unpin` is an operating system process of its own.  The processes share  *)
(* nothing but files:                                                      *)
(*                                                                         *)
(*   dir      ~/.winget/programfiles/<id> and ~/.winget/ziparchives/<id>   *)
(*   archive  ~/.winget/ziparchives/<id>/archive.zip                       *)
(*   link     $PREFIX/bin/<alias>                                          *)
(*   marker   ~/.winget/versions/<id>.version                              *)
(*   pinned   ~/.winget/pins/<id>.pin                                      *)
(*   holder   the flock on ~/.winget/locks/<argv id>.lock                  *)
(*                                                                         *)
(* A step of a process is one change of one of these files, or a decision  *)
(* taken from what it reads of them, so that the steps of several          *)
(* processes interleave, and a process may be killed, between any two      *)
(* system calls that matter.                                               *)
(*                                                                         *)
(* Names that end in _Bug are seeded faults: each is the definition after  *)
(* it with a plausible mistake, kept to show that some property notices.   *)
(* No other definition uses them.                                          *)
(***************************************************************************)
CONSTANTS
    Procs,        \* command invocations that may run at the same time
    Names,        \* what a user may type as <id>: package ids, monikers, url:<alias>
    Aliases,      \* command names under $PREFIX/bin
    Versions,     \* payload contents that are some release's true bytes
    Offers,       \* [Names -> SUBSET Manifests]: what the catalogs may answer for a name
    Menu,         \* the commands users type, a subset of Commands
    UrlInstalls,  \* the installs `install-url` may be asked for
    InitialSlots, \* what $PREFIX/bin/<alias> may hold before winget first runs
    PkgCommands,  \* the names `pkg` may take or give up while winget is used
    Faults,       \* what may go wrong: a subset of FaultKinds ("disk": it is full, files
                  \* cannot be created or written, but they can be removed)
    NoProc, NoName, NoVersion, NoJob, NoMarker, Truncated,
    NoLink, Foreign, Dangling,   \* link: nothing, a live command, a dead symlink
    Absent, Empty,               \* dir: no directory, no binary in it,
    Partial, Incomplete          \*   unverified bytes, a part of a verified archive

Backends == {"portable", "zip"}
FaultKinds == {"crash", "network", "corrupt", "unpack", "disk", "lock"}
Commands == {"install", "uninstall", "upgrade", "install_url", "pin", "unpin"}

\* What a manifest tells the commands: the id it declares, its version, and
\* the backend and command alias that FindZip / FindPortable select from it.
Manifests == [id : Names, version : Versions, backend : Backends, alias : Aliases]
Jobs == [id : Names, version : Versions \cup {NoVersion},
         backend : Backends, alias : Aliases]

Contents == Versions \cup {Absent, Empty, Partial, Incomplete}
ManagedLinks == Names \X Backends
Slots == ManagedLinks \cup {NoLink, Foreign, Dangling}
Records == [version : Versions, alias : Aliases]

ASSUME OffersAssumption == Offers \in [Names -> SUBSET Manifests]
ASSUME UrlInstallsAssumption ==
    /\ UrlInstalls \subseteq Manifests
    /\ \A m \in UrlInstalls : m.backend = "portable" /\ Offers[m.id] = {}
ASSUME SlotsAssumption ==
    /\ InitialSlots \subseteq {NoLink, Foreign, Dangling}
    /\ NoLink # Foreign /\ NoLink # Dangling /\ Foreign # Dangling
    /\ {NoLink, Foreign, Dangling} \cap (ManagedLinks \cup Names) = {}
ASSUME SentinelsAssumption ==
    /\ Absent # Empty /\ Absent # Partial /\ Empty # Partial
    /\ Incomplete \notin {Absent, Empty, Partial}
    /\ {Absent, Empty, Partial, Incomplete, NoVersion} \cap Versions = {}
    /\ NoMarker # Truncated /\ {NoMarker, Truncated} \cap Records = {}
    /\ NoProc \notin Procs /\ NoName \notin Names /\ NoJob \notin Jobs
ASSUME EnvironmentAssumption ==
    /\ PkgCommands \subseteq Aliases
    /\ Faults \subseteq FaultKinds /\ Menu \subseteq Commands

VARIABLES dir, archive, link, marker, pinned, holder,  \* the files
          pc, cmd, arg, job                            \* the processes

files == <<dir, archive, link, marker, pinned>>
vars == <<dir, archive, link, marker, pinned, holder, pc, cmd, arg, job>>

\* Where a process stands: the step it takes next, or how its command ended.
Results == {"ok", "skipped", "up_to_date", "not_found", "not_installed",
            "no_alias", "fetch_failed", "bad_hash", "unpack_failed",
            "refused", "link_failed", "leftover"}
InstallSteps == {"fetch", "transfer", "verify", "clear", "unpack", "url_fetch", "place",
                 "check_link", "remove_link", "create_link",
                 "open_marker", "write_marker"}
UninstallSteps == {"unlink", "delete", "confirm", "unmark"}
Steps == {"idle", "lock", "start", "resolve", "pin_check", "pin_write", "unpin"}
           \cup InstallSteps \cup UninstallSteps \cup Results

TypeOK ==
    /\ dir \in [Names \X Backends -> Contents]
    /\ archive \in [Names -> Versions \cup {Absent, Partial}]
    /\ link \in [Aliases -> Slots]
    /\ marker \in [Names -> Records \cup {NoMarker, Truncated}]
    /\ pinned \in SUBSET Names
    /\ holder \in [Names -> Procs \cup {NoProc}]
    /\ pc \in [Procs -> Steps]
    /\ cmd \in [Procs -> Commands \cup {"none"}]
    /\ arg \in [Procs -> Names \cup {NoName}]
    /\ job \in [Procs -> Jobs \cup {NoJob}]

Init ==
    /\ dir = [d \in Names \X Backends |-> Absent]
    /\ archive = [n \in Names |-> Absent]
    /\ link \in [Aliases -> InitialSlots]
    /\ marker = [n \in Names |-> NoMarker]
    /\ pinned = {}
    /\ holder = [n \in Names |-> NoProc]
    /\ pc = [q \in Procs |-> "idle"]
    /\ cmd = [q \in Procs |-> "none"]
    /\ arg = [q \in Procs |-> NoName]
    /\ job = [q \in Procs |-> NoJob]

-----------------------------------------------------------------------------
(* Helpers *)

Goto(q, step) == pc' = [pc EXCEPT ![q] = step]

\* `delete` of one backend's directory: UninstallPortable removes the payload
\* and then the directory it leaves empty, UninstallZip the whole tree.
Without(n, b) ==
    /\ dir' = [dir EXCEPT ![<<n, b>>] = Absent]
    /\ archive' = IF b = "zip" THEN [archive EXCEPT ![n] = Absent] ELSE archive

\* IsOurManagedSymlink: the link's target lies under ~/.winget, whichever
\* package it belongs to and whether or not the target still exists.
IsOurManagedSymlink(a) == link[a] \in ManagedLinks

\* std::filesystem::exists(link) follows the symlink.
Exists(a) ==
    \/ link[a] = Foreign
    \/ /\ IsOurManagedSymlink(a)
       /\ dir[link[a]] \notin {Absent, Empty}

\* A process returns: its descriptor is closed, which drops the flock.
Leaves(q) ==
    /\ pc' = [pc EXCEPT ![q] = "idle"]
    /\ cmd' = [cmd EXCEPT ![q] = "none"]
    /\ arg' = [arg EXCEPT ![q] = NoName]
    /\ job' = [job EXCEPT ![q] = NoJob]
    /\ holder' = [n \in Names |-> IF holder[n] = q THEN NoProc ELSE holder[n]]

-----------------------------------------------------------------------------
(* Starting a command, its lock, and the end of a command *)

Invoke(q) ==
    /\ pc[q] = "idle"
    /\ \/ \E c \in Menu \cap {"install", "uninstall", "upgrade"}, n \in Names :
            /\ cmd' = [cmd EXCEPT ![q] = c]
            /\ arg' = [arg EXCEPT ![q] = n]
            /\ Goto(q, "lock")
            /\ UNCHANGED job
       \/ \E m \in UrlInstalls :
            /\ "install_url" \in Menu
            /\ cmd' = [cmd EXCEPT ![q] = "install_url"]
            /\ arg' = [arg EXCEPT ![q] = m.id]
            /\ job' = [job EXCEPT ![q] = m]
            /\ Goto(q, "lock")
       \/ \E c \in Menu \cap {"pin", "unpin"}, n \in Names :
            /\ cmd' = [cmd EXCEPT ![q] = c]
            /\ arg' = [arg EXCEPT ![q] = n]
            /\ Goto(q, IF c = "pin" THEN "pin_check" ELSE "unpin")
            /\ UNCHANGED job
    /\ UNCHANGED <<files, holder>>

AcquireLock_Bug(q) ==     \* LOCK_SH instead of LOCK_EX
    /\ pc[q] = "lock"
    /\ holder' = [holder EXCEPT ![arg[q]] = q]
    /\ Goto(q, IF cmd[q] = "install_url" THEN "url_fetch" ELSE "start")
    /\ UNCHANGED <<files, cmd, arg, job>>

\* PackageLock: flock(LOCK_EX) on the file named by the command line's id.  When
\* that file cannot be opened nobody is told, and the command goes on without.
AcquireLock(q) ==
    /\ pc[q] = "lock"
    /\ \/ holder[arg[q]] = NoProc /\ holder' = [holder EXCEPT ![arg[q]] = q]
       \/ "lock" \in Faults /\ UNCHANGED holder
    /\ Goto(q, IF cmd[q] = "install_url" THEN "url_fetch" ELSE "start")
    /\ UNCHANGED <<files, cmd, arg, job>>

Exit(q) ==
    /\ pc[q] \in Results
    /\ Leaves(q)
    /\ UNCHANGED files

\* The process is killed; the kernel drops its flock, the files stay.  An
\* extractor it has started inherited the descriptor: it goes on, and the flock
\* stays until it ends.  To the others that is a kill at the extractor's end.
\* An exception that reaches main (a filesystem call without an error code, the
\* catalog's database) ends the process with its files as they are, too.
Crash(q) ==
    LET n == job[q].id
    IN  /\ "crash" \in Faults
        /\ pc[q] \notin Results \cup {"idle"}
        /\ \/ UNCHANGED dir
           \/ /\ pc[q] = "unpack"
              /\ \E content \in {Incomplete} \cup ({archive[n]} \ {Absent}) :
                    dir' = [dir EXCEPT ![<<n, "zip">>] = content]
        /\ Leaves(q)
        /\ UNCHANGED <<archive, link, marker, pinned>>

-----------------------------------------------------------------------------
(* install: self-heal, resolution *)

CleanOrphanedInstall_Bug(q) ==     \* cleans a recorded package too
    /\ pc[q] = "start" /\ cmd[q] = "install"
    /\ dir' = [d \in Names \X Backends |-> IF d[1] = arg[q] THEN Absent ELSE dir[d]]
    /\ archive' = [archive EXCEPT ![arg[q]] = Absent]
    /\ Goto(q, "resolve")
    /\ UNCHANGED <<link, marker, pinned, holder, cmd, arg, job>>

CleanOrphanedInstall_Bug2(q) ==     \* cleans every package that has no record
    /\ pc[q] = "start" /\ cmd[q] = "install"
    /\ dir' = [d \in Names \X Backends |-> IF marker[d[1]] = NoMarker THEN Absent ELSE dir[d]]
    /\ archive' = [n \in Names |-> IF marker[n] = NoMarker THEN Absent ELSE archive[n]]
    /\ Goto(q, "resolve")
    /\ UNCHANGED <<link, marker, pinned, holder, cmd, arg, job>>

\* Without a marker whatever the id's directories hold is a killed install's.
CleanOrphanedInstall(q) ==
    /\ pc[q] = "start" /\ cmd[q] = "install"
    /\ IF marker[arg[q]] = NoMarker
       THEN /\ dir' = [d \in Names \X Backends |-> IF d[1] = arg[q] THEN Absent ELSE dir[d]]
            /\ archive' = [archive EXCEPT ![arg[q]] = Absent]
       ELSE UNCHANGED <<dir, archive>>
    /\ Goto(q, "resolve")
    /\ UNCHANGED <<link, marker, pinned, holder, cmd, arg, job>>

\* ResolveManifestAnywhere, then the choice of an installer.  Catalogs change
\* and servers fail between any two commands, so any offer may be the answer,
\* or none (not found, unreadable, no supported installer, unsafe alias).
ResolveForInstall(q) ==
    /\ pc[q] = "resolve" /\ cmd[q] = "install"
    /\ \/ \E m \in Offers[arg[q]] :
            /\ job' = [job EXCEPT ![q] = m]
            /\ Goto(q, "fetch")
       \/ /\ Goto(q, "not_found")
          /\ UNCHANGED job
    /\ UNCHANGED <<files, holder, cmd, arg>>

-----------------------------------------------------------------------------
(* The two install backends: InstallPortable and InstallZip *)

\* InstallPortable: create_directories, then the download opens its target and
\* truncates it, which is the live payload itself.
FetchPayload(q) ==
    /\ job[q].backend = "portable"
    /\ dir' = [dir EXCEPT ![<<job[q].id, "portable">>] = Partial]
    /\ UNCHANGED archive
    /\ Goto(q, "transfer")

\* InstallZip: the same, but the target is archive.zip beside the live files.
FetchArchive(q) ==
    /\ job[q].backend = "zip"
    /\ dir' = [dir EXCEPT ![<<job[q].id, "zip">>] = IF @ = Absent THEN Empty ELSE @]
    /\ archive' = [archive EXCEPT ![job[q].id] = Partial]
    /\ Goto(q, "transfer")

\* create_directories fails, or creates the directory and the open fails.
FetchFails(q) ==
    LET d == <<job[q].id, job[q].backend>>
    IN  /\ "disk" \in Faults
        /\ \/ UNCHANGED dir
           \/ dir[d] = Absent /\ dir' = [dir EXCEPT ![d] = Empty]
        /\ UNCHANGED archive
        /\ Goto(q, "fetch_failed")

Fetch(q) ==
    /\ pc[q] = "fetch"
    /\ FetchPayload(q) \/ FetchArchive(q) \/ FetchFails(q)
    /\ UNCHANGED <<link, marker, pinned, holder, cmd, arg, job>>

\* The body arrives: all of it, other bytes than the manifest's (which the
\* hash will tell), or an error or the 30 s timeout, which leaves what came.
\* What a full disk does not take is missing, and the download is a success.
\* A file that was removed meanwhile keeps its name free.
Transfer(q) ==
    LET n == job[q].id
        b == job[q].backend
        Receive(content) ==
            IF b = "portable"
            THEN /\ dir' = IF dir[<<n, b>>] \in {Absent, Empty} THEN dir
                           ELSE [dir EXCEPT ![<<n, b>>] = content]
                 /\ UNCHANGED archive
            ELSE /\ archive' = IF archive[n] = Absent THEN archive
                               ELSE [archive EXCEPT ![n] = content]
                 /\ UNCHANGED dir
    IN  /\ pc[q] = "transfer"
        /\ \/ Receive(job[q].version) /\ Goto(q, "verify")
           \/ /\ Faults \cap {"corrupt", "disk"} # {}
              /\ Receive(Partial) /\ Goto(q, "verify")
           \/ "network" \in Faults /\ Receive(Partial) /\ Goto(q, "fetch_failed")
        /\ UNCHANGED <<link, marker, pinned, holder, cmd, arg, job>>

Verify_Bug(q) ==     \* a mismatch is not looked at
    /\ pc[q] = "verify"
    /\ Goto(q, IF job[q].backend = "portable" THEN "check_link" ELSE "clear")
    /\ UNCHANGED <<dir, archive, link, marker, pinned, holder, cmd, arg, job>>

\* The SHA256 of what is on disk now against the manifest's; a mismatch
\* removes the downloaded file and nothing else.
VerifyPayload(q) ==
    LET d == <<job[q].id, "portable">>
    IN  /\ job[q].backend = "portable"
        /\ \/ /\ dir[d] = job[q].version
              /\ Goto(q, "check_link") /\ UNCHANGED dir
           \/ /\ dir[d] # job[q].version
              /\ dir' = [dir EXCEPT ![d] = IF @ = Absent THEN Absent ELSE Empty]
              /\ Goto(q, "bad_hash")
        /\ UNCHANGED archive

VerifyArchive(q) ==
    LET n == job[q].id
    IN  /\ job[q].backend = "zip"
        /\ \/ /\ archive[n] = job[q].version
              /\ Goto(q, "clear") /\ UNCHANGED archive
           \/ /\ archive[n] # job[q].version
              /\ archive' = [archive EXCEPT ![n] = Absent]
              /\ Goto(q, "bad_hash")
        /\ UNCHANGED dir

Verify(q) ==
    /\ pc[q] = "verify"
    /\ VerifyPayload(q) \/ VerifyArchive(q)
    /\ UNCHANGED <<link, marker, pinned, holder, cmd, arg, job>>

\* Zip: remove_all(extracted), create_directories(extracted) ...
ClearExtracted(q) ==
    /\ pc[q] = "clear"
    /\ dir' = [dir EXCEPT ![<<job[q].id, "zip">>] = Empty]
    /\ Goto(q, "unpack")
    /\ UNCHANGED <<archive, link, marker, pinned, holder, cmd, arg, job>>

\* ... then unzip or tar, and the nested binary is looked up and made
\* executable.  It may be missing, or the tool may fail: before it has written
\* the binary, half-way, or behind it, when all of the binary is there.
Unpack(q) ==
    LET n == job[q].id
    IN  /\ pc[q] = "unpack"
        /\ \/ /\ archive[n] # Absent
              /\ dir' = [dir EXCEPT ![<<n, "zip">>] = archive[n]]
              /\ Goto(q, "check_link")
           \/ /\ Faults \cap {"unpack", "disk"} # {} \/ archive[n] = Absent
              /\ \E content \in {Empty, Incomplete} \cup ({archive[n]} \ {Absent}) :
                    dir' = [dir EXCEPT ![<<n, "zip">>] = content]
              /\ Goto(q, "unpack_failed")
        /\ UNCHANGED <<archive, link, marker, pinned, holder, cmd, arg, job>>

CheckLink_Bug(q) ==     \* overwrites whatever is there
    /\ pc[q] = "check_link"
    /\ Goto(q, "remove_link")
    /\ UNCHANGED <<dir, archive, link, marker, pinned, holder, cmd, arg, job>>

CheckLink_Bug2(q) ==     \* any name that exists is refused
    LET a == job[q].alias
    IN  /\ pc[q] = "check_link"
        /\ IF Exists(a)
           THEN Without(job[q].id, job[q].backend) /\ Goto(q, "refused")
           ELSE UNCHANGED <<dir, archive>> /\ Goto(q, "remove_link")
        /\ UNCHANGED <<link, marker, pinned, holder, cmd, arg, job>>

\* exists(link) && !IsOurManagedSymlink(link): refuse, and drop the package's
\* directory, the files of the version that was installed before included.
CheckLink(q) ==
    LET a == job[q].alias
    IN  /\ pc[q] = "check_link"
        /\ IF Exists(a) /\ ~IsOurManagedSymlink(a)
           THEN Without(job[q].id, job[q].backend) /\ Goto(q, "refused")
           ELSE UNCHANGED <<dir, archive>> /\ Goto(q, "remove_link")
        /\ UNCHANGED <<link, marker, pinned, holder, cmd, arg, job>>

\* remove(link): whatever the name holds by now.
RemoveLink(q) ==
    /\ pc[q] = "remove_link"
    /\ link' = [link EXCEPT ![job[q].alias] = NoLink]
    /\ Goto(q, "create_link")
    /\ UNCHANGED <<dir, archive, marker, pinned, holder, cmd, arg, job>>

\* create_symlink fails on a name that is taken.
CreateLink(q) ==
    LET a == job[q].alias
    IN  /\ pc[q] = "create_link"
        /\ \/ /\ link[a] = NoLink
              /\ link' = [link EXCEPT ![a] = <<job[q].id, job[q].backend>>]
              /\ Goto(q, "open_marker")
           \/ /\ link[a] # NoLink \/ "disk" \in Faults
              /\ UNCHANGED link /\ Goto(q, "link_failed")
        /\ UNCHANGED <<dir, archive, marker, pinned, holder, cmd, arg, job>>

\* WriteVersionMarker: ofstream(trunc), then the lines.  Nothing looks at the
\* stream, so a marker that cannot be opened or written is a success as well.
OpenMarker(q) ==
    /\ pc[q] = "open_marker"
    /\ \/ /\ marker' = [marker EXCEPT ![job[q].id] = Truncated]
          /\ Goto(q, "write_marker")
       \/ /\ "disk" \in Faults
          /\ UNCHANGED marker /\ Goto(q, "ok")
    /\ UNCHANGED <<dir, archive, link, pinned, holder, cmd, arg, job>>

WriteMarker_Bug(q) ==     \* the id where the alias belongs
    /\ pc[q] = "write_marker"
    /\ marker' = [marker EXCEPT ![job[q].id] =
                     [version |-> job[q].version, alias |-> job[q].id]]
    /\ Goto(q, "ok")
    /\ UNCHANGED <<dir, archive, link, pinned, holder, cmd, arg, job>>

WriteMarker(q) ==
    /\ pc[q] = "write_marker"
    /\ \/ marker' = [marker EXCEPT ![job[q].id] =
                        [version |-> job[q].version, alias |-> job[q].alias]]
       \/ "disk" \in Faults /\ UNCHANGED marker
    /\ Goto(q, "ok")
    /\ UNCHANGED <<dir, archive, link, pinned, holder, cmd, arg, job>>

-----------------------------------------------------------------------------
(* install-url: the same tail on a file downloaded beforehand *)

\* <alias>.dl.tmp is private to the holder of the url:<alias> lock, and its
\* own hash is what the backend will compare with.
UrlFetch(q) ==
    /\ pc[q] = "url_fetch"
    /\ \/ Goto(q, "place")
       \/ "network" \in Faults /\ Goto(q, "fetch_failed")
    /\ UNCHANGED <<files, holder, cmd, arg, job>>

\* InstallPortableFromLocalFile: rename replaces the payload in one step; the
\* directory cannot be made, nor the file renamed, or the copy that rename falls
\* back on cannot be opened or stops half-way.
Place(q) ==
    /\ pc[q] = "place"
    /\ \/ /\ dir' = [dir EXCEPT ![<<job[q].id, "portable">>] = job[q].version]
          /\ Goto(q, "verify")
       \/ /\ "disk" \in Faults
          /\ \/ UNCHANGED dir
             \/ dir' = [dir EXCEPT ![<<job[q].id, "portable">>] = IF @ = Absent THEN Empty ELSE @]
             \/ dir' = [dir EXCEPT ![<<job[q].id, "portable">>] = Partial]
          /\ Goto(q, "fetch_failed")
    /\ UNCHANGED <<archive, link, marker, pinned, holder, cmd, arg, job>>

-----------------------------------------------------------------------------
(* uninstall *)

\* The alias CmdUninstall recomputes from a manifest when the marker has none:
\* the Zip branch wants a zip installer, the other takes the moniker whatever
\* the manifest's backend is now.
FallbackAliases(m, zipDirExists) ==
    {a \in Aliases : IF m.backend = "zip" THEN zipDirExists => a = m.alias
                     ELSE ~zipDirExists /\ a = m.alias}

\* Which backend's directory exists (Zip wins), and the persisted alias.
Probe(q) ==
    LET n == arg[q]
        zipDirExists == dir[<<n, "zip">>] # Absent
        portableDirExists == dir[<<n, "portable">>] # Absent
        Remove(a) ==
            /\ job' = [job EXCEPT ![q] =
                 [id |-> n, version |-> NoVersion, alias |-> a,
                  backend |-> IF zipDirExists THEN "zip" ELSE "portable"]]
            /\ Goto(q, "unlink")
    IN  /\ pc[q] = "start" /\ cmd[q] = "uninstall"
        /\ \/ /\ ~zipDirExists /\ ~portableDirExists
              /\ Goto(q, "not_installed") /\ UNCHANGED job
           \/ /\ zipDirExists \/ portableDirExists
              /\ marker[n] \in Records
              /\ Remove(marker[n].alias)
           \/ /\ zipDirExists \/ portableDirExists
              /\ marker[n] \notin Records
              /\ \/ Goto(q, "not_found") /\ UNCHANGED job
                 \/ \E m \in Offers[n] :
                      \/ \E a \in FallbackAliases(m, zipDirExists) : Remove(a)
                      \/ /\ FallbackAliases(m, zipDirExists) = {}
                         /\ Goto(q, "no_alias") /\ UNCHANGED job
        /\ UNCHANGED <<files, holder, cmd, arg>>

Unlink_Bug(q) ==     \* exists(link) instead of is_symlink(link)
    LET a == job[q].alias
    IN  /\ pc[q] = "unlink"
        /\ link' = IF IsOurManagedSymlink(a) /\ Exists(a)
                   THEN [link EXCEPT ![a] = NoLink] ELSE link
        /\ Goto(q, "delete")
        /\ UNCHANGED <<dir, archive, marker, pinned, holder, cmd, arg, job>>

\* UninstallPortable / UninstallZip: our symlink, if the name holds one ...
Unlink(q) ==
    LET a == job[q].alias
    IN  /\ pc[q] = "unlink"
        /\ link' = IF IsOurManagedSymlink(a) THEN [link EXCEPT ![a] = NoLink] ELSE link
        /\ Goto(q, "delete")
        /\ UNCHANGED <<dir, archive, marker, pinned, holder, cmd, arg, job>>

\* ... the files of the selected backend ...
Delete(q) ==
    /\ pc[q] = "delete"
    /\ Without(job[q].id, job[q].backend)
    /\ Goto(q, "confirm")
    /\ UNCHANGED <<link, marker, pinned, holder, cmd, arg, job>>

\* ... and "confirm no leftovers": anything at the name counts as one.
Confirm(q) ==
    LET leftover == \/ Exists(job[q].alias)
                    \/ dir[<<job[q].id, job[q].backend>>] # Absent
    IN  /\ pc[q] = "confirm"
        /\ Goto(q, IF leftover THEN "leftover"
                   ELSE IF cmd[q] = "uninstall" THEN "unmark" ELSE "fetch")
        /\ UNCHANGED <<files, holder, cmd, arg, job>>

RemoveMarker(q) ==
    /\ pc[q] = "unmark"
    /\ marker' = [marker EXCEPT ![job[q].id] = NoMarker]
    /\ Goto(q, "ok")
    /\ UNCHANGED <<dir, archive, link, pinned, holder, cmd, arg, job>>

-----------------------------------------------------------------------------
(* upgrade, pin, unpin *)

\* IsPinned looks for the name the user typed.
CheckPin(q) ==
    /\ pc[q] = "start" /\ cmd[q] = "upgrade"
    /\ Goto(q, IF arg[q] \in pinned THEN "skipped" ELSE "resolve")
    /\ UNCHANGED <<files, holder, cmd, arg, job>>

\* The manifest, then the marker of the id the manifest declares.  A
\* different version is an upgrade, and the old files are removed with the
\* backend and the alias of the NEW manifest.
ResolveForUpgrade(q) ==
    /\ pc[q] = "resolve" /\ cmd[q] = "upgrade"
    /\ \/ \E m \in Offers[arg[q]] :
            \/ /\ marker[m.id] = NoMarker
               /\ Goto(q, "not_installed") /\ UNCHANGED job
            \/ /\ marker[m.id] \in Records /\ marker[m.id].version = m.version
               /\ Goto(q, "up_to_date") /\ UNCHANGED job
            \/ /\ marker[m.id] # NoMarker
               /\ marker[m.id] \in Records => marker[m.id].version # m.version
               /\ job' = [job EXCEPT ![q] = m]
               /\ Goto(q, "unlink")
       \/ Goto(q, "not_found") /\ UNCHANGED job
    /\ UNCHANGED <<files, holder, cmd, arg>>

PinCheck_Bug(q) ==     \* waits until nobody holds the package
    /\ pc[q] = "pin_check"
    /\ holder[arg[q]] = NoProc
    /\ Goto(q, IF marker[arg[q]] = NoMarker THEN "not_installed" ELSE "pin_write")
    /\ UNCHANGED <<files, holder, cmd, arg, job>>

\* CmdPin takes no lock: it looks for the marker, then creates the pin, and does
\* not look whether that worked.
PinCheck(q) ==
    /\ pc[q] = "pin_check"
    /\ Goto(q, IF marker[arg[q]] = NoMarker THEN "not_installed" ELSE "pin_write")
    /\ UNCHANGED <<files, holder, cmd, arg, job>>

PinWrite(q) ==
    /\ pc[q] = "pin_write"
    /\ pinned' \in {pinned \cup {arg[q]}} \cup (IF "disk" \in Faults THEN {pinned} ELSE {})
    /\ Goto(q, "ok")
    /\ UNCHANGED <<dir, archive, link, marker, holder, cmd, arg, job>>

Unpin(q) ==
    /\ pc[q] = "unpin"
    /\ pinned' = pinned \ {arg[q]}
    /\ Goto(q, "ok")
    /\ UNCHANGED <<dir, archive, link, marker, holder, cmd, arg, job>>

-----------------------------------------------------------------------------
(* The rest of the machine: `pkg` puts a command of its own at a name, over *)
(* whatever is there, or takes one away.                                    *)

PkgChanges(a) ==
    /\ \/ link[a] # Foreign /\ link' = [link EXCEPT ![a] = Foreign]
       \/ link[a] = Foreign /\ link' = [link EXCEPT ![a] = NoLink]
    /\ UNCHANGED <<dir, archive, marker, pinned, holder, pc, cmd, arg, job>>

\* What a process does by itself once it has been started.
Step(q) ==
    \/ Exit(q)
    \/ CleanOrphanedInstall(q) \/ ResolveForInstall(q)
    \/ Fetch(q) \/ Transfer(q) \/ Verify(q) \/ ClearExtracted(q) \/ Unpack(q)
    \/ CheckLink(q) \/ RemoveLink(q) \/ CreateLink(q)
    \/ OpenMarker(q) \/ WriteMarker(q)
    \/ UrlFetch(q) \/ Place(q)
    \/ Probe(q) \/ Unlink(q) \/ Delete(q) \/ Confirm(q) \/ RemoveMarker(q)
    \/ CheckPin(q) \/ ResolveForUpgrade(q)
    \/ PinCheck(q) \/ PinWrite(q) \/ Unpin(q)

Next ==
    \/ \E q \in Procs : Invoke(q) \/ AcquireLock(q) \/ Step(q) \/ Crash(q)
    \/ \E a \in PkgCommands : PkgChanges(a)

Spec == Init /\ [][Next]_vars

\* The scheduler runs a runnable process; nothing is said of who gets a lock,
\* of what users type, of crashes or of pkg.
FairSpec == Spec /\ \A q \in Procs : WF_vars(Step(q))

-----------------------------------------------------------------------------
(* Conditions on the catalogs under which the commands keep their promises *)

\* Every name a user types is the id the manifest it resolves to declares.
IdsOnly == \A n \in Names : \A m \in Offers[n] : m.id = n

ManifestsOf(n) == Offers[n] \cup {m \in UrlInstalls : m.id = n}
AliasesOf(n) == {m.alias : m \in ManifestsOf(n)}

\* No two packages want the same command name.
OwnAliases == \A n, k \in Names : n # k => AliasesOf(n) \cap AliasesOf(k) = {}

\* Every release of a package comes as the same kind of file with the same
\* command name.
StableReleases ==
    \A n \in Names : \A m, k \in ManifestsOf(n) : m.backend = k.backend /\ m.alias = k.alias

-----------------------------------------------------------------------------
(* Safety *)

Working(q) == pc[q] \in InstallSteps \cup UninstallSteps
AtRest(n) == holder[n] = NoProc

\* Two processes never change the same package at the same time: the flock
\* PackageLock takes on the typed id protects the id of the manifest too.
OneWorkerPerPackage ==
    \A q, r \in Procs : q # r /\ Working(q) /\ Working(r) => job[q].id # job[r].id

Succeeded(q) == pc[q] = "ok" /\ cmd[q] \in {"install", "upgrade", "install_url"}

\* A command that prints "Successfully installed" or "upgraded" has left the
\* verified files and the link to them, whatever other commands did between its
\* download and its end.
SuccessIsInstalled ==
    \A q \in Procs : Succeeded(q) =>
        /\ dir[<<job[q].id, job[q].backend>>] = job[q].version
        /\ link[job[q].alias] = <<job[q].id, job[q].backend>>

\* It has recorded what it installed, too, as long as the disk takes the record:
\* WriteVersionMarker does not tell when it does not.
SuccessIsRecorded ==
    \A q \in Procs : Succeeded(q) =>
        marker[job[q].id] = [version |-> job[q].version, alias |-> job[q].alias]

\* A command that prints "Successfully uninstalled" has left no directory of
\* either backend, no record and no link into the package, even when earlier
\* commands on the package were killed or failed.
UninstallIsClean ==
    \A q \in Procs : pc[q] = "ok" /\ cmd[q] = "uninstall" =>
        /\ \A b \in Backends : dir[<<job[q].id, b>>] = Absent
        /\ marker[job[q].id] = NoMarker
        /\ \A a \in Aliases, b \in Backends : link[a] # <<job[q].id, b>>

\* What a killed or failed command leaves never makes a later one fail: a
\* refusal or a leftover is a stranger's command at the name, and a hash, an
\* archive or a symlink only fails when the environment made it fail.
FailureHasACause ==
    \A q \in Procs :
        /\ pc[q] \in {"refused", "leftover"} => link[job[q].alias] = Foreign
        /\ pc[q] = "bad_hash" => Faults \cap {"corrupt", "disk"} # {}
        /\ pc[q] = "unpack_failed" => Faults \cap {"unpack", "disk"} # {}
        /\ pc[q] = "link_failed" => "disk" \in Faults

\* A command on the PATH never points into a Zip package whose archive was not
\* checked before it was unpacked to where the link points.  (A Portable package
\* is downloaded to where the link points, and checked there.)
LinkedZipIsVerified ==
    \A a \in Aliases, n \in Names : link[a] = <<n, "zip">> => dir[<<n, "zip">>] # Partial

\* As long as nothing is killed, archives unpack and the disk takes what is
\* written: when no command holds the package, a link into it is recorded with
\* that alias, and the version the record shows is the version that runs, however
\* many downloads failed half-way or brought other bytes.
RecordMatchesCommand ==
    \A a \in Aliases, n \in Names, b \in Backends :
        AtRest(n) /\ link[a] = <<n, b>> =>
            /\ marker[n] \in Records
            /\ marker[n].alias = a
            /\ dir[<<n, b>>] \in Versions => marker[n].version = dir[<<n, b>>]

\* As long as nothing fails: when no command holds the package, it has a
\* record if and only if it has files, and its record's command then runs
\* them.
AtRestRecordedIsRunnable ==
    \A n \in Names : AtRest(n) =>
        IF marker[n] = NoMarker
        THEN \A b \in Backends : dir[<<n, b>>] = Absent
        ELSE /\ marker[n] \in Records
             /\ \E b \in Backends : /\ link[marker[n].alias] = <<n, b>>
                                    /\ dir[<<n, b>>] = marker[n].version

-----------------------------------------------------------------------------
(* What a step may never do *)

\* No step of winget-termux removes or replaces a live command that is not
\* its own, whatever manifests share its name, however the commands
\* interleave, fail and are killed (as long as pkg itself does not take the
\* name between the check and the removal).
ForeignPreserved ==
    [][\A a \in Aliases \ PkgCommands : link[a] = Foreign => link'[a] = Foreign]_vars

\* A package's command is taken away or replaced only while a command works on
\* that package.
OthersPreserved ==
    [][\A a \in Aliases, n \in Names, b \in Backends :
          link[a] = <<n, b>> /\ link'[a] # link[a] => holder[n] # NoProc]_vars

\* Only the process that holds a package's lock changes its files and record.
OnlyTheHolderWrites ==
    [][\A n \in Names :
         \/ marker'[n] # marker[n]
         \/ archive'[n] # archive[n]
         \/ \E b \in Backends : dir'[<<n, b>>] # dir[<<n, b>>]
         => holder[n] # NoProc /\ pc'[holder[n]] # pc[holder[n]]]_vars

\* An upgrade never starts to replace a package that is pinned when it passes
\* the pin check.
PinnedIsSkipped ==
    [][\A q \in Procs : pc[q] = "start" /\ pc'[q] = "resolve" /\ cmd[q] = "upgrade"
         => \A m \in Offers[arg[q]] : m.id \notin pinned]_vars

-----------------------------------------------------------------------------
(* Liveness *)

\* A command that has its lock, or needs none, ends: no branch of any command
\* waits for another process, so a lock is always given back.
CommandsFinish ==
    \A q \in Procs : pc[q] \notin {"idle", "lock"} ~> pc[q] = "idle"

-----------------------------------------------------------------------------
(* Refinement *)

\* A name belongs to the package its symlink points into; a package is being
\* worked on while its lock is held.
SlotOf(a) == IF IsOurManagedSymlink(a) THEN link[a][1] ELSE link[a]

Promise == INSTANCE CommandSlots
              WITH Packages <- Names, Names <- Aliases, Wants <- [n \in Names |-> AliasesOf(n)],
                 Free <- NoLink, Stranger <- Foreign,
                 slot <- [a \in Aliases |-> SlotOf(a)],
                 busy <- {n \in Names : holder[n] # NoProc}

\* The commands keep the promise CommandSlots states of $PREFIX/bin: they leave
\* strangers alone, and what a name belongs to changes only while a command works
\* on a package one of whose releases wants that name.
SlotsPromise == Promise!Spec

=============================================================================
