# A verification project for winget-termux

winget-termux is a native port of `winget` to Android/Termux: one command-line
program that installs commands into `$PREFIX/bin` from manifests found in local
and remote catalogs. Nothing of it stays running. Every command is a process of
its own, several may run at once, any of them may be killed, and all they share
is files. This directory holds TLA+ models of that program, the TLC
configurations that check them, and theorems about them with TLAPS proofs.

    tlc -workers 2 -config faults.cfg MCPackageStore.tla
    tlapm PackageStore_proofs.tla

The components are in three groups that share no state: the processes and files
of single commands (`PackageStore`, `SourceRegistry`), what the catalogs answer
to a sequence of commands (`Catalogs`), and the parts of winget-cli's library
that this port replaces (`DeviceCodeFlow`, `SearchResults`, `MsiArguments`,
`Utf8`).

## Inventory

| Part | Source | State it keeps | Operations | What makes it correct |
|---|---|---|---|---|
| Package commands | `extra/winget_cli.cpp` 462-770, 942-1019 | `~/.winget/versions/<id>.version`, `~/.winget/pins/<id>.pin` | install, uninstall, upgrade, install-url, pin, unpin | success means what it says; a record describes what runs; failures and kills are repaired by later commands; pins are honoured |
| Package lock | `winget_cli.cpp` 61-89 | `flock` on `~/.winget/locks/<id>.lock` | taken by four commands, dropped when the process ends | two processes never work on one package; a dead process blocks nobody |
| Portable backend | `extra/PortableInstallerTermux.cpp` | `~/.winget/programfiles/<id>/payload`, a symlink in `$PREFIX/bin` | InstallPortable, InstallPortableFromLocalFile, UninstallPortable | only verified bytes run; a stranger's command is never touched |
| Zip backend | `extra/ZipInstallerTermux.cpp` | `~/.winget/ziparchives/<id>/{archive.zip,extracted}`, a symlink | InstallZip, UninstallZip | the same |
| Source registry | `winget_cli.cpp` 275-370, 772-864 | `sources.list`, `<name>.db`, `<name>.db.tmp` | source add, remove, update | a registered source has a usable catalog; a refresh swaps atomically |
| Manifest resolution | `winget_cli.cpp` 91-193, 372-460 | none (a manifest cache that is written and never read for an answer) | ResolveManifestById, ...FromSource, ...Anywhere | the order local, persisted source, others; one broken source does not hide another; the answer is the package asked for, and not an older release than the installed one |
| Local catalog, reports | `winget_cli.cpp` 869-942, 1021-1333 | the SQLite catalog and the manifests stored beside it | index, list, search, show, source list, source export | catalog and stored manifest agree; `list` announces what `upgrade` would do |
| Batch commands | `winget_cli.cpp` 1333-1443 | the loop, the export file | upgrade --all, export, import | one failure does not stop the rest; what was exported is what an import restores |
| hash, validate, download | `winget_cli.cpp` 1445-1548 | one file at most | | |
| Search results of the SQLite index | `extra/replacements/srt1x.cpp, srt20.cpp` | a temporary table of results | search and filter by field, remove duplicates, limit | the result is what search and filters ask for together, each package once with its best match, cut off at the limit only with a notice |
| msiexec arguments | `extra/replacements/msiargs2.cpp` | none | tokenizer, parser, check for blocked properties | agrees with its grammar; what is handed on is what was looked through |
| Device code authentication | `patches/new-files/.../DeviceCodeFlowAuthenticator.cpp` | the polling loop's interval and deadline | AuthenticateForToken | polls no faster than the server asked, stops soon after the deadline, notices an approval that came in time |
| Win32/WIL shims | `patches/new-files/.../wil/*.h` | | UTF-8 conversions; constants, typedefs, stubs | text survives the way to UTF-8 and back |
| Registry, certificates | `extra/replacements/registry_posix.cpp, certs_pinning.cpp` | none | stand-ins | |
| Scripts | `build.sh`, `package.sh`, `run-tests.sh`, `catalog/` | | | |
| Upstream | `patches/winget-cli.patch` | the SQLite index, YAML and SHA256 code the commands call | | external to this repository |

How they interact: `main` opens the local catalog and calls one command. The
package commands take the lock of the name that was typed, resolve a manifest,
and call a backend with the id, alias, URL and hash of that manifest. Backend
and command communicate through return values; processes communicate only
through the files above. `install-url` and `source add/update` share the
sources directory for their temporary files. `list`, `upgrade --all` and
`export` read what the package commands record.

What is hard here:

- **Concurrency without one lock.** The lock is per *typed name*, files are per
  *manifest id*, command names are shared by all packages, and the source
  registry and the pins have no lock.
- **Kills.** Every command is a sequence of separately visible file changes. The
  program has no log; it repairs by convention (`CleanOrphanedInstall`, symlinks
  recognised by their target, `remove` before `create_symlink`).
- **Partial failures.** `upgrade` is uninstall, then download, then install.
- **Stale decisions.** `exists` and `remove` are two calls; the old version is
  removed by looking at the new manifest.
- **Two sources of truth.** A release is named by a catalog row and described by a
  file: beside the local catalog, or on a server that changes after the catalog
  was downloaded. `index` replaces the file before it knows whether the catalog
  takes the row. `list` and `upgrade` ask the sources in different orders.
- **Long loops.** `upgrade --all` and `import` work from a snapshot taken at their
  start, while other shells install, remove and pin.
- **Someone else's clock.** A device code expires by the server's clock, the loop
  ends by the program's, and a sleep or a request may take longer than asked.
- **Text.** Three escapes, nested quotes and long options that become several
  tokens meet in one parser.

The hazards, each at its line with the properties that would notice it, are
listed in `PROJECT.json`.

## Modules

| Module | What it is |
|---|---|
| `CommandSlots` | the promise about `$PREFIX/bin`: strangers are left alone, and a name changes hands only while a package that wants it is being worked on; two that want one name take it from each other |
| `PackageStore` | the package commands, the lock and the two backends, and their safety, action and liveness properties; implements `CommandSlots` |
| `MCPackageStore` | catalogs and constants for TLC |
| `PackageStore_proofs` | theorems about `PackageStore`: types, the lock, strangers' commands, what a process knows of the files of the package it has locked |
| `PackageOutcomes_proofs` | continued: what the outcome of a command, and a package at rest, say of files, link and record, and that it implements `CommandSlots` |
| `SourceList` | the promise of the source commands: a registered source has a usable catalog |
| `SourceRegistry` | `source add`, `remove`, `update` over files, open descriptors and renames; implements `SourceList` |
| `MCSourceRegistry` | instances for TLC |
| `SourceRegistry_proofs` | theorems about `SourceRegistry`, and that it implements `SourceList` |
| `Catalogs` | the catalogs and every command as a step on what they answer: index, install, uninstall, upgrade, list, export, import, pins, sources |
| `MCCatalogs` | instances for TLC |
| `Catalogs_proofs` | what a resolution, an install and an upgrade may come to, and the theorems about `Catalogs` |
| `DeviceCodeFlow` | sign-in with a device code against clock, server and user |
| `DeviceCodeFlow_proofs` | theorems about it |
| `SearchResults` | the temporary table a search is computed in, and what the result means |
| `SearchResults_proofs` | theorems about it |
| `MsiArguments` | tokenizer and parser of msiexec arguments as functions on texts, and the grammar they should follow |
| `Utf8` | the conversions between wide strings and UTF-8 |
| `Texts` | every text of a few pieces, as the states of a text that grows, and what the two modules above promise of it |
| `Utf8_proofs` | lemmas about sequences that are cut into blocks, and that every text converts back |
| `Texts_proofs` | theorems about the tokenizer, the parser's loop, properties, options and quoted values, and about `Texts` |
| `MCLibrary` | an instance for TLC of `DeviceCodeFlow`, `SearchResults` and `Texts` |

### How `PackageStore` corresponds to the code

A process is `pc` (where it stands), `cmd` and `arg` (what was typed) and `job`
(the id, version, backend and alias that `CmdInstall` or `CmdUpgrade` took from
the manifest, or `CmdUninstall` from the marker). One action is one change of
the shared files that another process can see:

| Code | Actions |
|---|---|
| `main`, `PackageLock` | `Invoke`, `AcquireLock`, `Exit`, `Crash` |
| `CmdInstall` | `CleanOrphanedInstall`, `ResolveForInstall`, the backend, `OpenMarker`, `WriteMarker` |
| `InstallPortable` | `Fetch` (truncates the payload), `Transfer`, `Verify`, `CheckLink`, `RemoveLink`, `CreateLink` |
| `InstallZip` | `Fetch` (truncates archive.zip), `Transfer`, `Verify`, `ClearExtracted`, `Unpack`, then the link as above |
| `CmdInstallUrl` | `UrlFetch`, `Place`, `Verify`, the link, the marker |
| `CmdUninstall` | `Probe`, `Unlink`, `Delete`, `Confirm`, `RemoveMarker` |
| `CmdUpgrade` | `CheckPin`, `ResolveForUpgrade`, `Unlink`, `Delete`, `Confirm`, then the backend from `Fetch` on |
| `CmdPin`, `CmdUnpin` | `PinCheck`, `PinWrite`; `Unpin` |
| other software | `PkgChanges` |

`dir[<<id, backend>>]` is what the file the symlink points to holds: nothing at
all, a directory without it, the true bytes of a release, or other bytes
(`Partial`: a download in progress, cut short, or not what the manifest's hash
says; `Incomplete`: a part of an archive whose hash was right). Partial bytes never
hash to the manifest's hash. `link[alias]` is the
symlink's target by package and backend, a live command that is not winget's
(`Foreign`), a dead symlink that is not winget's (`Dangling`), or nothing. What
`exists`, `is_symlink` and `read_symlink` answer is derived from the two.
`marker` is absent, cut short after the `trunc` (`Truncated`), or a record.

Simplifications, all of them on the side of the data:

- A catalog may answer a name with any of the manifests in `Offers[name]`, or
  with none, at every resolution. That covers releases, removed and unreachable
  sources, broken manifests, unsupported installers and refused aliases without
  modelling the order in which catalogs are asked.
- The reads at the start of `CmdUninstall` are one step. They read only the
  package's own files, which the lock covers when ids are typed.
- An extraction is one step at its end; until then the directory counts as empty,
  and no command looks at more than whether something is there. An extractor that
  fails (`unpack`, `disk`) leaves nothing of the binary, a part, or all of it. A kill
  during it does not stop the extractor, which has inherited the lock's descriptor:
  `Crash` is then the moment the extractor ends, with all or a part of the archive
  unpacked.
- The fault `disk` is a disk that may be full at any step: directories, files,
  symlinks and pins may fail to be created, and what a download, an extraction, a
  copy or a marker should write may be missing or cut short. Removals succeed.
  Where the code does not look at a stream (`WriteVersionMarker`, `CmdPin`,
  `DownloadReal`), the step goes on as if all was written.
- An exception that reaches `main` (a filesystem call without an error code, the
  database of the local catalog) ends the process where it stands; it is the same
  step as a kill.
- Directory creation and the opening of the download are one step, and so are
  the removals inside one `remove_all`; a directory with a removed payload is
  `Empty`.
- The marker's source and name fields, and the wording of every message, are
  left out. A failing `chmod` of a file just written does not happen in the model.
- Whether a lock file can be opened is decided each time (the fault `lock`): a
  command that cannot open its own goes on unlocked, as `PackageLock` does.

Names that end in `_Bug` are seeded faults. No definition uses them; they are
substituted, one at a time, for the definition that follows them to make sure
that each property notices a real mistake.

### How `SourceRegistry` corresponds to the code

The registry is the set of registered names; the list a process read stays in
its local `sources` until `SaveSources` truncates the file (`Truncate`) and
writes it (`Write`). A download opens `<name>.db.tmp`, and from then on writes to
an inode and not to a name: `out` tracks under which name (tmp, db, none) the
open file is found after other processes' renames and removals, and a transfer
into a file that another process also writes may be a mixture. URLs are left out.

### How `Catalogs` corresponds to the code

`rows` is the SQLite catalog (`{id, version}` with a relative path), `stored` the
files under the manifest root, `snapshot[s]` what the downloaded `<name>.db`
lists, `published[s]` what the server has now under each path, `sources` the list in
its order. `PathOf` says under which path a server has a release, and several
releases may have the same: a publisher who replaces a file in place, or rolls it
back, leaves older copies of the catalog (`snapshot`) listing what is no longer
there, and the code takes what it finds without comparing its version. What a
server lists (`Listing`) is what it has when the catalog is downloaded.
`record[n]` is the version marker with its source; a marker cut short has version
0, the local catalog as its source and no alias. `health[n]` is all that the
commands here tell apart of the files of a package: no directory, a directory
without a command that runs, or a command that runs.

| Code | Definitions |
|---|---|
| `ResolveManifestById`, `...FromSource`, `...Anywhere` | operators of these names: `None`, `Throws` or `Found(release, source)` |
| `CmdUpgrade` 650-686 | `ResolveForUpgrade` |
| `CmdInstall`, `CmdUpgrade`, `CmdUninstall` | `Install`, `Upgrade`, `Uninstall`: the set of outcomes (return code, health, record); what a backend and `WriteVersionMarker` do is summed up in `Deliver` |
| `CmdPin`, also as `CmdImport` calls it | `CmdPin`: the pins there may be behind it |
| `CmdIndex` | `StageManifest` (the copy), `AddManifest`, `KillIndex` |
| `CmdUpgradeAll`, `CmdImport` | `UpgradeAll`, `Import` begin a loop; `VisitForUpgrade`, `VisitForImport` are its rounds, `Finish` its end; `UpgradeOne` is a loop over one package |
| `CmdList` | the predicates `ListShows`, `Announced` |
| the other commands | one action each; the source commands by their effect on `sources` and `snapshot` |
| servers | `Publish`, `Reachability` |

An exception that leaves a command is caught only in `main`, so it ends the loop
as a kill does (the outcome `stopped`). It comes from a stored manifest that does
not parse, always, or from the database or a filesystem call, when `exception` is
among the faults. A success whose record did not get onto the disk is the outcome
`unrecorded`, which a loop counts as `ok` as the code does. Loops visit the
packages in any order (a directory has none), and between two rounds anything
else may happen; `batch.quiet` remembers that nothing did and that the disk has
taken each record and pin of the loop. The steps inside one install, and its
races, are in `PackageStore`.

### How `DeviceCodeFlow` corresponds to the code

`pc` follows `AuthenticateForToken`: `start`, `request` (the code is asked for),
`check` (the head of the loop), `sleep`, `post` (a poll is on its way), `done`.
`Tick` lets time pass during a sleep or a request, at most `Lag` longer than was
slept for and at most `Timeout` (`CURLOPT_TIMEOUT`) in a request. `Post` sends a
poll. It reaches the server at some time while the program waits (`Serve`), or
never; the program gets the answer (`Receive`) or gives up (`Lost`), which is the
same to it whether the request, the answer or the patience of curl was missing.
That a request reaches the server before the program has given it up is an
assumption about the network. The server decides by its own idea of the expiry,
which is earlier than the program's deadline by at most the duration of the first
request. It gives a token away once, and complains of a poll that comes too soon;
the code takes such a complaint for a refusal. `missed` counts the requests sent
since the approval that the server never got; it is there for `ApprovalIsNoticed`
and no action reads it.

### How `SearchResults` corresponds to the code

A row of the temporary table has an item (a manifest in schema 1.x, a package in
2.0), the field, type and value of its match, its ordinal, and the mark of the
filter. The actions are the member functions; `schema` selects the overrides of
1.2, 1.6 and 2.0. The order of calls is that of `Interface::Search` of
winget-cli, which is external: searches from the best match to the worst, one
removal of duplicates, then filters, then the result. Which of several rows with
one ordinal SQLite keeps is left open, and so is the order of rows with the same
ordinal. `Wanted` and `Rank` state the meaning of a search without a table.

### How `MsiArguments` and `Utf8` correspond to the code

Both are functions, one operator for each function of the source. A text is a
sequence of characters, and a word the parser compares as a whole (`quiet`,
`patch`) is one character: what matters is where tokens begin and end, not how
the words are spelled. Letters stand for both cases; the code folds the case of
option names, UI levels and property names, but of log modes it knows the
lower-case letters and `v`, `x`, `*` only. What throws or returns nullopt is a
result that is not `ok`. `Utf8` computes with numbers: a unit is what a 32-bit
`wchar_t` keeps after the cast to 16 bits, a byte is a number below 256.

The two modules have no state, as the code has none. `Texts` gives them one: a
text that grows by one of `Pieces[kind]` at a time, up to `Most[kind]` of them,
so that its states are all the texts of those pieces. `Kinds` says what texts are
for: arguments with properties, arguments with options, values to be quoted, and
wide strings.

## Runs

| Run | Asks | Expect |
|---|---|---|
| `faults` | Do commands tell the truth, and do later commands repair what kills and wrong downloads leave? Two processes, a Portable package with two releases and a Zip package, a stranger possibly at each name. `TypeOK`, `OneWorkerPerPackage`, `SuccessIsInstalled`, `SuccessIsRecorded`, `UninstallIsClean`, `FailureHasACause`, `LinkedZipIsVerified`, `OnlyTheHolderWrites`. | pass |
| `failures` | After any sequence of failed and wrong downloads, of a Portable and a Zip package with two releases each that want one command name, does a record at rest still describe what runs, and does a name only change hands as `CommandSlots` says? A `url:` package beside them, and a stranger possibly at each name. `RecordMatchesCommand`, the refinement `SlotsPromise`. | pass |
| `strangers` | Is a live foreign command safe when the disk is full, extractors fail, lock files do not open, processes are killed, and `pkg` takes and gives up another name? `ForeignPreserved`. | pass |
| `quiet` | Without faults: is a package at rest recorded exactly when its command runs it, and does every command that has its lock end? All six commands. `AtRestRecordedIsRunnable`, `CommandsFinish`. | pass |
| `sources` | Does every registered source keep a usable catalog through kills, failed and wrong downloads, with one process saving the list and one refreshing another source? `TypeOK`, `DbIsCatalog`, the refinement `SourcesPromise`. | pass |
| `catalogs` | Do upgrades come from where the package came from, and never go back to an older release on the word of another source, and do loops that report no failure do what they say, while sources change, fail, are removed and replace files in place, manifests are re-indexed under other files, the disk is full, calls throw and commands are killed? `TypeOK`, `UpgradeKeepsSource`, `UpgradeNeverGoesBack`, `QuietUpgradeSettles`, `QuietImportRestores`. | pass |
| `library` | Sign-in: `NeverTooFast`, `EndsByDeadline`, `ApprovalIsNoticed`, `SignInEnds`. Searches, however searches, filters and grouping follow each other: `ResultsAreTheIntersection`, `EarliestMatchWins`, `LimitKeepsTheBest`. Arguments: `TokensCoverInput`, `PropertiesFollowGrammar`, `PropertiesSurvive`, `QuotingRoundTrips`, `OptionsHaveTheirPlace`. Texts: `Utf8RoundTrips`. | pass |
| `switch` | "still reporting 'Successfully uninstalled.' ... Fixed" | violated |
| `moniker` | "exclude a package from upgrades" | violated |
| `updates` | "the old index is only ever touched by this one rename, and only once the new one is already confirmed" | violated |
| `takeover` | "another package's symlink) must not destroy it": `OthersPreserved` | violated |
| `samename` | "so ResolveManifestById can find it again later": `RowsFindTheirPackage` | violated |

The five violated runs are disagreements between the code and its own comments
or documents, quoted in `PROJECT.json` under `findings`:

- `switch`: an upgrade that changes the backend leaves the old backend's files,
  and the next uninstall removes those instead of the live ones.
- `moniker`: the pin is looked up under the name typed.
- `updates`: two refreshes of one source share a temporary file, and one renames
  what the other is writing.
- `takeover`: `IsOurManagedSymlink` asks whether a symlink is winget-termux's, not
  whose. An install removes the command of another package at rest. No fault and
  no interleaving is needed.
- `samename`: `index` stages manifests under their file name alone, so that of a
  second package replaces the first one's, which then resolves to the second.

Five more disagreements are described and not run. Each is a case that a
hypothesis or a clause of a property below leaves out, and what it leaves out is
what the code does:

- *A dead symlink of somebody else is replaced* (`PortableInstallerTermux.cpp`
  133): `exists()` follows it and finds nothing, though line 36 says "never
  remove/overwrite ... unless it's already our own symlink". With `Dangling` in
  `InitialSlots` the actions do this; `SlotsImplemented` excludes it.
- *A Portable payload runs before it is verified* (173): a reinstall downloads over
  the file the command's symlink points to, where `docs/ARCHITECTURE.md` 22-24 says
  "download → verify → place → symlink". `LinkedZipIsVerified` speaks of Zip only.
- *A success without a record* (`winget_cli.cpp` 226): nobody looks whether the
  marker was written, and a full disk does not take it. `SuccessMeansRecorded`
  excludes the fault `disk`.
- *A failed extraction that replaces the command* (`ZipInstallerTermux.cpp` 171): an
  extractor that fails behind the binary leaves the new release under the live
  link, and the record of the old one. `RecordsMatch` excludes the fault `unpack`.
- *`upgrade --all` without its tally* (`winget_cli.cpp` 1350): a manifest that does
  not parse, or any other exception, ends the loop in `main`, where
  `docs/ARCHITECTURE.md` 195 says "It ends with a tally". In `Catalogs` this is the
  outcome `stopped`.

### Bounds

- **Two processes.** Each step of a command interferes with at most one other
  process at a time through the files of one package or one name; a third
  process adds waiting at a lock. The proofs hold for any number.
- **Two releases** make an upgrade and a reinstall of another version. `faults`
  stays small with one of the Zip package, of which `failures` and `switch` have
  two. `strangers` has one: what a release holds makes no difference to it.
- **One to three package names** and as many command names: enough for two
  backends, a `url:` package and a moniker. In `failures` and `takeover` two packages
  want one command name, in the other runs each has its own.
- **Faults** differ by run so that no state space is too large: kills and wrong
  bytes in `faults`, failed downloads and wrong bytes in `failures`; kills, a full
  disk, failing extractors and lock files that do not open in `strangers`. Without
  locks two processes work on one package, so that `strangers` is about installs
  only. The theorems say under which faults each property holds, mostly under all.
  A pin that the disk does not take is explored in `catalogs`. `InitialSlots` and
  `PkgCommands` bound what else lives in `$PREFIX/bin`.
- **`catalogs`**: two sources that both have one package. The one asked first cannot
  always be reached, has the older release, and keeps each release in a file of its
  own. The other has replaced its file since the package was installed from it, and
  may put the older one back in its place. Beside them a package with two releases of
  which one is also stored under the other's file name; a release without a usable
  installer; a `url:` package; an export file brought along. `Patience` bounds commands
  typed and changes of servers to four in all: enough for a source to be rolled back
  or out of reach, a refresh, a command of the user and an upgrade. Among what it
  reaches are an upgrade from the recorded source, one from another source because
  the recorded one is gone, one that goes back because the file was rolled back
  under the listed path, and one that goes back over a refused index. Rounds of a
  loop and the second half of `index` do not count. `samename` gives all manifests one
  file name.
- **`library`**: intervals 1 and 2, lifetimes 10 and 4, a timeout of 1 and a lag of
  1, so that polls fall before, at and after the expiry and the deadline, and the
  long lifetime leaves time for several requests that never arrive; up to
  two searches and two filters over every subset of the facts about three
  manifests of two packages, in the schemas 1.0, 1.2 and 2.0; every text of up
  to seven pieces for properties, five for quoted values, four for options, and
  three wide characters around each bound of the encoding. `Most` is the
  name of that bound, which no theorem about texts needs. The subjects share no variable: a behaviour is about one.
- No state constraint is used: the state spaces are finite and complete.
  Processes are interchangeable, and the runs of safety properties use that as a
  symmetry where the cfg says so.

### Fairness

`FairSpec` is weak fairness of `Step(q)` for each process: the scheduler runs a
runnable process, a transfer ends by curl's 30 s limit, and extraction and hashing
end. No fairness is assumed of users, of kills, of `pkg`, or of who gets a lock
(`flock` promises no order), so `CommandsFinish` speaks of commands past their
lock. Waiting for a lock is then bounded by commands that do end.

`SignInEnds` assumes that the program is scheduled and that time passes
(`WF(Program)`, `WF(Tick)`): a sleep ends, and curl gives up at its timeout.
Nothing is assumed of the server or the user. `Catalogs` states no liveness: its
commands are single steps, and what is typed is up to users.

## Proofs

Every safety property, every action property and both refinements of the passing
runs are theorems. An inductive invariant was first model-checked as an invariant
of the run whose properties it serves, and then proved. The hypotheses of a theorem
are met by the constants of the passing run that checks its property.

### `PackageStore`

For every number of processes, packages, command names and versions, for every
catalog and every set of faults, but for what the second column asks:

| Theorem | Under | Statement |
|---|---|---|
| `TypeCorrect` | | `Spec => []TypeOK` |
| `ForeignKept` | | `Spec => ForeignPreserved` |
| `MutualExclusion` | `IdsOnly`, `LockFileOpens` | `Spec => []OneWorkerPerPackage` |
| `OnlyTheHolder` | `IdsOnly`, `LockFileOpens` | `Spec => OnlyTheHolderWrites` |
| `ZipNeverUnverified` | `IdsOnly`, `LockFileOpens` | `Spec => []LinkedZipIsVerified` |
| `UninstallLeavesNothing` | and `StableReleases` | `Spec => []UninstallIsClean` |
| `SuccessMeansRecorded` | `IdsOnly`, `LockFileOpens`, `"disk" \notin Faults` | `Spec => []SuccessIsRecorded` |
| `RecordsMatch` | `IdsOnly`, `LockFileOpens`, `StableReleases`, none of the faults `crash`, `unpack`, `disk` | `Spec => []RecordMatchesCommand` |
| `SuccessMeansInstalled` | `IdsOnly`, `LockFileOpens`, `StableReleases`, `OwnAliases`, `PkgCommands = {}` | `Spec => []SuccessIsInstalled` |
| `FailuresAreExplained` | the same | `Spec => []FailureHasACause` |
| `SlotsImplemented` | `IdsOnly`, `LockFileOpens`, `StableReleases`, `PkgCommands = {}`, `Dangling \notin InitialSlots` | `Spec => SlotsPromise` |
| `RecordedMeansRunnable` | `IdsOnly`, `StableReleases`, `OwnAliases`, `PkgCommands = {}`, `Faults = {}` | `Spec => []AtRestRecordedIsRunnable` |

What the hypotheses leave out, and why they are needed:

- `IdsOnly`: a name users type resolves only to manifests with that id. With a
  moniker the lock is another file than the package's.
- `LockFileOpens`: without the fault `lock`, under which two commands do work on
  one package.
- `StableReleases`: all releases of a package are of one backend and have one
  command name. `uninstall` knows the backend and the alias of the last record
  only: run `switch` shows what a change of the backend leaves, and a release
  that renames its command leaves the old symlink (`winget_cli.cpp` 741).
- `OwnAliases`: no two packages want the same command name. Two that do take the
  link from each other, each under its own lock (run `takeover`), so one may report
  success and find its link gone. What uninstall leaves, the record and the
  promise of `CommandSlots` do not depend on it.
- `PkgCommands = {}`: `pkg` takes no name while winget-termux runs. Between
  the check of the name and `symlink()` it may, and the command then fails.
- `Dangling \notin InitialSlots`: a stranger's dead symlink is replaced, which
  `CommandSlots` forbids.
- Fewer faults, where the property says "as long as nothing is killed" and the like:
  a kill between the download and the record leaves a record of the release
  before, and so do a full disk, which takes no record, and an extractor that fails
  late.

The argument, from module to module:

- *Types.* `TypeOK` alone is not inductive, because a step reads `job` as a
  manifest. `TypeInv` adds `Prepared`: what each control point may assume of
  `arg` and `job`.
- *Strangers.* `ForeignPreserved` rests on `CheckedInv`: between the check of the
  name and the creation of the symlink no live foreign command is there, but at a
  name that `pkg` takes. It needs no lock, so it also holds for packages that share
  a name and for monikers.
- *The lock.* `LockInv`: past its lock a process holds `holder[arg]`, and what it
  works on is what it locked. Two workers on one package would both be its
  holder. `OnlyTheHolderWrites` follows: each writing action is shown to leave
  every other package alone (`TouchesOnly`).
- *The files.* `HoldInv` extends the lock to the moment the outcome is reported
  and says which command runs which step. So nobody else changes what a process
  has seen or done, and `FilesInv` can say what it knows of its package at each
  step (`Known`): behind the hash check the directory holds the release it will
  record, behind the removal it is empty. It includes that a Zip directory is
  never filled from an unchecked archive, which is `LinkedZipIsVerified`.
- *The link.* Everything on disk has the shape of some release of its package
  (`ShapeInv`), so with `StableReleases` a command that frees the name of its
  release has freed every link into the package (`UnlinkedInv`); this is what
  `UninstallIsClean` needs, even of links that killed commands left. With
  `OwnAliases` nobody else writes that name, so what a process did to it stays
  (`LinkedInv`): the success and failure properties are `FilesInv` and
  `LinkedInv` at the last step. `SuccessIsRecorded` needs `FilesInv` alone.
- *The record.* `RecordMatchesCommand` and `AtRestRecordedIsRunnable` speak of
  packages nobody works on, which says nothing about the steps in between.
  `RecordInv` says that a link without its record, or a record without its
  version, has a process that is on the way to a new record; `RunInv` that an
  unsettled package has somebody working on it. The step that ends a command has
  to settle the package.
- *The promise.* Taking a lock maps to `Begin`, leaving or being killed to `End`,
  creating a link to `Claim`, removing one to `Release`, every other step to a
  stutter. `HolderInv` says for which name a lock is held, and `NoDangling` that no
  link is dead and foreign.

### `SourceRegistry`

For every number of processes and sources and every set of faults:

| Theorem | Under | Statement |
|---|---|---|
| `SourceTypes` | | `Spec => []TypeOK` |
| `CatalogsStayUsable` | `OwnDownloads` | `Spec => []DbIsCatalog` |
| `SourcesImplemented` | `OwnDownloads`, `SingleSaver` | `Spec => SourcesPromise` |

`OwnDownloads` says that no two processes add or update the same source; run
`updates` shows that two which do may rename a file that is being written.
`SingleSaver` says that one process adds and removes: `sources.list` has no lock,
and of two that save it one loses its change.

`DownloadInv` says where the open descriptor of each process points: only the
process that downloads has the temporary file open, never through a rename, and
what it renames is what it validated. `KeptInv` says what the one process that
saves knows of the list it loaded: it is still the list, but for the source it
was told to add or remove, and a source it adds has a usable catalog by then. The
refinement reads the list as what the writer will restore while the file is
truncated; a kill in that window is the abstract `Lose`.

### `DeviceCodeFlow`

For every interval, lifetime, timeout and lag (`DeviceTiming`: natural numbers,
and intervals of at least one):

| Theorem | Statement |
|---|---|
| `DeviceTypeOK` | `Spec => []TypeOK` |
| `DeviceNeverTooFast` | `Spec => []NeverTooFast` |
| `DeviceEndsByDeadline` | `Spec => []EndsByDeadline` |
| `DeviceApprovalIsNoticed` | `Spec => []ApprovalIsNoticed` |

None of the three is inductive, because each compares times that were noted at
different points of the loop. `IInv` says for each point what the clock can have
done since the one before (`Clock`), that the next poll is at least an interval
away from the last (`Paced`), that the program knows no less than the server
about the lifetime (`Agreed`), and how long an approval can have been waiting
for the next poll (`Pending`): one round for each request that was sent since and
never arrived (`Lateness`), and the one under way. That bounds `ApprovalIsNoticed`.

### `Catalogs`

For every number of packages, versions, files and sources, any number of `index`
commands at a time, and every set of faults:

| Theorem | Under | Statement |
|---|---|---|
| `CatalogsTypeOK` | | `Spec => []TypeOK` |
| `UpgradesKeepTheirSource` | `FilesByPackage` | `Spec => UpgradeKeepsSource` |
| `UpgradesNeverGoBack` | `FilesByPackage` | `Spec => UpgradeNeverGoesBack` |
| `UpgradesSettle` | `FilesByPackage` | `Spec => []QuietUpgradeSettles` |
| `ImportsRestore` | `FilesByPackage` | `Spec => []QuietImportRestores` |

`FilesByPackage` says that no two packages have manifests of one file name, nor
of one path on a server; several releases of a package may. It is needed: `index`
replaces the stored file before the catalog can refuse it, and with two packages
under one name the catalog answers the one with the manifest of the other (run
`samename`). The same goes for a server that has another package behind a path a
copy of its catalog lists. Under it `FindTheirs` holds (`AlwaysFindTheirs`): what a row
leads to is a manifest of that row's package, if it is a manifest. `CatalogInv` says
so of the local catalog by what a file holds (`StoredInv`: nothing, no manifest, or
one that may have that name), also while an `index` stands between its two steps
(`IndexingInv`); `PublishedInv` says so of the servers.

The rest is about what a resolution answers. That a set of versions has a
largest and a set of positions a smallest element (`LargestExists`,
`SmallestExists`, from the well-foundedness of `<`) makes the `CHOOSE`s of
`Latest` and `ResolveManifestAnywhere` mean something; `SourceAnswers`,
`LocalAnswers` and `Answers` say which release and source come back, and
`InstallOutcomes` and `UpgradeOutcomes` what a command may leave of one package.
`TypeOK` is inductive and includes that no source is registered twice, so its
step for `source remove` needs the positions that are left (`Without`).
For the two about upgrades
`ReplacedByWhatWasFound` shows that while a loop runs only its visit takes
packages from its list and writes a record, that of the package it visits; this
last part is where `FilesByPackage` is needed again, because a manifest stored
under another package's row would be installed as that other package.

The last two speak of the end of a loop, so their invariants speak of what it has
visited so far. `ImportInv`: every exported package that is no longer in the list
runs, has a record that names its alias and is pinned if it was, unless a failure
was counted or the disk did not take a record or a pin. `UpgradeInv`: what is still in the list has not been counted as
done, and no package that was is announced again by the source it came from.
That a visit keeps this of the packages before it needs that it changes only its
own package (`DeliverSparesOthers`, `UpgradeSparesOthers`), and that the catalogs
stay as they are while nobody disturbs; that it settles its own, that an upgrade
looks at the recorded source first and `list` at all of them (`UpgradeOrAnywhere`).

### `SearchResults`

For every schema, any number of searches and filters, and

- `Catalogued`: a catalog is finite and its items belong to packages,
- `Counted`: limits are natural numbers:

| Theorem | Statement |
|---|---|
| `SearchFindsTheWanted` | `SearchSpec => []ResultsAreTheIntersection` |
| `BestMatchIsReported` | `SearchSpec => []EarliestMatchWins` |
| `LimitsCutTheWorst` | `SearchSpec => []LimitKeepsTheBest` |

The properties compare the answer with `Wanted` and `Rank`, which know no table.
`RowsSound` says what a row proves: its search found the item, the completed
filters let it through, and its mark is the answer of the filter under way.
`RowsComplete` is the other direction: what was found and let through still has a
row, from that search or an earlier one. `OneRow` says that behind the removal of
duplicates an item has one row; it is why deleting unmarked rows loses no better
match. `ResultInv` says that the answer is a sorted list of the best row of each
package, cut at the limit. `RankOfRow` then finds the rank of a package in its
row, and `ListsEnumerate` that a list of a finite set has each member at one
place, so that what is cut off is what was ranked last.

### `Texts`

For every set of kinds and pieces and any number of pieces, where
`PiecesAssumption` says that a piece is a sequence of signs of its kind (run
`library` evaluates it). Each theorem follows from one on all texts that speaks of
no state:

| Theorem | From | Statement |
|---|---|---|
| `InputCovered` | `EveryTextIsCovered` | `TextsSpec => []TokensCoverInput` |
| `GrammarFollowed` | `EveryTokenFollowsGrammar` | `TextsSpec => []PropertiesFollowGrammar` |
| `PropertiesKept` | `EveryPropertySurvives` | `TextsSpec => []PropertiesSurvive` |
| `PlacesDecide` | `EveryPlaceDecides` | `TextsSpec => []OptionsHaveTheirPlace` |
| `QuotesReadBack` | `EveryValueReadsBack` | `TextsSpec => []QuotingRoundTrips` |
| `Utf8ConvertsBack` | `EveryTextConvertsBack` | `TextsSpec => []Utf8RoundTrips` |

`TextsInv` says no more than that a text is a text of its kind; the work is in the
second column, which is about functions defined by recursion on places. The
library's induction theorems cannot be used for it. Their place is taken by
two facts about the places where a statement fails: there would be a first one
(`Forwards`) or a last one (`Backwards`), by the well-foundedness of `<`. That a
recursive function has a value at all is proved with them before it is unfolded
(`CutsExist`, `JoinsExist`, `RoundsExist`, `FilesExist`).

- *The tokenizer.* A token that is cut off is behind blanks, not empty, and ends
  at a blank outside quotes or at the end (`NextToken`). From each place on, the
  tokens are then all of the text that is left without its blanks, and only one
  at the end may have an open quote (`TokensCoverFrom`).
- *The grammar.* The scan takes quotes in pairs, while the grammar asks that every
  run of quotes be even. Both are the same from any place on (`EvenStep`).
- *Quoted values.* A quoted form has no quote but its own two, so it is one token
  (`QuotedIsOneToken`), and each character's signs are read as the character
  (`BlockReads`).
- *The parser.* A round takes one token or two and adds a property, sets the level
  or sets the log (`RoundGoesOn`). While it goes on, the string handed on is made
  of the same tokens as the list looked through (`KeptByRounds`). Those are cut
  off again as they were (`Retokenized`), because none but the last has an open
  quote; a replaced option keeps this (`ReplacedAreProper`). And what was counted
  and set is what the tokens so far ask for (`PlacedByRounds`), by places: of
  files, which are read off the tokens without the loop, of quiet options and of
  properties.
- *UTF-8.* The first byte of a unit tells how many follow, and their bits are
  those of the unit (`CodeOfBytes`); the bytes of a unit stand together behind
  those of the units before it (`Flattened`).

### Only model-checked

`CommandsFinish` and `SignInEnds`: liveness under fairness, whose proofs need
`ENABLED`, is beyond the prover.

## Plan

1. Done: `PackageStore` with `CommandSlots`, `SourceRegistry` with `SourceList`,
   and the first proofs.
2. Done: `Catalogs` (resolution, index, batch commands), `DeviceCodeFlow`,
   `SearchResults`, `MsiArguments`, `Utf8`, and proofs about the first two.
3. Left to model: a release that renames its command, so that an install over it
   or an upgrade leaves the old symlink (`winget_cli.cpp` 741). `PackageStore`
   reaches it as soon as `Offers` has two aliases for one package, and
   `UninstallIsClean` is then false; of such a package only the theorems without
   `StableReleases` speak. Two first
   commands that create the local catalog together (1667), whose steps are
   upstream code. An `install-url` killed before its marker (988), which
   `PackageStore` reaches but no property asks about.
4. Done: the safety and action properties of all modules as theorems, and the two
   refinements. Left to prove: of what runs check, liveness only.
5. Left to connect: `Deliver` of `Catalogs` sums up by hand what `PackageStore`
   does in an install; a refinement between the two would state it.

## Not modelled

SQLite, YAML parsing, hashing, curl and the archive tools are external: they
appear as the choice of what they may answer. `search`, `show`, `source list`,
`source export`, `hash`, `validate` and `download` print or save what they read
and change nothing that another command uses. The build, packaging and test
scripts run sequentially around the program. The registry and certificate
replacements answer that nothing is there. Of the Win32 and WIL headers only the
UTF-8 conversions compute anything; `unique_any` is not used by any file of the
repository, and the rest are constants, typedefs and empty stand-ins. Characters
outside the basic plane are left out of `Utf8RoundTrips`: the conversion cuts
them to 16 bits.
