------------------------ MODULE PackageOutcomes_proofs ------------------------
(***************************************************************************)
(* Proofs about PackageStore, second part: what the outcome of a command,  *)
(* and a package nobody works on, say of the files, the link and the       *)
(* record together, and the refinement of CommandSlots.                    *)
(*                                                                         *)
(* The argument: everything on disk has the shape of some release          *)
(* (ShapeInv), so a command that frees the name of its release has freed   *)
(* every name of the package (UnlinkedInv); the name it then takes stays   *)
(* its own until it has written the record (LinkedInv); a record is wrong  *)
(* only while somebody is on the way to a new one (RecordInv), and a       *)
(* package is unsettled only while somebody works on it (RunInv).          *)
(***************************************************************************)
EXTENDS PackageStore_proofs

-----------------------------------------------------------------------------
\* Some release of package n comes with backend b and command a.
Has(n, b, a) == \E m \in ManifestsOf(n) : m.backend = b /\ m.alias = a

\* Jobs, directories, records and links are all some release's.
ShapedJob(q) == Concerned(q) => Has(job[q].id, job[q].backend, job[q].alias)
ShapedDir(n, b) == dir[<<n, b>>] # Absent => \E a \in Aliases : Has(n, b, a)
ShapedMarker(n) == marker[n] \in Records => \E b \in Backends : Has(n, b, marker[n].alias)
ShapedLink(a, n, b) == link[a] = <<n, b>> => Has(n, b, a)

ShapeInv ==
    /\ \A q \in Procs : ShapedJob(q)
    /\ \A n \in Names, b \in Backends : ShapedDir(n, b)
    /\ \A n \in Names : ShapedMarker(n)
    /\ \A a \in Aliases, n \in Names, b \in Backends : ShapedLink(a, n, b)

\* At first there are none.
LEMMA InitShaped == Init => ShapeInv
<1> SUFFICES ASSUME Init PROVE ShapeInv
  OBVIOUS
<1>1. ASSUME NEW a \in Aliases, NEW n \in Names, NEW b \in Backends PROVE link[a] # <<n, b>>
  <2>1. link[a] \in {NoLink, Foreign, Dangling}
    BY SlotsAssumption DEF Init
  <2>2. <<n, b>> \notin {NoLink, Foreign, Dangling}
    BY SlotsAssumption DEF ManagedLinks
  <2>3. QED
    BY <2>1, <2>2
<1>2. \A q \in Procs : ~Concerned(q)
  BY DEF Init, Concerned, Working, Installed, Uninstalled, InstallSteps, UninstallSteps
<1>3. \A n \in Names : marker[n] \notin Records
  BY SentinelsAssumption DEF Init
<1>4. \A n \in Names, b \in Backends : dir[<<n, b>>] = Absent
  BY DEF Init
<1>5. QED
  BY <1>1, <1>2, <1>3, <1>4 DEF ShapeInv, ShapedJob, ShapedDir, ShapedMarker, ShapedLink

\* What StableReleases says of any two releases.
LEMMA OneShape ==
  ASSUME StableReleases, NEW n \in Names, NEW b, NEW c, NEW a, NEW d, Has(n, b, a), Has(n, c, d)
  PROVE  b = c /\ a = d
  BY DEF StableReleases, Has

\* What the catalogs answer for an id is a release of that package,
LEMMA OfferIsRelease ==
  ASSUME IdsOnly, NEW n \in Names, NEW m \in Offers[n]
  PROVE  /\ m \in Manifests /\ m.id = n /\ m.backend \in Backends /\ m.alias \in Aliases
         /\ Has(n, m.backend, m.alias)
  BY OffersAssumption DEF IdsOnly, Has, ManifestsOf, Manifests

\* and so is what install-url makes of its arguments.
LEMMA UrlIsRelease ==
  ASSUME NEW m \in UrlInstalls
  PROVE  Has(m.id, m.backend, m.alias)
  BY DEF Has, ManifestsOf

\* The job of an uninstall is a release's: by the record, or else by the
\* manifest the fallback takes the alias from.
LEMMA ProbeFindsRelease ==
  ASSUME IdsOnly, StableReleases, TypeInv, ShapeInv, NEW q \in Procs, Probe(q), pc'[q] = "unlink"
  PROVE  Has(job'[q].id, job'[q].backend, job'[q].alias)
<1>1. arg[q] \in Names /\ job \in [Procs -> Jobs \cup {NoJob}] /\ pc \in [Procs -> Steps]
  BY DEF Probe, TypeInv, TypeOK, Prepared
<1> DEFINE n == arg[q]
           zipDirExists == dir[<<n, "zip">>] # Absent
           backend == IF zipDirExists THEN "zip" ELSE "portable"
<1>2. PICK a \in Aliases :
        /\ zipDirExists \/ dir[<<n, "portable">>] # Absent
        /\ job'[q] = [id |-> n, version |-> NoVersion, alias |-> a, backend |-> backend]
        /\ \/ marker[n] \in Records /\ a = marker[n].alias
           \/ \E m \in Offers[n] : a \in FallbackAliases(m, zipDirExists)
  <2> DEFINE Removes(a) == job' = [job EXCEPT ![q] = [id |-> n, version |-> NoVersion,
                                                      alias |-> a, backend |-> backend]]
  <2>1. zipDirExists \/ dir[<<n, "portable">>] # Absent
    BY <1>1 DEF Probe, Goto
  <2>2. \/ marker[n] \in Records /\ Removes(marker[n].alias)
        \/ \E m \in Offers[n] : \E a \in FallbackAliases(m, zipDirExists) : Removes(a)
    BY <1>1 DEF Probe, Goto
  <2>3. marker[n] \in Records => marker[n].alias \in Aliases
    BY DEF Records
  <2>4. \A m : FallbackAliases(m, zipDirExists) \subseteq Aliases
    BY DEF FallbackAliases
  <2>5. \A a \in Aliases : Removes(a) =>
           job'[q] = [id |-> n, version |-> NoVersion, alias |-> a, backend |-> backend]
    BY <1>1
  <2> HIDE DEF Removes, zipDirExists, backend
  <2>6. QED
    BY <2>1, <2>2, <2>3, <2>4, <2>5
<1>3. PICK c \in Aliases : Has(n, backend, c)
  <2>1. backend \in Backends /\ dir[<<n, backend>>] # Absent
    BY <1>2 DEF Backends
  <2>2. QED
    BY <1>1, <2>1 DEF ShapeInv, ShapedDir
<1>4. Has(n, backend, a)
  <2>1. CASE marker[n] \in Records /\ a = marker[n].alias
    <3>1. PICK b \in Backends : Has(n, b, a)
      BY <1>1, <2>1 DEF ShapeInv, ShapedMarker
    <3>2. QED
      BY <1>1, <1>3, <3>1, OneShape
  <2>2. ASSUME NEW m \in Offers[n], a \in FallbackAliases(m, zipDirExists) PROVE Has(n, backend, a)
    <3>1. Has(n, m.backend, m.alias)
      BY <1>1, OfferIsRelease
    <3>2. m.backend = backend
      BY <1>1, <1>3, <3>1, OneShape
    <3>3. a = m.alias
      BY <2>2, <3>2 DEF FallbackAliases
    <3>4. QED
      BY <3>1, <3>2, <3>3
  <2>3. QED
    BY <1>2, <2>1, <2>2
<1>5. QED
  BY <1>2, <1>4

\* A process becomes concerned with a package when it has its manifest.
LEMMA BecomesConcerned ==
  ASSUME TypeInv, NEW q \in Procs, Running(q), Act(q), Concerned(q)'
  PROVE  \/ Concerned(q) /\ job'[q] = job[q]
         \/ AcquireLock(q) /\ job'[q] \in UrlInstalls
         \/ (ResolveForInstall(q) \/ ResolveForUpgrade(q)) /\ job'[q] \in Offers[arg[q]]
         \/ Probe(q) /\ pc'[q] = "unlink"
<1>a. pc \in [Procs -> Steps] /\ job \in [Procs -> Jobs \cup {NoJob}] /\ cmd \in [Procs -> Commands \cup {"none"}]
  BY DEF TypeInv, TypeOK
<1> USE <1>a DEF Concerned, Working, Goto, InstallSteps, UninstallSteps
<1>1. CASE Invoke(q) \/ Exit(q) \/ Crash(q)
  BY <1>1 DEF Invoke, Exit, Crash, Leaves, Installed, Uninstalled
<1>2. CASE AcquireLock(q)
  BY <1>2 DEF AcquireLock, Running, Installed, Uninstalled
<1>3. CASE CleanOrphanedInstall(q) \/ CheckPin(q) \/ PinCheck(q) \/ PinWrite(q) \/ Unpin(q)
  BY <1>3 DEF CleanOrphanedInstall, CheckPin, PinCheck, PinWrite, Unpin, Running, Installed,
     Uninstalled, Installs
<1>4. CASE ResolveForInstall(q) \/ ResolveForUpgrade(q)
  BY <1>4 DEF ResolveForInstall, ResolveForUpgrade, Installed, Uninstalled
<1>5. CASE Probe(q)
  BY <1>5 DEF Probe, Installed, Uninstalled
<1>6. CASE Working(q) /\ UNCHANGED job
  BY <1>6
<1>7. QED
  BY <1>1, <1>2, <1>3, <1>4, <1>5, <1>6 DEF Act, Step, Fetch, Transfer, Verify, ClearExtracted,
     Unpack, CheckLink, RemoveLink, CreateLink, OpenMarker, WriteMarker, UrlFetch, Place, Unlink,
     Delete, Confirm, RemoveMarker, files

\* A step takes backend and alias from a manifest, from the record, or from the
\* directory that exists: each is a release's.
LEMMA StepShaped ==
  ASSUME IdsOnly, StableReleases, WorkInv, ShapeInv, [Next]_vars
  PROVE  ShapeInv'
<1>a. TypeInv /\ LockInv /\ HoldInv /\ FilesInv
  BY DEF WorkInv
<1>1. ASSUME NEW q \in Procs, Act(q) PROVE ShapeInv'
  <2>a. Running(q)
    BY <1>a DEF HoldInv
  <2>b. Working(q) => /\ job[q].id \in Names /\ job[q].backend \in Backends
                      /\ job[q].alias \in Aliases
                      /\ Has(job[q].id, job[q].backend, job[q].alias)
    BY <1>a, JobTyped DEF ShapeInv, ShapedJob, Concerned, Working
  <2>1. ASSUME NEW r \in Procs PROVE ShapedJob(r)'
    <3>1. CASE r # q
      <4>1. pc'[r] = pc[r] /\ cmd'[r] = cmd[r] /\ job'[r] = job[r]
        BY <1>1, <1>a, <3>1, OnlyOneMoves DEF OthersStand
      <4>2. QED
        BY <4>1 DEF ShapeInv, ShapedJob, Concerned, Working, Installed, Uninstalled
    <3>2. CASE r = q
      <4>1. SUFFICES ASSUME Concerned(q)'
                     PROVE  Has(job'[q].id, job'[q].backend, job'[q].alias)
        BY <3>2 DEF ShapedJob
      <4>2. CASE Concerned(q) /\ job'[q] = job[q]
        BY <4>2 DEF ShapeInv, ShapedJob
      <4>3. CASE job'[q] \in UrlInstalls
        BY <4>3, UrlIsRelease
      <4>4. CASE (ResolveForInstall(q) \/ ResolveForUpgrade(q)) /\ job'[q] \in Offers[arg[q]]
        <5>1. arg[q] \in Names
          BY <1>a, <4>4 DEF ResolveForInstall, ResolveForUpgrade, TypeInv, Prepared
        <5>2. QED
          BY <4>4, <5>1, OfferIsRelease
      <4>5. CASE Probe(q) /\ pc'[q] = "unlink"
        BY <1>a, <4>5, ProbeFindsRelease
      <4>6. QED
        BY <1>1, <1>a, <2>a, <4>1, <4>2, <4>3, <4>4, <4>5, BecomesConcerned
    <3>3. QED
      BY <3>1, <3>2
  <2>2. ASSUME NEW n \in Names, NEW b \in Backends PROVE ShapedDir(n, b)'
    <3>1. ShapedDir(n, b)
      BY DEF ShapeInv
    <3>2. dir'[<<n, b>>] # dir[<<n, b>>] => DirWritten(q, n, b)
      BY <1>1, <1>a, DirWrites
    <3>3. QED
      BY <2>b, <3>1, <3>2 DEF ShapedDir, DirWritten
  <2>3. ASSUME NEW n \in Names PROVE ShapedMarker(n)'
    <3>1. ShapedMarker(n)
      BY DEF ShapeInv
    <3>2. marker'[n] # marker[n] => RecordWritten(q, n)
      BY <1>1, <1>a, RecordWrites
    <3>3. QED
      BY <2>b, <3>1, <3>2, SentinelsAssumption DEF ShapedMarker, RecordWritten
  <2>4. ASSUME NEW a \in Aliases, NEW n \in Names, NEW b \in Backends PROVE ShapedLink(a, n, b)'
    <3>1. ShapedLink(a, n, b)
      BY DEF ShapeInv
    <3>2. link'[a] # link[a] => LinkWritten(q, a)
      BY <1>1, <1>a, LinkWrites
    <3>3. NoLink # <<n, b>>
      BY SlotsAssumption DEF ManagedLinks
    <3>4. QED
      BY <2>b, <3>1, <3>2, <3>3 DEF ShapedLink, LinkWritten
  <2>5. QED
    BY <2>1, <2>2, <2>3, <2>4 DEF ShapeInv
<1>2. ASSUME NEW a \in PkgCommands, PkgChanges(a) PROVE ShapeInv'
  <2>1. UNCHANGED <<dir, marker, pc, cmd, job>>
    BY <1>2 DEF PkgChanges
  <2>2. ASSUME NEW c \in Aliases, NEW n \in Names, NEW b \in Backends, link'[c] = <<n, b>>
        PROVE  link[c] = <<n, b>>
    <3>1. NoLink # <<n, b>> /\ Foreign # <<n, b>>
      BY SlotsAssumption DEF ManagedLinks
    <3>2. QED
      BY <1>2, <1>a, <2>2, <3>1 DEF PkgChanges, TypeInv, TypeOK
  <2>3. QED
    BY <2>1, <2>2 DEF ShapeInv, ShapedJob, ShapedDir, ShapedMarker, ShapedLink, Concerned,
       Working, Installed, Uninstalled
<1>3. CASE UNCHANGED vars
  BY <1>3 DEF vars, ShapeInv, ShapedJob, ShapedDir, ShapedMarker, ShapedLink, Concerned,
     Working, Installed, Uninstalled
<1>4. QED
  BY <1>1, <1>2, <1>3 DEF Next, Act

-----------------------------------------------------------------------------
\* After its unlink or removal step, a command has left no link into its package,
\* under whatever name.
NoLinkInto(n) == \A a \in Aliases, b \in Backends : link[a] # <<n, b>>

Unlinked(q) ==
    pc[q] \in {"create_link", "delete", "confirm", "unmark"} \/ Uninstalled(q)
       => NoLinkInto(job[q].id)

UnlinkedInv == \A q \in Procs : Unlinked(q)

\* Once the name of a package is freed, no link into it is left.
LEMMA FreedName ==
  ASSUME StableReleases, TypeInv, ShapeInv, NEW q \in Procs, Working(q), NEW a, a = job[q].alias,
         \A c \in Aliases : link'[c] # link[c] => c = a,
         link'[a] \notin ManagedLinks
  PROVE  \A c \in Aliases, b \in Backends : link'[c] # <<job[q].id, b>>
<1> SUFFICES ASSUME NEW c \in Aliases, NEW b \in Backends, link'[c] = <<job[q].id, b>> PROVE FALSE
  OBVIOUS
<1>1. job[q].id \in Names
  BY JobTyped DEF Working
<1>2. c # a
  BY <1>1 DEF ManagedLinks
<1>3. Has(job[q].id, b, c)
  BY <1>1, <1>2 DEF ShapeInv, ShapedLink
<1>4. Has(job[q].id, job[q].backend, a)
  BY DEF ShapeInv, ShapedJob, Concerned
<1>5. QED
  BY <1>1, <1>2, <1>3, <1>4, OneShape

\* Nobody else works on a package a process is concerned with.
LEMMA Alone ==
  ASSUME HoldInv, NEW q \in Procs, NEW r \in Procs \ {q}, Concerned(q), Concerned(r)
  PROVE  job[q].id # job[r].id
  BY DEF HoldInv, Holding

\* Which step leads to where.
LEMMA Predecessor ==
  ASSUME TypeInv, NEW q \in Procs, Act(q)
  PROVE  /\ pc'[q] = "create_link" => RemoveLink(q)
         /\ pc'[q] \in {"open_marker", "link_failed"} => CreateLink(q)
         /\ pc'[q] = "write_marker" => OpenMarker(q)
         /\ pc'[q] = "delete" => Unlink(q)
         /\ pc'[q] = "confirm" => Delete(q)
         /\ pc'[q] \in {"unmark", "leftover"} => Confirm(q)
         /\ pc'[q] = "refused" => CheckLink(q)
<1>a. pc \in [Procs -> Steps]
  BY DEF TypeInv, TypeOK
<1> USE <1>a DEF Goto
<1>1. CASE Invoke(q) \/ AcquireLock(q) \/ Exit(q) \/ Crash(q)
  BY <1>1 DEF Invoke, AcquireLock, Exit, Crash, Leaves
<1>2. CASE CleanOrphanedInstall(q) \/ ResolveForInstall(q) \/ Fetch(q) \/ Transfer(q) \/ Verify(q)
  BY <1>2 DEF CleanOrphanedInstall, ResolveForInstall, Fetch, FetchPayload, FetchArchive,
     FetchFails, Transfer, Verify, VerifyPayload, VerifyArchive
<1>3. CASE ClearExtracted(q) \/ Unpack(q) \/ CheckLink(q) \/ RemoveLink(q) \/ CreateLink(q)
           \/ OpenMarker(q) \/ WriteMarker(q) \/ UrlFetch(q) \/ Place(q)
  BY <1>3 DEF ClearExtracted, Unpack, CheckLink, RemoveLink, CreateLink, OpenMarker,
     WriteMarker, UrlFetch, Place
<1>4. CASE Probe(q) \/ Unlink(q) \/ Delete(q) \/ Confirm(q) \/ RemoveMarker(q) \/ CheckPin(q) \/ ResolveForUpgrade(q) \/ PinCheck(q)
           \/ PinWrite(q) \/ Unpin(q)
  BY <1>4 DEF Probe, Unlink, Delete, Confirm, RemoveMarker, CheckPin, ResolveForUpgrade, PinCheck, PinWrite, Unpin
<1>5. QED
  BY <1>1, <1>2, <1>3, <1>4 DEF Act, Step

\* Nobody else makes a link into a package that is being worked on.
LEMMA StepUnlinked ==
  ASSUME StableReleases, WorkInv, ShapeInv, UnlinkedInv, [Next]_vars
  PROVE  UnlinkedInv'
<1>a. TypeInv /\ HoldInv /\ pc \in [Procs -> Steps] /\ NoLink \notin ManagedLinks
  BY SlotsAssumption DEF WorkInv, TypeInv, TypeOK
<1>1. ASSUME NEW q \in Procs, Act(q) PROVE UnlinkedInv'
  <2>1. \A c \in Aliases : link'[c] # link[c] => LinkWritten(q, c)
    BY <1>1, <1>a, LinkWrites
  <2>2. Unlinked(q)'
    <3>1. SUFFICES ASSUME pc'[q] \in {"create_link", "delete", "confirm", "unmark"} \/ Uninstalled(q)'
                   PROVE  NoLinkInto(job[q].id)' /\ job'[q] = job[q]
      BY DEF Unlinked, NoLinkInto
    <3>2. CASE Unlink(q) \/ RemoveLink(q)
      <4>1. Working(q) /\ job'[q] = job[q] /\ job[q].alias \in Aliases
        BY <1>a, <3>2, JobTyped DEF Unlink, RemoveLink, Working, InstallSteps, UninstallSteps
      <4>2. link'[job[q].alias] \notin ManagedLinks
        BY <1>a, <3>2, <4>1 DEF Unlink, RemoveLink, IsOurManagedSymlink, TypeInv, TypeOK
      <4>3. \A c \in Aliases, b \in Backends : link'[c] # <<job[q].id, b>>
        BY <1>a, <2>1, <4>1, <4>2, FreedName DEF LinkWritten
      <4>4. QED
        BY <4>1, <4>3 DEF NoLinkInto
    <3>3. CASE Delete(q) \/ Confirm(q) \/ RemoveMarker(q)
      <4>1. pc[q] \in {"delete", "confirm", "unmark"} /\ UNCHANGED <<link, job>>
        BY <3>3 DEF Delete, Confirm, RemoveMarker, files
      <4>2. QED
        BY <4>1 DEF UnlinkedInv, Unlinked, NoLinkInto
    <3>4. QED
      <4>1. Uninstalled(q)' => RemoveMarker(q)
        BY <1>1, <1>a, LastStep DEF HoldInv
      <4>2. pc'[q] \in {"create_link", "delete", "confirm", "unmark"} =>
               Unlink(q) \/ RemoveLink(q) \/ Delete(q) \/ Confirm(q)
        BY <1>1, <1>a, Predecessor
      <4>3. QED
        BY <3>1, <3>2, <3>3, <4>1, <4>2
  <2>3. ASSUME NEW r \in Procs \ {q} PROVE Unlinked(r)'
    <3>1. pc'[r] = pc[r] /\ cmd'[r] = cmd[r] /\ job'[r] = job[r]
      BY <1>1, <1>a, OnlyOneMoves DEF OthersStand
    <3>2. SUFFICES ASSUME NoLinkInto(job[r].id), Concerned(r), NEW c \in Aliases, NEW b \in Backends,
                          link'[c] = <<job[r].id, b>>
                   PROVE  FALSE
      BY <3>1 DEF UnlinkedInv, Unlinked, NoLinkInto, Concerned, Working, Uninstalled, InstallSteps,
         UninstallSteps
    <3>3. LinkWritten(q, c) /\ link'[c] = <<job[q].id, job[q].backend>> /\ Working(q)
      <4>1. NoLink # <<job[r].id, b>>
        BY <1>a, <3>2 DEF HoldInv, Holding, Jobs, ManagedLinks
      <4>2. QED
        BY <2>1, <3>2, <4>1 DEF NoLinkInto, LinkWritten
    <3>4. QED
      BY <1>a, <3>2, <3>3, Alone DEF Concerned
  <2>4. QED
    BY <2>2, <2>3 DEF UnlinkedInv
<1>2. ASSUME NEW a \in PkgCommands, PkgChanges(a) PROVE UnlinkedInv'
  <2>1. UNCHANGED <<pc, cmd, job>>
    BY <1>2 DEF PkgChanges
  <2>2. ASSUME NEW q \in Procs, Concerned(q), NoLinkInto(job[q].id) PROVE NoLinkInto(job[q].id)'
    <3>1. \A b \in Backends : NoLink # <<job[q].id, b>> /\ Foreign # <<job[q].id, b>>
      BY <1>a, <2>2, SlotsAssumption DEF HoldInv, Holding, Jobs, ManagedLinks
    <3>2. QED
      BY <1>2, <1>a, <2>1, <2>2, <3>1 DEF PkgChanges, NoLinkInto, TypeInv, TypeOK
  <2>3. QED
    BY <2>1, <2>2 DEF UnlinkedInv, Unlinked, NoLinkInto, Concerned, Working, Uninstalled,
       InstallSteps, UninstallSteps
<1>3. CASE UNCHANGED vars
  BY <1>3 DEF vars, UnlinkedInv, Unlinked, NoLinkInto, Uninstalled
<1>4. QED
  BY <1>1, <1>2, <1>3 DEF Next, Act

\* The invariant so far, when the releases of a package agree.
LEMMA ReleaseInvariant ==
  ASSUME IdsOnly, LockFileOpens, StableReleases
  PROVE  Spec => [](WorkInv /\ ShapeInv /\ UnlinkedInv)
<1>1. Init => WorkInv /\ ShapeInv /\ UnlinkedInv
  BY InitTyped, InitLocked, InitHeld, InitKnown, InitShaped
     DEF WorkInv, Init, UnlinkedInv, Unlinked, Uninstalled
<1>2. WorkInv /\ ShapeInv /\ UnlinkedInv /\ [Next]_vars => (WorkInv /\ ShapeInv /\ UnlinkedInv)'
  BY StepWork, StepShaped, StepUnlinked
<1>3. QED
  BY <1>1, <1>2, PTL DEF Spec

\* An uninstall that reports success has left no directory of either backend, no
\* record and no link, whatever killed or failed commands had left before it: the
\* Probe, Unlink, Delete and RemoveMarker steps find all of it.
THEOREM UninstallLeavesNothing ==
  ASSUME IdsOnly, LockFileOpens, StableReleases
  PROVE  Spec => []UninstallIsClean
<1>1. ASSUME WorkInv, ShapeInv, UnlinkedInv PROVE UninstallIsClean
  <2>1. SUFFICES ASSUME NEW q \in Procs, Uninstalled(q)
                 PROVE  /\ \A b \in Backends : dir[<<job[q].id, b>>] = Absent
                        /\ marker[job[q].id] = NoMarker
                        /\ \A a \in Aliases, b \in Backends : link[a] # <<job[q].id, b>>
    BY DEF UninstallIsClean, Uninstalled
  <2>2. Concerned(q) /\ job[q].id \in Names /\ Known(q) /\ Unlinked(q)
    BY <1>1, <2>1 DEF WorkInv, HoldInv, Holding, Concerned, Jobs, FilesInv, UnlinkedInv
  <2>3. JobDir(q) = Absent /\ marker[job[q].id] = NoMarker /\ NoLinkInto(job[q].id)
    BY <2>1, <2>2 DEF Known, Unlinked
  <2>4. ASSUME NEW b \in Backends, dir[<<job[q].id, b>>] # Absent PROVE FALSE
    <3>1. PICK a \in Aliases : Has(job[q].id, b, a)
      BY <1>1, <2>2, <2>4 DEF ShapeInv, ShapedDir
    <3>2. Has(job[q].id, job[q].backend, job[q].alias)
      BY <1>1, <2>2 DEF ShapeInv, ShapedJob
    <3>3. b = job[q].backend
      BY <2>2, <3>1, <3>2, OneShape
    <3>4. QED
      BY <2>3, <2>4, <3>3 DEF JobDir
  <2>5. QED
    BY <2>3, <2>4 DEF NoLinkInto
<1>2. QED
  BY <1>1, ReleaseInvariant, PTL

-----------------------------------------------------------------------------
\* What a process knows of the command name of its package.
Linked(q) ==
    LET a == job[q].alias IN
    /\ pc[q] = "create_link" => link[a] = NoLink
    /\ pc[q] \in {"open_marker", "write_marker"} \/ Installed(q) =>
          link[a] = <<job[q].id, job[q].backend>>
    /\ pc[q] \in {"delete", "confirm"} => ~IsOurManagedSymlink(a)
    /\ pc[q] \in {"refused", "leftover"} => link[a] = Foreign
    /\ pc[q] = "link_failed" => "disk" \in Faults

LinkedInv == \A q \in Procs : Linked(q)

\* A command name that two packages have is one package's.
LEMMA OwnName ==
  ASSUME OwnAliases, NEW n \in Names, NEW k \in Names, NEW a, NEW b, NEW c, Has(n, b, a), Has(k, c, a)
  PROVE  n = k
  BY DEF OwnAliases, AliasesOf, Has

\* Another process leaves the name of a package alone.
LEMMA NamesStand ==
  ASSUME OwnAliases, WorkInv, ShapeInv, NEW q \in Procs, Act(q),
         NEW r \in Procs \ {q}, Concerned(r)
  PROVE  link'[job[r].alias] = link[job[r].alias]
<1>a. TypeInv /\ HoldInv
  BY DEF WorkInv
<1>1. SUFFICES ASSUME link'[job[r].alias] # link[job[r].alias] PROVE FALSE
  OBVIOUS
<1>2. job[r].alias \in Aliases /\ job[r].id \in Names /\ Has(job[r].id, job[r].backend, job[r].alias)
  BY <1>a DEF HoldInv, Holding, Jobs, ShapeInv, ShapedJob
<1>3. job[r].alias = job[q].alias /\ Working(q)
  BY <1>a, <1>1, <1>2, LinkWrites DEF LinkWritten
<1>4. job[q].id \in Names /\ Has(job[q].id, job[q].backend, job[q].alias)
  BY <1>a, <1>3, JobTyped DEF ShapeInv, ShapedJob, Concerned, Working
<1>5. job[q].id = job[r].id
  BY <1>2, <1>3, <1>4, OwnName
<1>6. QED
  BY <1>a, <1>3, <1>5, Alone DEF Concerned

\* Nobody else has a use for the name, and pkg keeps off.
LEMMA StepLinked ==
  ASSUME OwnAliases, PkgCommands = {}, WorkInv, ShapeInv, LinkedInv, [Next]_vars
  PROVE  LinkedInv'
<1>a. /\ TypeInv /\ HoldInv /\ pc \in [Procs -> Steps] /\ link \in [Aliases -> Slots]
      /\ \A q \in Procs : Known(q) /\ Running(q) /\ Linked(q)
  BY DEF WorkInv, TypeInv, TypeOK, FilesInv, HoldInv, LinkedInv
<1>b. NoLink \notin ManagedLinks /\ Foreign \notin ManagedLinks
  BY SlotsAssumption
<1>1. ASSUME NEW q \in Procs, Act(q) PROVE LinkedInv'
  <2> DEFINE Named == {"create_link", "open_marker", "write_marker", "delete", "confirm", "refused",
                       "leftover", "link_failed"}
  <2>0. ASSUME pc'[q] \notin Named, ~Installed(q)' PROVE Linked(q)'
    BY <2>0 DEF Linked
  <2>1. ASSUME RemoveLink(q) PROVE Linked(q)'
    <3>1. pc[q] = "remove_link" /\ job[q].alias \in Aliases
      BY <1>a, <2>1, JobTyped DEF RemoveLink, InstallSteps
    <3>2. pc'[q] = "create_link" /\ job' = job /\ link'[job[q].alias] = NoLink
      BY <1>a, <2>1, <3>1 DEF RemoveLink, Goto
    <3>3. QED
      BY <3>2 DEF Linked, Installed
  <2>2. ASSUME CreateLink(q) PROVE Linked(q)'
    <3>1. pc[q] = "create_link" /\ job[q].alias \in Aliases /\ link[job[q].alias] = NoLink
      BY <1>a, <2>2, JobTyped DEF CreateLink, InstallSteps, Linked
    <3>2. job' = job
          /\ \/ /\ pc'[q] = "open_marker"
                /\ link'[job[q].alias] = <<job[q].id, job[q].backend>>
             \/ pc'[q] = "link_failed" /\ "disk" \in Faults
      BY <1>a, <2>2, <3>1 DEF CreateLink, Goto
    <3>3. QED
      BY <3>2 DEF Linked, Installed
  <2>3. ASSUME OpenMarker(q) \/ WriteMarker(q) PROVE Linked(q)'
    <3>1. pc[q] \in {"open_marker", "write_marker"} /\ UNCHANGED <<link, job>>
      BY <2>3 DEF OpenMarker, WriteMarker
    <3>2. pc'[q] \in {"write_marker", "ok"}
      BY <1>a, <2>3 DEF OpenMarker, WriteMarker, Goto
    <3>3. Linked(q)
      BY <1>a
    <3>4. QED
      BY <3>1, <3>2, <3>3 DEF Linked, Installed
  <2>4. ASSUME Unlink(q) PROVE Linked(q)'
    <3>1. pc[q] = "unlink" /\ job[q].alias \in Aliases
      BY <1>a, <2>4, JobTyped DEF Unlink, UninstallSteps
    <3>2. pc'[q] = "delete" /\ job' = job /\ link'[job[q].alias] \notin ManagedLinks
      BY <1>a, <1>b, <2>4, <3>1 DEF Unlink, Goto, IsOurManagedSymlink
    <3>3. QED
      BY <3>2 DEF Linked, Installed, IsOurManagedSymlink
  <2>5. ASSUME Delete(q) PROVE Linked(q)'
    <3>1. pc[q] = "delete" /\ UNCHANGED <<link, job>> /\ pc'[q] = "confirm"
      BY <1>a, <2>5 DEF Delete, Goto
    <3>2. Linked(q)
      BY <1>a
    <3>3. QED
      BY <3>1, <3>2 DEF Linked, Installed, IsOurManagedSymlink
  <2>6. ASSUME Confirm(q) PROVE Linked(q)'
    <3>1. pc[q] = "confirm" /\ UNCHANGED <<link, dir, job>> /\ pc'[q] \in {"leftover", "unmark", "fetch"}
      BY <1>a, <2>6 DEF Confirm, Goto, files
    <3>2. ~IsOurManagedSymlink(job[q].alias) /\ JobDir(q) = Absent
      BY <1>a, <3>1 DEF Linked, Known
    <3>3. pc'[q] = "leftover" => link[job[q].alias] = Foreign
      BY <1>a, <2>6, <3>2 DEF Confirm, Goto, Exists, JobDir
    <3>4. QED
      BY <3>1, <3>3 DEF Linked, Installed, IsOurManagedSymlink
  <2>7. ASSUME CheckLink(q) PROVE Linked(q)'
    <3>1. UNCHANGED <<link, job>> /\ pc'[q] \in {"refused", "remove_link"}
      BY <1>a, <2>7 DEF CheckLink, Goto
    <3>2. pc'[q] = "refused" => link[job[q].alias] = Foreign
      BY <1>a, <2>7 DEF CheckLink, Goto, Exists
    <3>3. QED
      BY <3>1, <3>2 DEF Linked, Installed
  <2>8. ASSUME pc'[q] \notin Named /\ ~OpenMarker(q) /\ ~WriteMarker(q) PROVE Linked(q)'
    BY <1>1, <1>a, <2>8, <2>0, LastStep
  <2>9. Linked(q)'
    BY <1>1, <1>a, <2>1, <2>2, <2>3, <2>4, <2>5, <2>6, <2>7, <2>8, Predecessor
  <2>10. ASSUME NEW r \in Procs \ {q} PROVE Linked(r)'
    <3>1. pc'[r] = pc[r] /\ cmd'[r] = cmd[r] /\ job'[r] = job[r] /\ Linked(r)
      BY <1>1, <1>a, OnlyOneMoves DEF OthersStand
    <3>2. CASE Concerned(r)
      <4>1. link'[job[r].alias] = link[job[r].alias]
        BY <1>1, <3>2, NamesStand
      <4>2. QED
        BY <3>1, <4>1 DEF Linked, Installed, IsOurManagedSymlink
    <3>3. CASE ~Concerned(r)
      BY <3>1, <3>3 DEF Linked, Concerned, Working, Installed, InstallSteps, UninstallSteps
    <3>4. QED
      BY <3>2, <3>3
  <2>11. QED
    BY <2>9, <2>10 DEF LinkedInv
<1>2. CASE UNCHANGED vars
  BY <1>2 DEF vars, LinkedInv, Linked, Installed, IsOurManagedSymlink
<1>3. QED
  BY <1>1, <1>2 DEF Next, Act, PkgChanges

\* The invariant when, besides, no two packages share a name.
LinkedWorkInv == WorkInv /\ ShapeInv /\ UnlinkedInv /\ LinkedInv

\* It always holds.
LEMMA LinkedInvariant ==
  ASSUME IdsOnly, LockFileOpens, StableReleases, OwnAliases, PkgCommands = {}
  PROVE  Spec => []LinkedWorkInv
<1>1. Init => LinkedInv
  BY DEF Init, LinkedInv, Linked, Installed
<1>2. WorkInv /\ ShapeInv /\ LinkedInv /\ [Next]_vars => LinkedInv'
  BY StepLinked
<1>3. QED
  BY <1>1, <1>2, ReleaseInvariant, PTL DEF Spec, LinkedWorkInv

\* A command that prints "Successfully installed" or "upgraded" has left the verified
\* files and the link to them, whatever ran beside it, failed or was killed before it,
\* and however full the disk is.
THEOREM SuccessMeansInstalled ==
  ASSUME IdsOnly, LockFileOpens, StableReleases, OwnAliases, PkgCommands = {}
  PROVE  Spec => []SuccessIsInstalled
<1>1. ASSUME LinkedWorkInv PROVE SuccessIsInstalled
  <2>1. SUFFICES ASSUME NEW q \in Procs, Installed(q)
                 PROVE  /\ dir[<<job[q].id, job[q].backend>>] = job[q].version
                        /\ link[job[q].alias] = <<job[q].id, job[q].backend>>
    BY DEF SuccessIsInstalled, Succeeded, Installed, Installs
  <2>2. Known(q) /\ Linked(q)
    BY <1>1 DEF LinkedWorkInv, WorkInv, FilesInv, LinkedInv
  <2>3. QED
    BY <2>1, <2>2 DEF Known, JobDir, Linked
<1>2. QED
  BY <1>1, LinkedInvariant, PTL

\* It has left the record of its release, too, whatever else went wrong, as long as
\* the disk takes the record: nothing looks at the stream it is written to.
THEOREM SuccessMeansRecorded ==
  ASSUME IdsOnly, LockFileOpens, "disk" \notin Faults
  PROVE  Spec => []SuccessIsRecorded
<1>1. WorkInv => SuccessIsRecorded
  BY DEF WorkInv, FilesInv, Known, SuccessIsRecorded, Succeeded, Installed, Installs
<1>2. QED
  BY <1>1, WorkInvariant, PTL

\* A refusal or leftover is a stranger's command at the name, a hash or archive
\* failure is the environment's, and create_symlink only fails on a full disk: what
\* earlier commands left behind is never the cause.
THEOREM FailuresAreExplained ==
  ASSUME IdsOnly, LockFileOpens, StableReleases, OwnAliases, PkgCommands = {}
  PROVE  Spec => []FailureHasACause
<1>1. LinkedWorkInv => FailureHasACause
  BY DEF LinkedWorkInv, WorkInv, FilesInv, LinkedInv, Known, Linked, FailureHasACause
<1>2. QED
  BY <1>1, LinkedInvariant, PTL

-----------------------------------------------------------------------------
\* The two halves of RecordMatchesCommand for one package.
NamesAlias(n) ==
    \A a \in Aliases, b \in Backends : link[a] = <<n, b>> =>
        marker[n] \in Records /\ marker[n].alias = a

NamesVersion(n) ==
    \A a \in Aliases, b \in Backends :
        link[a] = <<n, b>> /\ dir[<<n, b>>] \in Versions => marker[n].version = dir[<<n, b>>]

\* Who may leave them unsettled: a process between its link and its record, and one
\* between its new payload and its record.
Recording(q) == pc[q] \in {"open_marker", "write_marker"}
Replacing(q) == \/ pc[q] \in Linking
                \/ pc[q] = "verify" /\ job[q].backend = "portable"

\* A record is right, or somebody is about to write it.
RecordInv ==
    \A n \in Names :
        /\ NamesAlias(n) \/ \E q \in Procs : Recording(q) /\ job[q].id = n
        /\ NamesVersion(n) \/ \E q \in Procs : Replacing(q) /\ job[q].id = n

\* New bytes where a link may point are a step on the way to a new record.
LEMMA NewVersion ==
  ASSUME Faults \cap {"crash", "unpack", "disk"} = {}, WorkInv, NEW q \in Procs, Act(q), NEW n \in Names, NEW b \in Backends,
         dir'[<<n, b>>] # dir[<<n, b>>], dir'[<<n, b>>] \in Versions
  PROVE  Replacing(q)' /\ job'[q].id = n
<1>a. TypeInv /\ HoldInv /\ FilesInv /\ Known(q) /\ Running(q) /\ pc \in [Procs -> Steps]
  BY DEF WorkInv, TypeInv, TypeOK, FilesInv, HoldInv
<1>1. Working(q) /\ n = job[q].id /\ b = job[q].backend
  BY <1>a, DirWrites, SentinelsAssumption DEF DirWritten
<1>2. dir \in [Names \X Backends -> Contents] /\ <<n, b>> \in Names \X Backends
  BY <1>a DEF TypeInv, TypeOK
<1> USE <1>2, SentinelsAssumption DEF Goto, Replacing, Linking
<1>3. CASE Fetch(q)
  <2>1. dir'[<<n, b>>] \in {Partial, Empty}
    BY <1>1, <1>3 DEF Fetch, FetchPayload, FetchArchive, FetchFails
  <2>2. QED
    BY <2>1
<1>4. CASE Transfer(q)
  <2>1. job' = job /\ b = "portable" /\ pc'[q] \in {"verify", "fetch_failed"}
    BY <1>a, <1>1, <1>4 DEF Transfer, Backends
  <2>2. pc'[q] = "fetch_failed" => dir'[<<n, b>>] \in {dir[<<n, b>>], Partial}
    BY <1>a, <1>1, <1>4 DEF Transfer
  <2>3. QED
    BY <1>1, <2>1, <2>2
<1>5. CASE Verify(q)
  <2>1. dir'[<<n, b>>] \in {Absent, Empty}
    BY <1>1, <1>5 DEF Verify, VerifyPayload, VerifyArchive
  <2>2. QED
    BY <2>1
<1>6. CASE ClearExtracted(q)
  <2>1. dir'[<<n, b>>] = Empty
    BY <1>a, <1>1, <1>6 DEF ClearExtracted, Known
  <2>2. QED
    BY <2>1
<1>7. CASE Unpack(q)
  <2>1. archive[job[q].id] # Absent
    BY <1>a, <1>1, <1>7, JobTyped DEF Unpack, Known, InstallSteps
  <2>2. job' = job /\ pc'[q] = "check_link"
    BY <1>a, <1>7, <2>1 DEF Unpack
  <2>3. QED
    BY <1>1, <2>2
<1>8. CASE CheckLink(q) \/ Delete(q)
  <2>1. dir'[<<n, b>>] = Absent
    BY <1>1, <1>8 DEF CheckLink, Delete, Without
  <2>2. QED
    BY <2>1
<1>9. CASE Place(q)
  <2>1. b = "portable" /\ job' = job /\ pc'[q] = "verify"
    BY <1>a, <1>1, <1>9, UrlInstallsAssumption DEF Place, Running
  <2>2. QED
    BY <1>1, <2>1
<1>10. CASE CleanOrphanedInstall(q)
  BY <1>1, <1>10 DEF CleanOrphanedInstall, Working, InstallSteps, UninstallSteps
<1>11. CASE UNCHANGED dir
  BY <1>11
<1>12. QED
  BY <1>3, <1>4, <1>5, <1>6, <1>7, <1>8, <1>9, <1>10, <1>11 DEF Act, Step, files, Invoke,
     AcquireLock, Exit, Crash, ResolveForInstall, RemoveLink, CreateLink, OpenMarker, WriteMarker,
     UrlFetch, Probe, Unlink, Confirm, RemoveMarker, CheckPin, ResolveForUpgrade, PinCheck,
     PinWrite, Unpin

\* A replacement ends with the record, with no link into the package, or with
\* no version in its directory.
LEMMA ReplacementEnds ==
  ASSUME Faults \cap {"crash", "unpack", "disk"} = {}, WorkInv, UnlinkedInv, NEW q \in Procs, Act(q),
         Replacing(q), ~Replacing(q)'
  PROVE  \/ WriteMarker(q)
         \/ UNCHANGED link /\ NoLinkInto(job[q].id)
         \/ UNCHANGED <<link, marker>> /\ JobDir(q)' \notin Versions /\ job'[q] = job[q]
<1>a. TypeInv /\ pc \in [Procs -> Steps] /\ dir \in [Names \X Backends -> Contents]
  BY DEF WorkInv, TypeInv, TypeOK
<1>b. pc[q] \in InstallSteps /\ <<job[q].id, job[q].backend>> \in Names \X Backends
  BY <1>a, JobTyped DEF Replacing, Linking, InstallSteps
<1> USE DEF Goto, Replacing, Linking
<1>1. CASE Verify(q)
  <2>1. UNCHANGED <<link, marker, job>> /\ job[q].backend = "portable" /\ VerifyPayload(q)
    BY <1>1 DEF Verify, VerifyArchive, VerifyPayload
  <2>2. dir' = [dir EXCEPT ![<<job[q].id, "portable">>] = IF @ = Absent THEN Absent ELSE Empty]
    BY <1>a, <2>1 DEF VerifyPayload
  <2>3. JobDir(q)' \in {Absent, Empty}
    BY <1>a, <1>b, <2>1, <2>2 DEF JobDir
  <2>4. QED
    BY <2>1, <2>3, SentinelsAssumption
<1>2. CASE CheckLink(q)
  <2>1. UNCHANGED <<link, marker, job>> /\ Without(job[q].id, job[q].backend)
    BY <1>a, <1>2 DEF CheckLink
  <2>2. JobDir(q)' = Absent
    BY <1>a, <1>b, <2>1 DEF JobDir, Without
  <2>3. QED
    BY <2>1, <2>2, SentinelsAssumption
<1>3. CASE CreateLink(q)
  <2>1. UNCHANGED link /\ pc[q] = "create_link"
    BY <1>a, <1>3 DEF CreateLink
  <2>2. QED
    BY <2>1 DEF UnlinkedInv, Unlinked
<1>4. CASE RemoveLink(q) \/ OpenMarker(q)
  BY <1>a, <1>4 DEF RemoveLink, OpenMarker
<1>5. CASE WriteMarker(q)
  BY <1>5
<1>6. QED
  BY <1>1, <1>2, <1>3, <1>4, <1>5 DEF Act, Step, Invoke, AcquireLock, Exit, Crash, Results,
     CleanOrphanedInstall, ResolveForInstall, Fetch, Transfer, ClearExtracted, Unpack, UrlFetch,
     Place, Probe, Unlink, Delete, Confirm, RemoveMarker, CheckPin, ResolveForUpgrade, PinCheck,
     PinWrite, Unpin

\* Between a link and its record only the record is written.
LEMMA RecordingGoesOn ==
  ASSUME Faults \cap {"crash", "unpack", "disk"} = {}, NEW q \in Procs, Act(q), Recording(q)
  PROVE  OpenMarker(q) \/ WriteMarker(q)
  BY DEF Recording, Act, Step, Invoke, AcquireLock, Exit, Crash, Results, CleanOrphanedInstall,
     ResolveForInstall, Fetch, Transfer, Verify, ClearExtracted, Unpack, CheckLink, RemoveLink,
     CreateLink, UrlFetch, Place, Probe, Unlink, Delete, Confirm, RemoveMarker, CheckPin,
     ResolveForUpgrade, PinCheck, PinWrite, Unpin

\* A record goes wrong only in a replacement, and is right when that ends.
LEMMA StepRecorded ==
  ASSUME Faults \cap {"crash", "unpack", "disk"} = {}, StableReleases,
         WorkInv, WorkInv', ShapeInv, ShapeInv', UnlinkedInv, RecordInv, [Next]_vars
  PROVE  RecordInv'
<1>a. TypeInv /\ HoldInv /\ pc \in [Procs -> Steps] /\ marker \in [Names -> Records \cup {NoMarker, Truncated}]
  BY DEF WorkInv, TypeInv, TypeOK
<1>1. ASSUME NEW q \in Procs, Act(q) PROVE RecordInv'
  <2>1. SUFFICES ASSUME NEW n \in Names
                 PROVE  /\ NamesAlias(n)' \/ \E r \in Procs : (Recording(r) /\ job[r].id = n)'
                        /\ NamesVersion(n)' \/ \E r \in Procs : (Replacing(r) /\ job[r].id = n)'
    BY DEF RecordInv
  <2>2. \A r \in Procs \ {q} : pc'[r] = pc[r] /\ job'[r] = job[r]
    BY <1>1, <1>a, OnlyOneMoves DEF OthersStand
  <2>3. \A a \in Aliases : link'[a] # link[a] => LinkWritten(q, a)
    BY <1>1, <1>a, LinkWrites
  <2>4. marker'[n] # marker[n] => RecordWritten(q, n)
    BY <1>1, <1>a, RecordWrites
  <2>5. \A b \in Backends : NoLink # <<n, b>>
    BY SlotsAssumption DEF ManagedLinks
  \* A new link into n is q's, which goes on to record it.
  <2>6. ASSUME NEW a \in Aliases, NEW b \in Backends, link'[a] = <<n, b>>, link[a] # <<n, b>>
        PROVE  pc'[q] = "open_marker" /\ job'[q].id = n
    <3>1. CreateLink(q) /\ link[a] = NoLink /\ <<n, b>> = <<job[q].id, job[q].backend>>
      BY <2>3, <2>5, <2>6 DEF LinkWritten
    <3>2. QED
      BY <1>a, <2>6, <3>1 DEF CreateLink, Goto
  \* A record is taken away only when no link is left.
  <2>7. CASE RemoveMarker(q) /\ n = job[q].id
    <3>1. pc[q] = "unmark" /\ UNCHANGED link
      BY <2>7 DEF RemoveMarker
    <3>2. NoLinkInto(n)
      BY <2>7, <3>1 DEF UnlinkedInv, Unlinked
    <3>3. QED
      BY <3>1, <3>2 DEF NoLinkInto, NamesAlias, NamesVersion
  \* The record of what was replaced.
  <2>8. CASE WriteMarker(q) /\ n = job[q].id
    <3>1. /\ pc[q] = "write_marker" /\ UNCHANGED <<link, dir>>
          /\ marker'[n] = [version |-> job[q].version, alias |-> job[q].alias]
      BY <1>a, <2>8 DEF WriteMarker
    <3>2. marker'[n] \in Records /\ Has(n, job[q].backend, job[q].alias)
      <4>1. Working(q) /\ job[q].version \in Versions /\ job[q].alias \in Aliases
        BY <1>a, <3>1, JobTyped DEF InstallSteps, Working
      <4>2. Has(n, job[q].backend, job[q].alias)
        BY <2>8, <4>1 DEF ShapeInv, ShapedJob, Concerned
      <4>3. QED
        BY <3>1, <4>1, <4>2 DEF Records
    <3>3. JobDir(q) = job[q].version
      BY <3>1 DEF WorkInv, FilesInv, Known, Linking
    <3>4. ASSUME NEW a \in Aliases, NEW b \in Backends, link[a] = <<n, b>>
          PROVE  a = job[q].alias /\ b = job[q].backend
      <4>1. Has(n, b, a)
        BY <3>4 DEF ShapeInv, ShapedLink
      <4>2. QED
        BY <3>2, <4>1, OneShape
    <3>5. QED
      BY <2>8, <3>1, <3>2, <3>3, <3>4 DEF NamesAlias, NamesVersion, JobDir
  <2>9. ASSUME ~(RemoveMarker(q) /\ n = job[q].id), ~(WriteMarker(q) /\ n = job[q].id)
        PROVE  NamesAlias(n)' \/ \E r \in Procs : (Recording(r) /\ job[r].id = n)'
    <3>1. marker'[n] # marker[n] => OpenMarker(q) /\ n = job[q].id
      BY <2>4, <2>9 DEF RecordWritten
    <3>2. OpenMarker(q) /\ n = job[q].id => (Recording(q) /\ job[q].id = n)'
      BY <1>a DEF OpenMarker, Goto, Recording
    <3>3. CASE NamesAlias(n)
      <4>1. CASE marker'[n] = marker[n] /\ \A a \in Aliases, b \in Backends :
                                             link'[a] = <<n, b>> => link[a] = <<n, b>>
        BY <3>3, <4>1 DEF NamesAlias
      <4>2. QED
        BY <2>6, <3>1, <3>2, <4>1 DEF Recording
    <3>4. ASSUME NEW r \in Procs, Recording(r), job[r].id = n
          PROVE  (Recording(r) /\ job[r].id = n)'
      <4>1. CASE r # q
        BY <2>2, <3>4, <4>1 DEF Recording
      <4>2. CASE r = q
        <5>1. OpenMarker(q)
          BY <1>1, <2>9, <3>4, <4>2, RecordingGoesOn
        <5>2. QED
          BY <3>2, <3>4, <4>2, <5>1
      <4>3. QED
        BY <4>1, <4>2
    <3>5. QED
      BY <3>3, <3>4 DEF RecordInv
  <2>10. ASSUME ~(RemoveMarker(q) /\ n = job[q].id), ~(WriteMarker(q) /\ n = job[q].id)
         PROVE  NamesVersion(n)' \/ \E r \in Procs : (Replacing(r) /\ job[r].id = n)'
    <3>1. marker'[n] # marker[n] => OpenMarker(q) /\ n = job[q].id
      BY <2>4, <2>10 DEF RecordWritten
    <3>2. OpenMarker(q) /\ n = job[q].id => (Replacing(q) /\ job[q].id = n)'
      BY <1>a DEF OpenMarker, Goto, Replacing, Linking
    <3>3. CASE NamesVersion(n)
      <4>1. ASSUME NEW a \in Aliases, NEW b \in Backends, link'[a] = <<n, b>>,
                   dir'[<<n, b>>] \in Versions, marker'[n].version # dir'[<<n, b>>]
            PROVE  (Replacing(q) /\ job[q].id = n)'
        <5>1. CASE link[a] = <<n, b>> /\ dir'[<<n, b>>] = dir[<<n, b>>] /\ marker'[n] = marker[n]
          BY <3>3, <4>1, <5>1 DEF NamesVersion
        <5>2. CASE link[a] # <<n, b>>
          BY <2>6, <4>1, <5>2 DEF Replacing, Linking
        <5>3. CASE dir'[<<n, b>>] # dir[<<n, b>>]
          BY <1>1, <4>1, <5>3, NewVersion
        <5>4. CASE marker'[n] # marker[n]
          BY <3>1, <3>2, <5>4
        <5>5. QED
          BY <5>1, <5>2, <5>3, <5>4
      <4>2. QED
        BY <4>1 DEF NamesVersion
    <3>4. ASSUME NEW r \in Procs, Replacing(r), job[r].id = n
          PROVE  NamesVersion(n)' \/ (Replacing(r) /\ job[r].id = n)'
      <4>1. CASE r # q
        BY <2>2, <3>4, <4>1 DEF Replacing
      <4>2. CASE r = q /\ Replacing(q)'
        <5>1. Concerned(q)' /\ Working(q)
          BY <3>4, <4>2 DEF Replacing, Linking, Concerned, Working, InstallSteps
        <5>2. job'[q] = job[q]
          BY <1>1, <1>a, <5>1, BecomesConcerned DEF HoldInv, Working, InstallSteps, UninstallSteps,
             AcquireLock, ResolveForInstall, ResolveForUpgrade, Probe
        <5>3. QED
          BY <3>4, <4>2, <5>2
      <4>3. CASE r = q /\ ~Replacing(q)'
        <5>1. \/ UNCHANGED link /\ NoLinkInto(n)
              \/ UNCHANGED <<link, marker>> /\ JobDir(q)' \notin Versions /\ job'[q] = job[q]
          BY <1>1, <2>10, <3>4, <4>3, ReplacementEnds
        <5>2. Has(n, job[q].backend, job[q].alias)
          BY <3>4, <4>3 DEF ShapeInv, ShapedJob, Concerned, Working, Replacing, Linking, InstallSteps
        <5>3. CASE UNCHANGED link /\ NoLinkInto(n)
          BY <5>3 DEF NoLinkInto, NamesVersion
        <5>4. CASE UNCHANGED link /\ JobDir(q)' \notin Versions /\ job'[q] = job[q]
          <6>1. ASSUME NEW a \in Aliases, NEW b \in Backends, link[a] = <<n, b>>
                PROVE  b = job[q].backend
            <7>1. Has(n, b, a)
              BY <6>1 DEF ShapeInv, ShapedLink
            <7>2. QED
              BY <5>2, <7>1, OneShape
          <6>2. QED
            BY <3>4, <4>3, <5>4, <6>1 DEF NamesVersion, JobDir
        <5>5. QED
          BY <5>1, <5>3, <5>4
      <4>4. QED
        BY <3>4, <4>1, <4>2, <4>3
    <3>5. QED
      BY <3>3, <3>4 DEF RecordInv
  <2>11. QED
    BY <2>7, <2>8, <2>9, <2>10
<1>2. ASSUME NEW a \in PkgCommands, PkgChanges(a) PROVE RecordInv'
  <2>1. UNCHANGED <<dir, marker, pc, job>>
    BY <1>2 DEF PkgChanges
  <2>2. ASSUME NEW c \in Aliases, NEW n \in Names, NEW b \in Backends, link'[c] = <<n, b>>
        PROVE  link[c] = <<n, b>>
    <3>1. NoLink # <<n, b>> /\ Foreign # <<n, b>>
      BY SlotsAssumption DEF ManagedLinks
    <3>2. QED
      BY <1>2, <1>a, <2>2, <3>1 DEF PkgChanges, TypeInv, TypeOK
  <2>3. QED
    BY <2>1, <2>2 DEF RecordInv, NamesAlias, NamesVersion, Recording, Replacing
<1>3. CASE UNCHANGED vars
  BY <1>3 DEF vars, RecordInv, NamesAlias, NamesVersion, Recording, Replacing
<1>4. QED
  BY <1>1, <1>2, <1>3 DEF Next, Act

\* As long as nothing is killed, archives unpack and the disk takes what is written, a
\* link into a package nobody holds is recorded under its name, and the recorded version
\* is the one that runs, however many downloads failed half-way or brought other bytes.
THEOREM RecordsMatch ==
  ASSUME IdsOnly, LockFileOpens, StableReleases, Faults \cap {"crash", "unpack", "disk"} = {}
  PROVE  Spec => []RecordMatchesCommand
<1>1. Init => RecordInv
  <2>1. SUFFICES ASSUME Init, NEW n \in Names PROVE NoLinkInto(n)
    BY DEF RecordInv, NamesAlias, NamesVersion, NoLinkInto
  <2>2. ASSUME NEW a \in Aliases, NEW b \in Backends PROVE link[a] # <<n, b>>
    <3>1. link[a] \in {NoLink, Foreign, Dangling}
      BY <2>1, SlotsAssumption DEF Init
    <3>2. <<n, b>> \notin {NoLink, Foreign, Dangling}
      BY SlotsAssumption DEF ManagedLinks
    <3>3. QED
      BY <3>1, <3>2
  <2>3. QED
    BY <2>2 DEF NoLinkInto
<1>2. /\ WorkInv /\ ShapeInv /\ UnlinkedInv /\ (WorkInv /\ ShapeInv /\ UnlinkedInv)'
      /\ RecordInv /\ [Next]_vars
      => RecordInv'
  BY StepRecorded
<1>3. ASSUME WorkInv, ShapeInv, RecordInv PROVE RecordMatchesCommand
  <2>1. SUFFICES ASSUME NEW n \in Names, AtRest(n) PROVE NamesAlias(n) /\ NamesVersion(n)
    BY DEF RecordMatchesCommand, NamesAlias, NamesVersion
  <2>2. \A q \in Procs : Concerned(q) => job[q].id # n
    BY <1>3, <2>1, SentinelsAssumption DEF WorkInv, HoldInv, Holding, AtRest
  <2>3. QED
    BY <1>3, <2>2 DEF RecordInv, Recording, Replacing, Linking, Concerned, Working, InstallSteps
<1>4. QED
  BY <1>1, <1>2, <1>3, ReleaseInvariant, PTL DEF Spec

-----------------------------------------------------------------------------
(* Without faults nothing is left half-way. *)

\* What AtRestRecordedIsRunnable says of one package.
Runnable(n) ==
    IF marker[n] = NoMarker
    THEN \A b \in Backends : dir[<<n, b>>] = Absent
    ELSE /\ marker[n] \in Records
         /\ \E b \in Backends : /\ link[marker[n].alias] = <<n, b>>
                                /\ dir[<<n, b>>] = marker[n].version

\* A package whose command name a stranger has was never installed.
StrangersInv ==
    \A n \in Names, b \in Backends, a \in Aliases :
        Has(n, b, a) /\ link[a] = Foreign => marker[n] = NoMarker

\* A package is settled, or somebody works on it.
RunInv == \A n \in Names : Runnable(n) \/ \E q \in Procs : Working(q) /\ job[q].id = n

\* No step gives a name to a stranger, or a record to a package whose name a
\* stranger has.
LEMMA StepStrange ==
  ASSUME PkgCommands = {}, StableReleases, LinkedWorkInv, StrangersInv, [Next]_vars
  PROVE  StrangersInv'
<1>a. TypeInv /\ HoldInv /\ ShapeInv /\ LinkedInv
  BY DEF LinkedWorkInv, WorkInv
<1>1. ASSUME NEW q \in Procs, Act(q), NEW n \in Names, NEW b \in Backends, NEW a \in Aliases,
             Has(n, b, a), link'[a] = Foreign
      PROVE  marker'[n] = NoMarker
  <2>1. link[a] = Foreign
    <3>1. link'[a] # link[a] => LinkWritten(q, a)
      BY <1>1, <1>a, LinkWrites
    <3>2. Working(q) => <<job[q].id, job[q].backend>> # Foreign
      BY <1>a, JobTyped, SlotsAssumption DEF Working, ManagedLinks
    <3>3. QED
      BY <1>1, <3>1, <3>2, SlotsAssumption DEF LinkWritten
  <2>2. marker[n] = NoMarker
    BY <1>1, <2>1 DEF StrangersInv
  <2>3. SUFFICES ASSUME marker'[n] # marker[n] PROVE FALSE
    BY <2>2
  <2>4. RecordWritten(q, n)
    BY <1>1, <1>a, <2>3, RecordWrites
  <2>5. pc[q] \in {"open_marker", "write_marker"} /\ n = job[q].id /\ Working(q)
    BY <2>2, <2>3, <2>4 DEF RecordWritten, OpenMarker, WriteMarker
  <2>6. link[job[q].alias] = <<n, job[q].backend>> /\ Has(n, job[q].backend, job[q].alias)
    BY <1>a, <2>5 DEF LinkedInv, Linked, ShapeInv, ShapedJob, Concerned
  <2>7. a = job[q].alias
    BY <1>1, <2>6, OneShape
  <2>8. <<n, job[q].backend>> # Foreign
    BY <1>a, <2>5, JobTyped, SlotsAssumption DEF Working, ManagedLinks
  <2>9. QED
    BY <2>1, <2>6, <2>7, <2>8
<1>2. CASE UNCHANGED vars
  BY <1>2 DEF vars, StrangersInv, Has
<1>3. QED
  <2>1. (\E q \in Procs : Act(q)) => StrangersInv'
    BY <1>1 DEF StrangersInv, Has
  <2>2. QED
    BY <1>2, <2>1 DEF Next, Act

\* How work on a package may end: a fault, or one of four steps.
LEMMA WorkEnds ==
  ASSUME Faults = {}, TypeInv, NEW q \in Procs, Act(q), Working(q), ~Working(q)'
  PROVE  \/ WriteMarker(q) \/ RemoveMarker(q)
         \/ pc'[q] = "refused" \/ pc'[q] = "leftover"
         \/ pc'[q] \in {"bad_hash", "unpack_failed", "link_failed"}
<1>a. pc \in [Procs -> Steps]
  BY DEF TypeInv, TypeOK
<1> USE <1>a DEF Goto, Working, InstallSteps, UninstallSteps
<1>1. CASE Fetch(q) \/ Transfer(q) \/ Verify(q)
  BY <1>1 DEF Fetch, FetchPayload, FetchArchive, FetchFails, Transfer, Verify, VerifyPayload,
     VerifyArchive
<1>2. CASE ClearExtracted(q) \/ Unpack(q) \/ CheckLink(q) \/ RemoveLink(q) \/ CreateLink(q)
           \/ OpenMarker(q) \/ WriteMarker(q) \/ UrlFetch(q) \/ Place(q)
  BY <1>2 DEF ClearExtracted, Unpack, CheckLink, RemoveLink, CreateLink, OpenMarker, UrlFetch, Place
<1>3. CASE Unlink(q) \/ Delete(q) \/ Confirm(q) \/ RemoveMarker(q)
  BY <1>3 DEF Unlink, Delete, Confirm
<1>4. QED
  BY <1>1, <1>2, <1>3 DEF Act, Step, Invoke, AcquireLock, Exit, Crash, Results, Probe,
     CleanOrphanedInstall, ResolveForInstall, CheckPin, ResolveForUpgrade, PinCheck, PinWrite, Unpin

\* A package whose work has just ended has all of its files, or none.
LEMMA EndsRunnable ==
  ASSUME Faults = {}, StableReleases, LinkedWorkInv, LinkedWorkInv', StrangersInv, NEW q \in Procs,
         Act(q), Working(q), ~Working(q)', NEW n \in Names, n = job[q].id
  PROVE  Runnable(n)'
<1>a. /\ TypeInv /\ HoldInv /\ ShapeInv /\ Known(q)' /\ Linked(q)' /\ ShapeInv' /\ Running(q)
      /\ pc \in [Procs -> Steps] /\ Has(n, job[q].backend, job[q].alias)
  BY DEF LinkedWorkInv, WorkInv, FilesInv, LinkedInv, HoldInv, TypeInv, TypeOK, ShapeInv, ShapedJob,
     Concerned
<1>b. job[q].backend \in Backends /\ job[q].alias \in Aliases
  BY <1>a, JobTyped DEF Working
<1>1. ASSUME NEW b \in Backends, dir'[<<n, b>>] # Absent PROVE b = job[q].backend
  <2>1. PICK c \in Aliases : Has(n, b, c)
    BY <1>1, <1>a DEF ShapeInv, ShapedDir, Has
  <2>2. QED
    BY <1>a, <2>1, OneShape
<1>2. ASSUME UNCHANGED job, JobDir(q)' = Absent, marker'[n] = NoMarker PROVE Runnable(n)'
  BY <1>1, <1>2 DEF Runnable, JobDir
<1>3. ASSUME WriteMarker(q) PROVE Runnable(n)'
  <2>1. /\ pc[q] = "write_marker" /\ UNCHANGED <<job, cmd>> /\ pc'[q] = "ok"
        /\ job[q].version \in Versions
    BY <1>3, <1>a, JobTyped DEF WriteMarker, Goto, InstallSteps
  <2>2. Installed(q)'
    BY <1>a, <2>1 DEF Installed, Running, InstallSteps
  <2>3. /\ JobDir(q)' = job[q].version
        /\ marker'[n] = [version |-> job[q].version, alias |-> job[q].alias]
        /\ link'[job[q].alias] = <<n, job[q].backend>>
    BY <1>a, <2>1, <2>2 DEF Known, Linked
  <2>4. marker'[n] \in Records /\ marker'[n] # NoMarker
    BY <1>b, <2>1, <2>3, SentinelsAssumption DEF Records
  <2>5. QED
    BY <1>b, <2>1, <2>3, <2>4 DEF Runnable, JobDir
<1>4. ASSUME RemoveMarker(q) PROVE Runnable(n)'
  <2>1. pc[q] = "unmark" /\ UNCHANGED <<job, cmd>> /\ pc'[q] = "ok"
    BY <1>4, <1>a DEF RemoveMarker, Goto
  <2>2. Uninstalled(q)'
    BY <1>a, <2>1 DEF Uninstalled, Running
  <2>3. JobDir(q)' = Absent /\ marker'[n] = NoMarker
    BY <1>a, <2>1, <2>2 DEF Known
  <2>4. QED
    BY <1>2, <2>1, <2>3
<1>5. ASSUME \/ CheckLink(q) /\ pc'[q] = "refused"
             \/ Confirm(q) /\ pc'[q] = "leftover"
      PROVE  Runnable(n)'
  <2>1. UNCHANGED <<link, marker, job>>
    BY <1>5 DEF CheckLink, Confirm, files
  <2>2. link[job[q].alias] = Foreign
    BY <1>5, <1>a, <2>1 DEF Linked
  <2>3. marker'[n] = NoMarker
    BY <1>a, <1>b, <2>1, <2>2 DEF StrangersInv
  <2>4. JobDir(q)' = Absent
    <3>1. CASE CheckLink(q) /\ pc'[q] = "refused"
      <4>1. Without(job[q].id, job[q].backend)
        BY <1>a, <3>1 DEF CheckLink, Goto
      <4>2. <<job[q].id, job[q].backend>> \in Names \X Backends /\ dir \in [Names \X Backends -> Contents]
        BY <1>a, <1>b DEF TypeInv, TypeOK
      <4>3. QED
        BY <2>1, <4>1, <4>2 DEF Without, JobDir
    <3>2. CASE Confirm(q)
      <4>1. pc[q] = "confirm" /\ UNCHANGED dir
        BY <3>2 DEF Confirm, files
      <4>2. QED
        BY <2>1, <4>1 DEF LinkedWorkInv, WorkInv, FilesInv, Known, JobDir
    <3>3. QED
      BY <1>5, <3>1, <3>2
  <2>5. QED
    BY <1>2, <2>1, <2>3, <2>4
<1>6. pc'[q] \notin {"bad_hash", "unpack_failed", "link_failed"}
  BY <1>a DEF Known, Linked
<1>7. (pc'[q] = "refused" => CheckLink(q)) /\ (pc'[q] = "leftover" => Confirm(q))
  BY <1>a, Predecessor
<1>8. WriteMarker(q) \/ RemoveMarker(q) \/ pc'[q] = "refused" \/ pc'[q] = "leftover"
  BY <1>a, <1>6, WorkEnds
<1>9. QED
  BY <1>3, <1>4, <1>5, <1>7, <1>8

\* A package nobody works on keeps its files, its record and its name.
LEMMA StaysRunnable ==
  ASSUME OwnAliases, LinkedWorkInv, NEW q \in Procs, Act(q), NEW n \in Names,
         Runnable(n), ~(Working(q) /\ job[q].id = n)
  PROVE  Runnable(n)'
<1>a. TypeInv /\ HoldInv /\ FilesInv /\ ShapeInv
  BY DEF LinkedWorkInv, WorkInv
<1>1. marker'[n] = marker[n]
  BY <1>a, RecordWrites DEF RecordWritten
<1>2. ASSUME NEW b \in Backends, dir'[<<n, b>>] # dir[<<n, b>>]
      PROVE  marker[n] = NoMarker /\ dir'[<<n, b>>] = Absent
  BY <1>a, <1>2, DirWrites DEF DirWritten
<1>3. marker[n] \in Records => link'[marker[n].alias] = link[marker[n].alias]
  <2>1. SUFFICES ASSUME marker[n] \in Records, link'[marker[n].alias] # link[marker[n].alias]
                 PROVE  FALSE
    OBVIOUS
  <2>2. marker[n].alias \in Aliases /\ \E b \in Backends : Has(n, b, marker[n].alias)
    BY <1>a, <2>1 DEF Records, ShapeInv, ShapedMarker
  <2>3. Working(q) /\ marker[n].alias = job[q].alias
    BY <1>a, <2>1, <2>2, LinkWrites DEF LinkWritten
  <2>4. job[q].id \in Names /\ Has(job[q].id, job[q].backend, job[q].alias)
    BY <1>a, <2>3, JobTyped DEF ShapeInv, ShapedJob, Concerned, Working
  <2>5. job[q].id = n
    BY <2>2, <2>3, <2>4, OwnName
  <2>6. QED
    BY <2>3, <2>5
<1>4. QED
  BY <1>1, <1>2, <1>3 DEF Runnable

\* Work on a package leaves it settled, and the others leave it alone.
LEMMA StepRunnable ==
  ASSUME Faults = {}, PkgCommands = {}, StableReleases, OwnAliases, LinkedWorkInv, LinkedWorkInv',
         StrangersInv, RunInv, [Next]_vars
  PROVE  RunInv'
<1>a. TypeInv /\ HoldInv
  BY DEF LinkedWorkInv, WorkInv
<1>1. ASSUME NEW q \in Procs, Act(q), NEW n \in Names
      PROVE  Runnable(n)' \/ \E r \in Procs : (Working(r) /\ job[r].id = n)'
  <2>1. CASE \E r \in Procs \ {q} : Working(r) /\ job[r].id = n
    BY <1>1, <1>a, <2>1, OnlyOneMoves DEF OthersStand, Working
  <2>2. CASE Working(q) /\ job[q].id = n
    <3>1. CASE Working(q)'
      <4>1. job'[q] = job[q]
        BY <1>1, <1>a, <2>2, <3>1, BecomesConcerned DEF HoldInv, Concerned, Working, InstallSteps,
           UninstallSteps, AcquireLock, ResolveForInstall, ResolveForUpgrade, Probe
      <4>2. QED
        BY <2>2, <3>1, <4>1
    <3>2. QED
      BY <1>1, <2>2, <3>1, EndsRunnable
  <2>3. CASE Runnable(n) /\ ~(Working(q) /\ job[q].id = n)
    BY <1>1, <2>3, StaysRunnable
  <2>4. QED
    BY <2>1, <2>2, <2>3 DEF RunInv
<1>2. CASE UNCHANGED vars
  BY <1>2 DEF vars, RunInv, Runnable, Working
<1>3. QED
  <2>1. (\E q \in Procs : Act(q)) => RunInv'
    BY <1>1 DEF RunInv
  <2>2. QED
    BY <1>2, <2>1 DEF Next, Act

\* As long as nothing fails, a package nobody holds has a record if and only if it has
\* files, and the recorded command runs the recorded version.
THEOREM RecordedMeansRunnable ==
  ASSUME Faults = {}, PkgCommands = {}, IdsOnly, StableReleases, OwnAliases
  PROVE  Spec => []AtRestRecordedIsRunnable
<1>1. LockFileOpens
  BY DEF LockFileOpens
<1>2. Init => StrangersInv /\ RunInv
  BY DEF Init, StrangersInv, RunInv, Runnable
<1>3. LinkedWorkInv /\ LinkedWorkInv' /\ StrangersInv /\ RunInv /\ [Next]_vars
      => StrangersInv' /\ RunInv'
  BY StepStrange, StepRunnable
<1>4. ASSUME LinkedWorkInv, RunInv PROVE AtRestRecordedIsRunnable
  <2>1. SUFFICES ASSUME NEW n \in Names, AtRest(n) PROVE Runnable(n)
    BY DEF AtRestRecordedIsRunnable, Runnable
  <2>2. \A q \in Procs : Working(q) => job[q].id # n
    BY <1>4, <2>1, SentinelsAssumption DEF LinkedWorkInv, WorkInv, HoldInv, Holding, Concerned, AtRest
  <2>3. QED
    BY <1>4, <2>2 DEF RunInv
<1>5. QED
  BY <1>1, <1>2, <1>3, <1>4, LinkedInvariant, PTL DEF Spec

-----------------------------------------------------------------------------
(* PackageStore implements CommandSlots.  The initial states map to initial *)
(* states; taking a lock maps to Begin, leaving to End, creating a link to  *)
(* Claim, removing one to Release, and every other step, downloads, records *)
(* and crashes included, changes neither who owns a name nor which packages *)
(* are being worked on.                                                     *)

\* The variables of CommandSlots, as SlotsPromise defines them.
Slot == [a \in Aliases |-> SlotOf(a)]
Busy == {n \in Names : holder[n] # NoProc}

\* A lock that is held is held for the name its holder was started with.
HolderInv ==
    \A n \in Names : holder[n] # NoProc =>
        /\ holder[n] \in Procs /\ arg[holder[n]] = n
        /\ pc[holder[n]] \notin {"idle", "lock"}

\* A link is winget-termux's, a live command's, or not there.
NoDangling == \A a \in Aliases : link[a] # Dangling

SlotsInv == WorkInv /\ ShapeInv /\ CheckedInv /\ HolderInv /\ NoDangling

\* What a step does to the locks: it starts a process, takes a lock, leaves,
\* or changes none.
LEMMA LockWrites ==
  ASSUME TypeInv, NEW q \in Procs, Act(q)
  PROVE  \/ Invoke(q) /\ UNCHANGED <<link, holder>>
         \/ AcquireLock(q) /\ UNCHANGED link
         \/ Leaves(q) /\ UNCHANGED link
         \/ UNCHANGED <<holder, arg>> /\ pc'[q] \notin {"idle", "lock"}
<1>a. pc \in [Procs -> Steps]
  BY DEF TypeInv, TypeOK
<1> USE <1>a DEF Goto
<1>1. CASE Invoke(q) \/ AcquireLock(q) \/ Exit(q) \/ Crash(q)
  BY <1>1 DEF Invoke, AcquireLock, Exit, Crash, files
<1>2. CASE CleanOrphanedInstall(q) \/ ResolveForInstall(q) \/ Fetch(q) \/ Transfer(q) \/ Verify(q)
  BY <1>2 DEF CleanOrphanedInstall, ResolveForInstall, Fetch, FetchPayload, FetchArchive,
     FetchFails, Transfer, Verify, VerifyPayload, VerifyArchive
<1>3. CASE ClearExtracted(q) \/ Unpack(q) \/ CheckLink(q) \/ RemoveLink(q) \/ CreateLink(q)
           \/ OpenMarker(q) \/ WriteMarker(q) \/ UrlFetch(q) \/ Place(q)
  BY <1>3 DEF ClearExtracted, Unpack, CheckLink, RemoveLink, CreateLink, OpenMarker,
     WriteMarker, UrlFetch, Place
<1>4. CASE Probe(q) \/ Unlink(q) \/ Delete(q) \/ Confirm(q) \/ RemoveMarker(q)
  BY <1>4 DEF Probe, Unlink, Delete, Confirm, RemoveMarker
<1>5. CASE CheckPin(q) \/ ResolveForUpgrade(q) \/ PinCheck(q) \/ PinWrite(q) \/ Unpin(q)
  BY <1>5 DEF CheckPin, ResolveForUpgrade, PinCheck, PinWrite, Unpin
<1>6. QED
  BY <1>1, <1>2, <1>3, <1>4, <1>5 DEF Act, Step

\* A lock is for the name its holder was started with until the holder leaves.
LEMMA StepHeldFor ==
  ASSUME LockFileOpens, TypeInv, HolderInv, NEW q \in Procs, Act(q)
  PROVE  HolderInv'
<1>a. holder \in [Names -> Procs \cup {NoProc}] /\ pc \in [Procs -> Steps]
  BY DEF TypeInv, TypeOK
<1>b. OthersStand(q)
  BY OnlyOneMoves
<1>1. SUFFICES ASSUME NEW n \in Names, holder'[n] # NoProc
               PROVE  /\ holder'[n] \in Procs /\ arg'[holder'[n]] = n
                      /\ pc'[holder'[n]] \notin {"idle", "lock"}
  BY DEF HolderInv
<1>2. CASE Invoke(q) /\ UNCHANGED holder
  <2>1. pc[q] = "idle" /\ holder[n] # q
    BY <1>1, <1>2 DEF Invoke, HolderInv
  <2>2. QED
    BY <1>1, <1>2, <1>b, <2>1 DEF HolderInv, OthersStand
<1>3. CASE AcquireLock(q)
  <2>1. /\ arg' = arg /\ pc'[q] \in {"start", "url_fetch"} /\ arg[q] \in Names
        /\ holder' = [holder EXCEPT ![arg[q]] = q]
    BY <1>a, <1>3 DEF AcquireLock, Goto, LockFileOpens, TypeInv, Prepared
  <2>2. CASE n = arg[q]
    BY <1>a, <2>1, <2>2
  <2>3. CASE n # arg[q]
    <3>1. holder'[n] = holder[n] /\ holder[n] # q
      BY <1>1, <1>a, <2>1, <2>3 DEF HolderInv
    <3>2. QED
      BY <1>1, <1>b, <3>1 DEF HolderInv, OthersStand
  <2>4. QED
    BY <2>2, <2>3
<1>4. CASE Leaves(q)
  <2>1. holder'[n] = holder[n] /\ holder[n] # q
    BY <1>1, <1>4 DEF Leaves
  <2>2. QED
    BY <1>1, <1>b, <2>1 DEF HolderInv, OthersStand
<1>5. CASE UNCHANGED <<holder, arg>> /\ pc'[q] \notin {"idle", "lock"}
  BY <1>1, <1>5, <1>b DEF HolderInv, OthersStand
<1>6. QED
  BY <1>2, <1>3, <1>4, <1>5, LockWrites

\* No step makes a dead symlink of its own accord, as no link is.
LEMMA StepNotDangling ==
  ASSUME TypeInv, NoDangling, NEW q \in Procs, Act(q)
  PROVE  NoDangling'
<1>1. SUFFICES ASSUME NEW a \in Aliases PROVE link'[a] # Dangling
  BY DEF NoDangling
<1>2. link'[a] # link[a] => LinkWritten(q, a)
  BY LinkWrites
<1>3. Working(q) => <<job[q].id, job[q].backend>> # Dangling
  BY JobTyped, SlotsAssumption DEF Working, ManagedLinks
<1>4. QED
  BY <1>2, <1>3, SlotsAssumption DEF LinkWritten, NoDangling

\* Every reachable state satisfies what the refinement rests on.
LEMMA SlotsInvariant ==
  ASSUME IdsOnly, LockFileOpens, StableReleases, PkgCommands = {}, Dangling \notin InitialSlots
  PROVE  Spec => []SlotsInv
<1>1. Init => CheckedInv /\ HolderInv /\ NoDangling
  BY DEF Init, CheckedInv, HolderInv, NoDangling
<1>2. WorkInv /\ CheckedInv /\ HolderInv /\ NoDangling /\ [Next]_vars
      => CheckedInv' /\ HolderInv' /\ NoDangling'
  <2>1. SUFFICES ASSUME WorkInv, CheckedInv, HolderInv, NoDangling, [Next]_vars
                 PROVE  CheckedInv' /\ HolderInv' /\ NoDangling'
    OBVIOUS
  <2>2. TypeInv
    BY <2>1 DEF WorkInv
  <2>3. CheckedInv'
    BY <2>1, <2>2, StepChecked
  <2>4. CASE \E q \in Procs : Act(q)
    BY <2>1, <2>2, <2>3, <2>4, StepHeldFor, StepNotDangling
  <2>5. CASE UNCHANGED vars
    BY <2>1, <2>3, <2>5 DEF vars, HolderInv, NoDangling
  <2>6. QED
    BY <2>1, <2>4, <2>5 DEF Next, Act
<1>3. QED
  BY <1>1, <1>2, ReleaseInvariant, PTL DEF Spec, SlotsInv

\* A step that changes one link, of a name that the package its process holds
\* wants, is a Claim or a Release.
LEMMA StepOfLink ==
  ASSUME PkgCommands = {}, SlotsInv, NEW q \in Procs, NEW a \in Aliases, LinkWritten(q, a),
         \A c \in Aliases : c # a => link'[c] = link[c], UNCHANGED holder, link'[a] # link[a]
  PROVE  \E p \in Names : Promise!Claim(a, p) \/ Promise!Release(a, p)
<1>a. /\ TypeInv /\ HoldInv /\ ShapeInv
      /\ Working(q) /\ a = job[q].alias /\ job[q].id \in Names /\ job[q].backend \in Backends
      /\ link \in [Aliases -> Slots] /\ link[a] # Dangling
  BY JobTyped DEF SlotsInv, WorkInv, LinkWritten, Working, TypeInv, TypeOK, NoDangling
<1> DEFINE p == job[q].id
<1>1. p \in Busy /\ Busy' = Busy
  BY <1>a, SentinelsAssumption DEF HoldInv, Holding, Concerned, Busy
<1>w. a \in AliasesOf(p)
  BY <1>a DEF ShapeInv, ShapedJob, Concerned, Has, AliasesOf
<1>2. \A c \in Aliases : c # a => SlotOf(c)' = SlotOf(c)
  BY DEF SlotOf, IsOurManagedSymlink
<1>3. CASE CreateLink(q) /\ link[a] = NoLink /\ link'[a] = <<p, job[q].backend>>
  <2>1. SlotOf(a) = NoLink
    BY <1>3, SlotsAssumption DEF SlotOf, IsOurManagedSymlink
  <2>2. SlotOf(a)' = p
    BY <1>3, <1>a DEF SlotOf, IsOurManagedSymlink, ManagedLinks
  <2>3. Slot' = [Slot EXCEPT ![a] = p]
    BY <1>2, <2>2 DEF Slot
  <2>4. Promise!Claim(a, p)
    BY <1>a, <1>1, <1>w, <2>1, <2>3 DEF Promise!Claim, Slot, Busy
  <2>5. QED
    BY <1>a, <2>4
<1>4. CASE (Unlink(q) \/ RemoveLink(q)) /\ link'[a] = NoLink
  <2>1. link[a] # Foreign
    <3>1. CASE Unlink(q)
      BY <1>a, <1>4, <3>1, SlotsAssumption DEF LinkWritten, Unlink, RemoveLink, CreateLink, IsOurManagedSymlink
    <3>2. CASE RemoveLink(q)
      BY <1>a, <3>2 DEF SlotsInv, CheckedInv, RemoveLink
    <3>3. QED
      BY <1>4, <3>1, <3>2
  <2>2. IsOurManagedSymlink(a)
    BY <1>a, <1>4, <2>1 DEF IsOurManagedSymlink, Slots
  <2>3. SlotOf(a) \in Names
    BY <2>2 DEF SlotOf, IsOurManagedSymlink, ManagedLinks
  <2>4. SlotOf(a)' = NoLink
    BY <1>4, SlotsAssumption DEF SlotOf, IsOurManagedSymlink
  <2>5. Slot' = [Slot EXCEPT ![a] = NoLink]
    BY <1>2, <2>4 DEF Slot
  <2>6. Promise!Release(a, p)
    BY <1>a, <1>1, <1>w, <2>3, <2>5 DEF Promise!Release, Slot, Busy
  <2>7. QED
    BY <1>a, <2>6
<1>5. QED
  BY <1>a, <1>3, <1>4 DEF LinkWritten

\* The name a link belongs to changes with the link alone.
LEMMA SameSlots == ASSUME UNCHANGED link PROVE Slot' = Slot
  BY DEF Slot, SlotOf, IsOurManagedSymlink

\* Every step is a step of CommandSlots, or none.
LEMMA StepPromised ==
  ASSUME LockFileOpens, PkgCommands = {}, SlotsInv, [Next]_vars
  PROVE  [Promise!Next]_(Promise!svars)
<1>a. /\ TypeInv /\ HolderInv /\ holder \in [Names -> Procs \cup {NoProc}]
      /\ NoProc \notin Procs
  BY SentinelsAssumption DEF SlotsInv, WorkInv, TypeInv, TypeOK
<1>0. ASSUME Slot' = Slot, Busy' = Busy PROVE UNCHANGED Promise!svars
  BY <1>0 DEF Promise!svars, Slot, Busy
<1>1. ASSUME NEW q \in Procs, Act(q) PROVE [Promise!Next]_(Promise!svars)
  <2>1. CASE Invoke(q) /\ UNCHANGED <<link, holder>>
    <3>1. Slot' = Slot
      BY <2>1, SameSlots
    <3>2. Busy' = Busy
      BY <2>1 DEF Busy
    <3>3. QED
      BY <1>0, <3>1, <3>2
  <2>2. CASE AcquireLock(q) /\ UNCHANGED link
    <3>1. PICK p \in Names : p = arg[q]
      BY <1>a, <2>2 DEF AcquireLock, TypeInv, Prepared
    <3>2. holder[p] = NoProc /\ holder' = [holder EXCEPT ![p] = q]
      BY <2>2, <3>1 DEF AcquireLock, LockFileOpens
    <3>3. p \notin Busy /\ Busy' = Busy \cup {p}
      BY <1>a, <3>2 DEF Busy
    <3>4. Promise!Begin(p)
      BY <2>2, <3>3, SameSlots DEF Promise!Begin, Slot, Busy
    <3>5. QED
      BY <3>4 DEF Promise!Next
  <2>3. CASE Leaves(q) /\ UNCHANGED link
    <3>1. \A n \in Names : holder'[n] = IF holder[n] = q THEN NoProc ELSE holder[n]
      BY <2>3 DEF Leaves
    <3>2. \A n \in Names : holder[n] = q => n = arg[q]
      BY <1>a DEF HolderInv
    <3>3. ASSUME NEW p \in Names, holder[p] = q PROVE Promise!Next
      <4>1. p \in Busy /\ Busy' = Busy \ {p}
        BY <1>a, <3>1, <3>2, <3>3 DEF Busy
      <4>2. Promise!End(p)
        BY <2>3, <4>1, SameSlots DEF Promise!End, Slot, Busy
      <4>3. QED
        BY <4>2 DEF Promise!Next
    <3>4. CASE ~\E n \in Names : holder[n] = q
      <4>1. Busy' = Busy
        BY <3>1, <3>4 DEF Busy
      <4>2. QED
        BY <1>0, <2>3, <4>1, SameSlots
    <3>5. QED
      BY <3>3, <3>4
  <2>4. CASE UNCHANGED holder
    <3>1. Busy' = Busy
      BY <2>4 DEF Busy
    <3>2. CASE \A a \in Aliases : link'[a] = link[a]
      <4>1. Slot' = Slot
        BY <3>2 DEF Slot, SlotOf, IsOurManagedSymlink
      <4>2. QED
        BY <1>0, <3>1, <4>1
    <3>3. ASSUME NEW a \in Aliases, link'[a] # link[a] PROVE [Promise!Next]_(Promise!svars)
      <4>1. \A c \in Aliases : link'[c] # link[c] => LinkWritten(q, c)
        BY <1>1, <1>a, LinkWrites
      <4>2. \A c \in Aliases : c # a => link'[c] = link[c]
        BY <3>3, <4>1 DEF LinkWritten
      <4>3. \E p \in Names : Promise!Claim(a, p) \/ Promise!Release(a, p)
        BY <2>4, <3>3, <4>1, <4>2, StepOfLink
      <4>4. QED
        BY <4>3 DEF Promise!Next
    <3>4. QED
      BY <3>2, <3>3
  <2>5. QED
    BY <1>1, <1>a, <2>1, <2>2, <2>3, <2>4, LockWrites
<1>2. CASE UNCHANGED vars
  <2>1. Slot' = Slot /\ Busy' = Busy
    BY <1>2, SameSlots DEF vars, Busy
  <2>2. QED
    BY <1>0, <2>1
<1>3. QED
  BY <1>1, <1>2 DEF Next, Act

\* The commands implement CommandSlots: whatever they interleave with and
\* wherever they fail or are killed, and also when several packages want one name,
\* they leave strangers' names alone, and a name changes hands only under the lock
\* of a package that wants it.
THEOREM SlotsImplemented ==
  ASSUME IdsOnly, LockFileOpens, StableReleases, PkgCommands = {}, Dangling \notin InitialSlots
  PROVE  Spec => SlotsPromise
<1>1. Init => Promise!Init
  <2>1. SUFFICES ASSUME Init PROVE Promise!Init
    OBVIOUS
  <2>2. ASSUME NEW a \in Aliases PROVE SlotOf(a) \in {NoLink, Foreign}
    <3>1. link[a] \in {NoLink, Foreign}
      BY <2>1, SlotsAssumption DEF Init
    <3>2. QED
      BY <3>1, SlotsAssumption DEF SlotOf, IsOurManagedSymlink
  <2>3. {n \in Names : holder[n] # NoProc} = {}
    BY <2>1 DEF Init
  <2>4. QED
    BY <2>2, <2>3 DEF Promise!Init
<1>2. SlotsInv /\ [Next]_vars => [Promise!Next]_(Promise!svars)
  BY StepPromised
<1>3. QED
  BY <1>1, <1>2, SlotsInvariant, PTL DEF Spec, SlotsPromise, Promise!Spec
=============================================================================
