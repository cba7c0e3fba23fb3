------------------------ MODULE PackageStore_proofs ------------------------
(***************************************************************************)
(* Proofs about PackageStore, for any number of processes, names, aliases, *)
(* versions and catalogs: the lock, what commands leave alone, and who may *)
(* change what.                                                            *)
(***************************************************************************)
EXTENDS PackageStore, TLAPS

\* What the steps assume of the process that takes them.
Prepared ==
    \A q \in Procs :
        /\ pc[q] # "idle" => arg[q] \in Names
        /\ pc[q] = "lock" /\ cmd[q] = "install_url" => job[q] \in Manifests
        /\ pc[q] \in InstallSteps => job[q] \in Manifests
        /\ pc[q] \in UninstallSteps => /\ job[q] \in Jobs
                                       /\ cmd[q] # "uninstall" => job[q] \in Manifests

TypeInv == TypeOK /\ Prepared

LEMMA InitTyped == Init => TypeInv
  BY SlotsAssumption DEF Init, TypeInv, TypeOK, Prepared, Contents, Slots, Steps,
     Commands, Results, InstallSteps, UninstallSteps

LEMMA ManifestsAreJobs == Manifests \subseteq Jobs
  BY DEF Manifests, Jobs

\* Every step keeps every variable in its range, and hands the next step of
\* the process what that step assumes.
LEMMA StepTyped == TypeInv /\ [Next]_vars => TypeInv'
<1> SUFFICES ASSUME TypeInv, [Next]_vars PROVE TypeInv'
  OBVIOUS
<1> USE ManifestsAreJobs DEF TypeInv, TypeOK, Prepared, files, Goto, Results, Steps,
        InstallSteps, UninstallSteps
<1>1. ASSUME NEW q \in Procs, Invoke(q) PROVE TypeInv'
  BY <1>1, UrlInstallsAssumption DEF Invoke, Commands, Manifests
<1>2. ASSUME NEW q \in Procs, AcquireLock(q) PROVE TypeInv'
  BY <1>2 DEF AcquireLock
<1>3. ASSUME NEW q \in Procs, Exit(q) PROVE TypeInv'
  BY <1>3 DEF Exit, Leaves
<1>4. ASSUME NEW q \in Procs, Crash(q) PROVE TypeInv'
  <2>1. dir' \in [Names \X Backends -> Contents]
    <3>1. CASE UNCHANGED dir
      BY <3>1
    <3>2. CASE pc[q] = "unpack"
      <4>1. job[q].id \in Names /\ archive[job[q].id] \in Versions \cup {Absent, Partial}
        BY <3>2 DEF Manifests
      <4>2. QED
        BY <1>4, <4>1 DEF Crash, Contents
    <3>3. QED
      BY <1>4, <3>1, <3>2 DEF Crash
  <2>2. QED
    BY <1>4, <2>1 DEF Crash, Leaves
<1>5. ASSUME NEW q \in Procs, CleanOrphanedInstall(q) PROVE TypeInv'
  BY <1>5 DEF CleanOrphanedInstall, Contents
<1>6. ASSUME NEW q \in Procs, ResolveForInstall(q) PROVE TypeInv'
  BY <1>6, OffersAssumption DEF ResolveForInstall
<1>7. ASSUME NEW q \in Procs, Fetch(q) PROVE TypeInv'
  <2>1. /\ job[q] \in Manifests /\ job[q].id \in Names
        /\ <<job[q].id, job[q].backend>> \in Names \X Backends
    BY <1>7 DEF Fetch, FetchPayload, FetchArchive, FetchFails, Manifests
  <2>2. dir' \in [Names \X Backends -> Contents]
    <3>1. dir[<<job[q].id, job[q].backend>>] \in Contents
      BY <2>1
    <3>2. CASE FetchPayload(q)
      BY <2>1, <3>2 DEF FetchPayload, Contents
    <3>3. CASE FetchArchive(q)
      BY <2>1, <3>1, <3>3 DEF FetchArchive, Contents
    <3>4. CASE FetchFails(q)
      BY <2>1, <3>4 DEF FetchFails, Contents
    <3>5. QED
      BY <1>7, <3>2, <3>3, <3>4 DEF Fetch
  <2>3. archive' \in [Names -> Versions \cup {Absent, Partial}]
    BY <1>7, <2>1 DEF Fetch, FetchPayload, FetchArchive, FetchFails
  <2>4. QED
    BY <1>7, <2>1, <2>2, <2>3 DEF Fetch, FetchPayload, FetchArchive, FetchFails
<1>8. ASSUME NEW q \in Procs, Transfer(q) PROVE TypeInv'
  BY <1>8 DEF Transfer, Contents, Manifests
<1>9. ASSUME NEW q \in Procs, Verify(q) PROVE TypeInv'
  <2>1. job[q] \in Manifests /\ job[q].id \in Names
    BY <1>9 DEF Verify, Manifests
  <2>2. CASE VerifyPayload(q)
    BY <1>9, <2>1, <2>2 DEF Verify, VerifyPayload, Contents
  <2>3. CASE VerifyArchive(q)
    BY <1>9, <2>1, <2>3 DEF Verify, VerifyArchive
  <2>4. QED
    BY <1>9, <2>2, <2>3 DEF Verify
<1>10. ASSUME NEW q \in Procs, ClearExtracted(q) PROVE TypeInv'
  BY <1>10 DEF ClearExtracted, Contents, Manifests
<1>11. ASSUME NEW q \in Procs, Unpack(q) PROVE TypeInv'
  <2>1. job[q] \in Manifests /\ job[q].id \in Names
    BY <1>11 DEF Unpack, Manifests
  <2>2. dir' \in [Names \X Backends -> Contents]
    <3>1. archive[job[q].id] # Absent => archive[job[q].id] \in Contents
      BY <2>1 DEF Contents
    <3>2. Empty \in Contents /\ Incomplete \in Contents
      BY DEF Contents
    <3>3. \E content \in Contents : dir' = [dir EXCEPT ![<<job[q].id, "zip">>] = content]
      BY <1>11, <3>1, <3>2 DEF Unpack
    <3>4. QED
      BY <3>3
  <2>3. QED
    BY <1>11, <2>1, <2>2 DEF Unpack
<1>12. ASSUME NEW q \in Procs, CheckLink(q) PROVE TypeInv'
  BY <1>12 DEF CheckLink, Without, Contents, Manifests
<1>13. ASSUME NEW q \in Procs, RemoveLink(q) PROVE TypeInv'
  BY <1>13 DEF RemoveLink, Slots, Manifests
<1>14. ASSUME NEW q \in Procs, CreateLink(q) PROVE TypeInv'
  <2>1. <<job[q].id, job[q].backend>> \in Slots
    BY <1>14 DEF CreateLink, Slots, ManagedLinks, Manifests
  <2>2. QED
    BY <1>14, <2>1 DEF CreateLink
<1>15. ASSUME NEW q \in Procs, OpenMarker(q) PROVE TypeInv'
  BY <1>15 DEF OpenMarker
<1>16. ASSUME NEW q \in Procs, WriteMarker(q) PROVE TypeInv'
  BY <1>16 DEF WriteMarker, Records, Manifests
<1>17. ASSUME NEW q \in Procs, UrlFetch(q) PROVE TypeInv'
  BY <1>17 DEF UrlFetch
<1>18. ASSUME NEW q \in Procs, Place(q) PROVE TypeInv'
  <2>1. job[q] \in Manifests /\ job[q].id \in Names /\ "portable" \in Backends
    BY <1>18 DEF Place, Manifests, Backends
  <2>2. job[q].version \in Contents /\ Partial \in Contents /\ Empty \in Contents
    BY <2>1 DEF Contents, Manifests
  <2>3. dir' \in [Names \X Backends -> Contents]
    <3>1. \/ dir' = dir
          \/ \E content \in Contents : dir' = [dir EXCEPT ![<<job[q].id, "portable">>] = content]
      <4>1. dir[<<job[q].id, "portable">>] \in Contents
        BY <2>1
      <4>2. QED
        BY <1>18, <2>2, <4>1 DEF Place
    <3>2. QED
      BY <2>1, <3>1
  <2>4. QED
    BY <1>18, <2>1, <2>3 DEF Place
<1>19. ASSUME NEW q \in Procs, Probe(q) PROVE TypeInv'
  <2>1. /\ pc[q] = "start" /\ cmd[q] = "uninstall" /\ arg[q] \in Names
        /\ UNCHANGED <<files, holder, cmd, arg>>
    BY <1>19 DEF Probe
  <2>2. CASE /\ job' = job
             /\ pc' \in {[pc EXCEPT ![q] = step] : step \in Results}
    BY <2>1, <2>2
  <2>3. CASE \E a \in Aliases, b \in Backends :
               /\ job' = [job EXCEPT ![q] = [id |-> arg[q], version |-> NoVersion,
                                             alias |-> a, backend |-> b]]
               /\ pc' = [pc EXCEPT ![q] = "unlink"]
    BY <2>1, <2>3 DEF Jobs
  <2>4. QED
    BY <1>19, <2>1, <2>2, <2>3 DEF Probe, Records, FallbackAliases, Backends
<1>20. ASSUME NEW q \in Procs, Unlink(q) PROVE TypeInv'
  BY <1>20 DEF Unlink, Slots
<1>21. ASSUME NEW q \in Procs, Delete(q) PROVE TypeInv'
  BY <1>21 DEF Delete, Without, Contents, Jobs
<1>22. ASSUME NEW q \in Procs, Confirm(q) PROVE TypeInv'
  BY <1>22 DEF Confirm
<1>23. ASSUME NEW q \in Procs, RemoveMarker(q) PROVE TypeInv'
  BY <1>23 DEF RemoveMarker
<1>24. ASSUME NEW q \in Procs, CheckPin(q) PROVE TypeInv'
  BY <1>24 DEF CheckPin
<1>25. ASSUME NEW q \in Procs, ResolveForUpgrade(q) PROVE TypeInv'
  BY <1>25, OffersAssumption DEF ResolveForUpgrade
<1>26. ASSUME NEW q \in Procs, PinCheck(q) PROVE TypeInv'
  BY <1>26 DEF PinCheck
<1>27. ASSUME NEW q \in Procs, PinWrite(q) PROVE TypeInv'
  BY <1>27 DEF PinWrite
<1>28. ASSUME NEW q \in Procs, Unpin(q) PROVE TypeInv'
  BY <1>28 DEF Unpin
<1>29. ASSUME NEW a \in PkgCommands, PkgChanges(a) PROVE TypeInv'
  BY <1>29, EnvironmentAssumption DEF PkgChanges, Slots
<1>30. CASE UNCHANGED vars
  BY <1>30 DEF vars
<1>31. QED
  BY <1>1, <1>2, <1>3, <1>4, <1>5, <1>6, <1>7, <1>8, <1>9, <1>10, <1>11, <1>12, <1>13,
     <1>14, <1>15, <1>16, <1>17, <1>18, <1>19, <1>20, <1>21, <1>22, <1>23, <1>24, <1>25,
     <1>26, <1>27, <1>28, <1>29, <1>30 DEF Next, Step

\* Type correctness: the files and the processes stay in their ranges.
THEOREM TypeCorrect == Spec => []TypeOK
<1>1. Init => TypeInv
  BY InitTyped
<1>2. TypeInv /\ [Next]_vars => TypeInv'
  BY StepTyped
<1>3. TypeInv => TypeOK
  BY DEF TypeInv
<1>4. QED
  BY <1>1, <1>2, <1>3, PTL DEF Spec

-----------------------------------------------------------------------------
(* The lock of the typed id protects the package. *)

\* PackageLock always gets its file open.
LockFileOpens == "lock" \notin Faults

\* The steps a command takes between flock and its result.
LockedSteps == {"start", "resolve"} \cup InstallSteps \cup UninstallSteps

\* A process past its lock holds it, and the package it works on is the one
\* it locked.
LockInv ==
    \A q \in Procs :
        /\ pc[q] \in LockedSteps => holder[arg[q]] = q
        /\ pc[q] \in InstallSteps \cup UninstallSteps => job[q].id = arg[q]
        /\ pc[q] = "lock" /\ cmd[q] = "install_url" => job[q].id = arg[q]

LEMMA InitLocked == Init => LockInv
  BY DEF Init, LockInv, LockedSteps, InstallSteps, UninstallSteps

LEMMA StepLocked ==
  ASSUME IdsOnly, LockFileOpens, TypeInv, LockInv, [Next]_vars
  PROVE  LockInv'
<1> USE DEF LockInv, LockedSteps, TypeInv, TypeOK, Prepared, files, Goto, Results, Steps,
        InstallSteps, UninstallSteps
<1>1. ASSUME NEW q \in Procs, Invoke(q) PROVE LockInv'
  BY <1>1 DEF Invoke
<1>2. ASSUME NEW q \in Procs, AcquireLock(q) PROVE LockInv'
  BY <1>2, SentinelsAssumption DEF AcquireLock, LockFileOpens
<1>3. ASSUME NEW q \in Procs, Exit(q) PROVE LockInv'
  BY <1>3, SentinelsAssumption DEF Exit, Leaves
<1>4. ASSUME NEW q \in Procs, Crash(q) PROVE LockInv'
  BY <1>4, SentinelsAssumption DEF Crash, Leaves
<1>5. ASSUME NEW q \in Procs, CleanOrphanedInstall(q) PROVE LockInv'
  BY <1>5 DEF CleanOrphanedInstall
<1>6. ASSUME NEW q \in Procs, ResolveForInstall(q) PROVE LockInv'
  BY <1>6 DEF ResolveForInstall, IdsOnly
<1>7. ASSUME NEW q \in Procs, Fetch(q) PROVE LockInv'
  BY <1>7 DEF Fetch, FetchPayload, FetchArchive, FetchFails
<1>8. ASSUME NEW q \in Procs, Transfer(q) PROVE LockInv'
  BY <1>8 DEF Transfer
<1>9. ASSUME NEW q \in Procs, Verify(q) PROVE LockInv'
  BY <1>9 DEF Verify, VerifyPayload, VerifyArchive
<1>10. ASSUME NEW q \in Procs, ClearExtracted(q) PROVE LockInv'
  BY <1>10 DEF ClearExtracted
<1>11. ASSUME NEW q \in Procs, Unpack(q) PROVE LockInv'
  BY <1>11 DEF Unpack
<1>12. ASSUME NEW q \in Procs, CheckLink(q) PROVE LockInv'
  BY <1>12 DEF CheckLink
<1>13. ASSUME NEW q \in Procs, RemoveLink(q) PROVE LockInv'
  BY <1>13 DEF RemoveLink
<1>14. ASSUME NEW q \in Procs, CreateLink(q) PROVE LockInv'
  BY <1>14 DEF CreateLink
<1>15. ASSUME NEW q \in Procs, OpenMarker(q) PROVE LockInv'
  BY <1>15 DEF OpenMarker
<1>16. ASSUME NEW q \in Procs, WriteMarker(q) PROVE LockInv'
  BY <1>16 DEF WriteMarker
<1>17. ASSUME NEW q \in Procs, UrlFetch(q) PROVE LockInv'
  BY <1>17 DEF UrlFetch
<1>18. ASSUME NEW q \in Procs, Place(q) PROVE LockInv'
  BY <1>18 DEF Place
<1>19. ASSUME NEW q \in Procs, Probe(q) PROVE LockInv'
  BY <1>19 DEF Probe
<1>20. ASSUME NEW q \in Procs, Unlink(q) PROVE LockInv'
  BY <1>20 DEF Unlink
<1>21. ASSUME NEW q \in Procs, Delete(q) PROVE LockInv'
  BY <1>21 DEF Delete
<1>22. ASSUME NEW q \in Procs, Confirm(q) PROVE LockInv'
  BY <1>22 DEF Confirm
<1>23. ASSUME NEW q \in Procs, RemoveMarker(q) PROVE LockInv'
  BY <1>23 DEF RemoveMarker
<1>24. ASSUME NEW q \in Procs, CheckPin(q) PROVE LockInv'
  BY <1>24 DEF CheckPin
<1>25. ASSUME NEW q \in Procs, ResolveForUpgrade(q) PROVE LockInv'
  BY <1>25 DEF ResolveForUpgrade, IdsOnly
<1>26. ASSUME NEW q \in Procs, PinCheck(q) PROVE LockInv'
  BY <1>26 DEF PinCheck
<1>27. ASSUME NEW q \in Procs, PinWrite(q) PROVE LockInv'
  BY <1>27 DEF PinWrite
<1>28. ASSUME NEW q \in Procs, Unpin(q) PROVE LockInv'
  BY <1>28 DEF Unpin
<1>29. ASSUME NEW a \in PkgCommands, PkgChanges(a) PROVE LockInv'
  BY <1>29 DEF PkgChanges
<1>30. CASE UNCHANGED vars
  BY <1>30 DEF vars
<1>31. QED
  BY <1>1, <1>2, <1>3, <1>4, <1>5, <1>6, <1>7, <1>8, <1>9, <1>10, <1>11, <1>12, <1>13, <1>14, <1>15, <1>16, <1>17, <1>18, <1>19, <1>20, <1>21, <1>22, <1>23, <1>24, <1>25, <1>26, <1>27, <1>28, <1>29, <1>30 DEF Next, Step

LEMMA LockedInvariant == ASSUME IdsOnly, LockFileOpens PROVE Spec => [](TypeInv /\ LockInv)
<1>1. Init => TypeInv /\ LockInv
  BY InitTyped, InitLocked
<1>2. TypeInv /\ LockInv /\ [Next]_vars => (TypeInv /\ LockInv)'
  BY StepTyped, StepLocked
<1>3. QED
  BY <1>1, <1>2, PTL DEF Spec

\* When users type package ids and lock files can be opened, no two processes ever
\* work on one package.
THEOREM MutualExclusion == ASSUME IdsOnly, LockFileOpens PROVE Spec => []OneWorkerPerPackage
<1>1. TypeInv /\ LockInv => OneWorkerPerPackage
  BY DEF TypeInv, TypeOK, LockInv, LockedSteps, OneWorkerPerPackage, Working
<1>2. QED
  BY <1>1, LockedInvariant, PTL

-----------------------------------------------------------------------------
(* Only the holder of a package's lock writes its files and its record. *)

\* What one step may do to the files of all packages.
HolderWrites ==
    \A n \in Names :
        \/ marker'[n] # marker[n]
        \/ archive'[n] # archive[n]
        \/ \E b \in Backends : dir'[<<n, b>>] # dir[<<n, b>>]
        => holder[n] # NoProc /\ pc'[holder[n]] # pc[holder[n]]

\* A step that leaves the files of every package but n alone.
TouchesOnly(n) ==
    \A k \in Names \ {n} :
        /\ marker'[k] = marker[k]
        /\ archive'[k] = archive[k]
        /\ \A b \in Backends : dir'[<<k, b>>] = dir[<<k, b>>]

LEMMA OwnWrite ==
  ASSUME NEW q \in Procs, NEW n \in Names, holder[n] = q, pc'[q] # pc[q], TouchesOnly(n)
  PROVE  HolderWrites
  BY SentinelsAssumption DEF TouchesOnly, HolderWrites

LEMMA UntouchedFiles == UNCHANGED <<dir, archive, marker>> => HolderWrites
  BY DEF HolderWrites

\* What a process works on is a package whose lock it holds.
LEMMA OwnsItsJob ==
  ASSUME TypeInv, LockInv, NEW q \in Procs, pc[q] \in InstallSteps \cup UninstallSteps
  PROVE  /\ job[q].id \in Names /\ job[q].alias \in Aliases /\ job[q].backend \in Backends
         /\ holder[job[q].id] = q
  BY DEF TypeInv, TypeOK, Prepared, LockInv, LockedSteps, Jobs, Manifests

\* A directory of another package is another directory.
LEMMA OtherDirectory ==
  ASSUME NEW n \in Names, NEW k \in Names \ {n}, NEW b \in Backends, NEW c \in Backends
  PROVE  <<k, b>> \in Names \X Backends /\ <<k, b>> # <<n, c>>
  OBVIOUS

LEMMA StepWrites ==
  ASSUME TypeInv, LockInv, [Next]_vars
  PROVE  HolderWrites
<1> USE DEF TypeInv, TypeOK, files, Goto
<1>1. ASSUME NEW q \in Procs, CleanOrphanedInstall(q) PROVE HolderWrites
  <2>1. holder[arg[q]] = q /\ arg[q] \in Names
    BY <1>1, SentinelsAssumption DEF CleanOrphanedInstall, LockInv, LockedSteps, Prepared
  <2>2. pc'[q] # pc[q]
    BY <1>1 DEF CleanOrphanedInstall
  <2>3. TouchesOnly(arg[q])
    <3>1. SUFFICES ASSUME NEW k \in Names \ {arg[q]}
                   PROVE  /\ marker'[k] = marker[k] /\ archive'[k] = archive[k]
                          /\ \A b \in Backends : dir'[<<k, b>>] = dir[<<k, b>>]
      BY DEF TouchesOnly
    <3>2. marker'[k] = marker[k] /\ archive'[k] = archive[k]
      BY <1>1, <2>1 DEF CleanOrphanedInstall
    <3>3. ASSUME NEW b \in Backends PROVE dir'[<<k, b>>] = dir[<<k, b>>]
      <4>1. /\ <<k, b>> \in Names \X Backends
            /\ \A c \in Backends : <<k, b>> # <<arg[q], c>>
        BY <2>1, OtherDirectory
      <4>2. QED
        BY <1>1, <2>1, <4>1 DEF CleanOrphanedInstall
    <3>4. QED
      BY <3>2, <3>3
  <2>4. QED
    BY <2>1, <2>2, <2>3, OwnWrite
<1>2. ASSUME NEW q \in Procs, Fetch(q) PROVE HolderWrites
  <2>1. /\ job[q].id \in Names /\ job[q].backend \in Backends
        /\ holder[job[q].id] = q
    BY <1>2, OwnsItsJob DEF Fetch, FetchPayload, FetchArchive, FetchFails, InstallSteps, UninstallSteps
  <2>2. pc'[q] # pc[q]
    BY <1>2 DEF Fetch, FetchPayload, FetchArchive, FetchFails
  <2>3. TouchesOnly(job[q].id)
    <3>1. SUFFICES ASSUME NEW k \in Names \ {job[q].id}
                   PROVE  /\ marker'[k] = marker[k] /\ archive'[k] = archive[k]
                          /\ \A b \in Backends : dir'[<<k, b>>] = dir[<<k, b>>]
      BY DEF TouchesOnly
    <3>2. marker'[k] = marker[k] /\ archive'[k] = archive[k]
      BY <1>2, <2>1 DEF Fetch, FetchPayload, FetchArchive, FetchFails
    <3>3. ASSUME NEW b \in Backends PROVE dir'[<<k, b>>] = dir[<<k, b>>]
      <4>1. /\ <<k, b>> \in Names \X Backends
            /\ \A c \in Backends : <<k, b>> # <<job[q].id, c>>
        BY <2>1, OtherDirectory
      <4>2. QED
        BY <1>2, <2>1, <4>1 DEF Fetch, FetchPayload, FetchArchive, FetchFails, Backends
    <3>4. QED
      BY <3>2, <3>3
  <2>4. QED
    BY <2>1, <2>2, <2>3, OwnWrite
<1>3. ASSUME NEW q \in Procs, Transfer(q) PROVE HolderWrites
  <2>1. /\ job[q].id \in Names /\ job[q].backend \in Backends
        /\ holder[job[q].id] = q
    BY <1>3, OwnsItsJob DEF Transfer, InstallSteps, UninstallSteps
  <2>2. pc'[q] # pc[q]
    BY <1>3 DEF Transfer
  <2>3. TouchesOnly(job[q].id)
    <3>1. SUFFICES ASSUME NEW k \in Names \ {job[q].id}
                   PROVE  /\ marker'[k] = marker[k] /\ archive'[k] = archive[k]
                          /\ \A b \in Backends : dir'[<<k, b>>] = dir[<<k, b>>]
      BY DEF TouchesOnly
    <3>2. marker'[k] = marker[k] /\ archive'[k] = archive[k]
      BY <1>3, <2>1 DEF Transfer
    <3>3. ASSUME NEW b \in Backends PROVE dir'[<<k, b>>] = dir[<<k, b>>]
      <4>1. /\ <<k, b>> \in Names \X Backends
            /\ \A c \in Backends : <<k, b>> # <<job[q].id, c>>
        BY <2>1, OtherDirectory
      <4>2. QED
        BY <1>3, <2>1, <4>1 DEF Transfer, Backends
    <3>4. QED
      BY <3>2, <3>3
  <2>4. QED
    BY <2>1, <2>2, <2>3, OwnWrite
<1>4. ASSUME NEW q \in Procs, Verify(q) PROVE HolderWrites
  <2>1. /\ job[q].id \in Names /\ job[q].backend \in Backends
        /\ holder[job[q].id] = q
    BY <1>4, OwnsItsJob DEF Verify, VerifyPayload, VerifyArchive, InstallSteps, UninstallSteps
  <2>2. pc'[q] # pc[q]
    BY <1>4 DEF Verify, VerifyPayload, VerifyArchive
  <2>3. TouchesOnly(job[q].id)
    <3>1. SUFFICES ASSUME NEW k \in Names \ {job[q].id}
                   PROVE  /\ marker'[k] = marker[k] /\ archive'[k] = archive[k]
                          /\ \A b \in Backends : dir'[<<k, b>>] = dir[<<k, b>>]
      BY DEF TouchesOnly
    <3>2. marker'[k] = marker[k] /\ archive'[k] = archive[k]
      BY <1>4, <2>1 DEF Verify, VerifyPayload, VerifyArchive
    <3>3. ASSUME NEW b \in Backends PROVE dir'[<<k, b>>] = dir[<<k, b>>]
      <4>1. /\ <<k, b>> \in Names \X Backends
            /\ \A c \in Backends : <<k, b>> # <<job[q].id, c>>
        BY <2>1, OtherDirectory
      <4>2. QED
        BY <1>4, <2>1, <4>1 DEF Verify, VerifyPayload, VerifyArchive, Backends
    <3>4. QED
      BY <3>2, <3>3
  <2>4. QED
    BY <2>1, <2>2, <2>3, OwnWrite
<1>5. ASSUME NEW q \in Procs, ClearExtracted(q) PROVE HolderWrites
  <2>1. /\ job[q].id \in Names /\ job[q].backend \in Backends
        /\ holder[job[q].id] = q
    BY <1>5, OwnsItsJob DEF ClearExtracted, InstallSteps, UninstallSteps
  <2>2. pc'[q] # pc[q]
    BY <1>5 DEF ClearExtracted
  <2>3. TouchesOnly(job[q].id)
    <3>1. SUFFICES ASSUME NEW k \in Names \ {job[q].id}
                   PROVE  /\ marker'[k] = marker[k] /\ archive'[k] = archive[k]
                          /\ \A b \in Backends : dir'[<<k, b>>] = dir[<<k, b>>]
      BY DEF TouchesOnly
    <3>2. marker'[k] = marker[k] /\ archive'[k] = archive[k]
      BY <1>5, <2>1 DEF ClearExtracted
    <3>3. ASSUME NEW b \in Backends PROVE dir'[<<k, b>>] = dir[<<k, b>>]
      <4>1. /\ <<k, b>> \in Names \X Backends
            /\ \A c \in Backends : <<k, b>> # <<job[q].id, c>>
        BY <2>1, OtherDirectory
      <4>2. QED
        BY <1>5, <2>1, <4>1 DEF ClearExtracted, Backends
    <3>4. QED
      BY <3>2, <3>3
  <2>4. QED
    BY <2>1, <2>2, <2>3, OwnWrite
<1>6. ASSUME NEW q \in Procs, Unpack(q) PROVE HolderWrites
  <2>1. /\ job[q].id \in Names /\ job[q].backend \in Backends
        /\ holder[job[q].id] = q
    BY <1>6, OwnsItsJob DEF Unpack, InstallSteps, UninstallSteps
  <2>2. pc'[q] # pc[q]
    BY <1>6 DEF Unpack
  <2>3. TouchesOnly(job[q].id)
    <3>1. SUFFICES ASSUME NEW k \in Names \ {job[q].id}
                   PROVE  /\ marker'[k] = marker[k] /\ archive'[k] = archive[k]
                          /\ \A b \in Backends : dir'[<<k, b>>] = dir[<<k, b>>]
      BY DEF TouchesOnly
    <3>2. marker'[k] = marker[k] /\ archive'[k] = archive[k]
      BY <1>6, <2>1 DEF Unpack
    <3>3. ASSUME NEW b \in Backends PROVE dir'[<<k, b>>] = dir[<<k, b>>]
      <4>1. /\ <<k, b>> \in Names \X Backends
            /\ \A c \in Backends : <<k, b>> # <<job[q].id, c>>
        BY <2>1, OtherDirectory
      <4>2. QED
        BY <1>6, <2>1, <4>1 DEF Unpack, Backends
    <3>4. QED
      BY <3>2, <3>3
  <2>4. QED
    BY <2>1, <2>2, <2>3, OwnWrite
<1>7. ASSUME NEW q \in Procs, CheckLink(q) PROVE HolderWrites
  <2>1. /\ job[q].id \in Names /\ job[q].backend \in Backends
        /\ holder[job[q].id] = q
    BY <1>7, OwnsItsJob DEF CheckLink, Without, InstallSteps, UninstallSteps
  <2>2. pc'[q] # pc[q]
    BY <1>7 DEF CheckLink, Without
  <2>3. TouchesOnly(job[q].id)
    <3>1. SUFFICES ASSUME NEW k \in Names \ {job[q].id}
                   PROVE  /\ marker'[k] = marker[k] /\ archive'[k] = archive[k]
                          /\ \A b \in Backends : dir'[<<k, b>>] = dir[<<k, b>>]
      BY DEF TouchesOnly
    <3>2. marker'[k] = marker[k] /\ archive'[k] = archive[k]
      BY <1>7, <2>1 DEF CheckLink, Without
    <3>3. ASSUME NEW b \in Backends PROVE dir'[<<k, b>>] = dir[<<k, b>>]
      <4>1. /\ <<k, b>> \in Names \X Backends
            /\ \A c \in Backends : <<k, b>> # <<job[q].id, c>>
        BY <2>1, OtherDirectory
      <4>2. QED
        BY <1>7, <2>1, <4>1 DEF CheckLink, Without, Backends
    <3>4. QED
      BY <3>2, <3>3
  <2>4. QED
    BY <2>1, <2>2, <2>3, OwnWrite
<1>8. ASSUME NEW q \in Procs, OpenMarker(q) PROVE HolderWrites
  <2>1. /\ job[q].id \in Names /\ job[q].backend \in Backends
        /\ holder[job[q].id] = q
    BY <1>8, OwnsItsJob DEF OpenMarker, InstallSteps, UninstallSteps
  <2>2. pc'[q] # pc[q]
    BY <1>8 DEF OpenMarker
  <2>3. TouchesOnly(job[q].id)
    BY <1>8, <2>1 DEF OpenMarker, TouchesOnly
  <2>4. QED
    BY <2>1, <2>2, <2>3, OwnWrite
<1>9. ASSUME NEW q \in Procs, WriteMarker(q) PROVE HolderWrites
  <2>1. /\ job[q].id \in Names /\ job[q].backend \in Backends
        /\ holder[job[q].id] = q
    BY <1>9, OwnsItsJob DEF WriteMarker, InstallSteps, UninstallSteps
  <2>2. pc'[q] # pc[q]
    BY <1>9 DEF WriteMarker
  <2>3. TouchesOnly(job[q].id)
    BY <1>9, <2>1 DEF WriteMarker, TouchesOnly
  <2>4. QED
    BY <2>1, <2>2, <2>3, OwnWrite
<1>10. ASSUME NEW q \in Procs, Place(q) PROVE HolderWrites
  <2>1. /\ job[q].id \in Names /\ job[q].backend \in Backends
        /\ holder[job[q].id] = q
    BY <1>10, OwnsItsJob DEF Place, InstallSteps, UninstallSteps
  <2>2. pc'[q] # pc[q]
    BY <1>10 DEF Place
  <2>3. TouchesOnly(job[q].id)
    <3>1. SUFFICES ASSUME NEW k \in Names \ {job[q].id}
                   PROVE  /\ marker'[k] = marker[k] /\ archive'[k] = archive[k]
                          /\ \A b \in Backends : dir'[<<k, b>>] = dir[<<k, b>>]
      BY DEF TouchesOnly
    <3>2. marker'[k] = marker[k] /\ archive'[k] = archive[k]
      BY <1>10, <2>1 DEF Place
    <3>3. ASSUME NEW b \in Backends PROVE dir'[<<k, b>>] = dir[<<k, b>>]
      <4>1. /\ <<k, b>> \in Names \X Backends
            /\ \A c \in Backends : <<k, b>> # <<job[q].id, c>>
        BY <2>1, OtherDirectory
      <4>2. QED
        BY <1>10, <2>1, <4>1 DEF Place, Backends
    <3>4. QED
      BY <3>2, <3>3
  <2>4. QED
    BY <2>1, <2>2, <2>3, OwnWrite
<1>11. ASSUME NEW q \in Procs, Delete(q) PROVE HolderWrites
  <2>1. /\ job[q].id \in Names /\ job[q].backend \in Backends
        /\ holder[job[q].id] = q
    BY <1>11, OwnsItsJob DEF Delete, Without, InstallSteps, UninstallSteps
  <2>2. pc'[q] # pc[q]
    BY <1>11 DEF Delete, Without
  <2>3. TouchesOnly(job[q].id)
    <3>1. SUFFICES ASSUME NEW k \in Names \ {job[q].id}
                   PROVE  /\ marker'[k] = marker[k] /\ archive'[k] = archive[k]
                          /\ \A b \in Backends : dir'[<<k, b>>] = dir[<<k, b>>]
      BY DEF TouchesOnly
    <3>2. marker'[k] = marker[k] /\ archive'[k] = archive[k]
      BY <1>11, <2>1 DEF Delete, Without
    <3>3. ASSUME NEW b \in Backends PROVE dir'[<<k, b>>] = dir[<<k, b>>]
      <4>1. /\ <<k, b>> \in Names \X Backends
            /\ \A c \in Backends : <<k, b>> # <<job[q].id, c>>
        BY <2>1, OtherDirectory
      <4>2. QED
        BY <1>11, <2>1, <4>1 DEF Delete, Without, Backends
    <3>4. QED
      BY <3>2, <3>3
  <2>4. QED
    BY <2>1, <2>2, <2>3, OwnWrite
<1>12. ASSUME NEW q \in Procs, RemoveMarker(q) PROVE HolderWrites
  <2>1. /\ job[q].id \in Names /\ job[q].backend \in Backends
        /\ holder[job[q].id] = q
    BY <1>12, OwnsItsJob DEF RemoveMarker, InstallSteps, UninstallSteps
  <2>2. pc'[q] # pc[q]
    BY <1>12 DEF RemoveMarker
  <2>3. TouchesOnly(job[q].id)
    BY <1>12, <2>1 DEF RemoveMarker, TouchesOnly
  <2>4. QED
    BY <2>1, <2>2, <2>3, OwnWrite
<1>13. ASSUME NEW q \in Procs,
            \/ Invoke(q) \/ AcquireLock(q) \/ Exit(q)
            \/ ResolveForInstall(q) \/ RemoveLink(q)
            \/ CreateLink(q) \/ UrlFetch(q) \/ Probe(q)
            \/ Unlink(q) \/ Confirm(q) \/ CheckPin(q)
            \/ ResolveForUpgrade(q) \/ PinCheck(q) \/ PinWrite(q)
            \/ Unpin(q)
     PROVE HolderWrites
  BY <1>13, UntouchedFiles DEF Invoke, AcquireLock, Exit, ResolveForInstall,
     RemoveLink, CreateLink, UrlFetch, Probe, Unlink, Confirm, CheckPin,
     ResolveForUpgrade, PinCheck, PinWrite, Unpin
<1>14. ASSUME NEW a \in PkgCommands, PkgChanges(a) PROVE HolderWrites
  BY <1>14, UntouchedFiles DEF PkgChanges
<1>15. CASE UNCHANGED vars
  BY <1>15, UntouchedFiles DEF vars
<1>16. ASSUME NEW q \in Procs, Crash(q) PROVE HolderWrites
  <2>1. CASE UNCHANGED dir
    BY <1>16, <2>1, UntouchedFiles DEF Crash
  <2>2. CASE pc[q] = "unpack"
    <3>1. job[q].id \in Names /\ holder[job[q].id] = q
      BY <2>2, OwnsItsJob DEF InstallSteps
    <3>2. pc'[q] # pc[q]
      BY <1>16, <2>2 DEF Crash, Leaves
    <3>3. TouchesOnly(job[q].id)
      <4>1. SUFFICES ASSUME NEW k \in Names \ {job[q].id}
                     PROVE  /\ marker'[k] = marker[k] /\ archive'[k] = archive[k]
                            /\ \A b \in Backends : dir'[<<k, b>>] = dir[<<k, b>>]
        BY DEF TouchesOnly
      <4>2. marker'[k] = marker[k] /\ archive'[k] = archive[k]
        BY <1>16 DEF Crash
      <4>3. ASSUME NEW b \in Backends PROVE dir'[<<k, b>>] = dir[<<k, b>>]
        <5>1. /\ <<k, b>> \in Names \X Backends
              /\ <<k, b>> # <<job[q].id, "zip">>
          BY <3>1, OtherDirectory DEF Backends
        <5>2. QED
          BY <1>16, <3>1, <5>1 DEF Crash
      <4>4. QED
        BY <4>2, <4>3
    <3>4. QED
      BY <3>1, <3>2, <3>3, OwnWrite
  <2>3. QED
    BY <1>16, <2>1, <2>2 DEF Crash
<1>17. QED
  BY <1>1, <1>2, <1>3, <1>4, <1>5, <1>6, <1>7, <1>8,
     <1>9, <1>10, <1>11, <1>12, <1>13, <1>14, <1>15, <1>16 DEF Next, Step

\* When users type package ids and lock files can be opened, the files and the
\* record of a package change only in a step of the process that holds its lock.
THEOREM OnlyTheHolder == ASSUME IdsOnly, LockFileOpens PROVE Spec => OnlyTheHolderWrites
<1>1. TypeInv /\ LockInv /\ [Next]_vars =>
        [\A n \in Names :
           \/ marker'[n] # marker[n]
           \/ archive'[n] # archive[n]
           \/ \E b \in Backends : dir'[<<n, b>>] # dir[<<n, b>>]
           => holder[n] # NoProc /\ pc'[holder[n]] # pc[holder[n]]]_vars
  BY StepWrites DEF HolderWrites
<1>2. QED
  BY <1>1, LockedInvariant, PTL DEF Spec, OnlyTheHolderWrites

-----------------------------------------------------------------------------
(* No live command of somebody else is removed. *)

\* Between its check of the name and its symlink, an install's name holds no
\* live command of somebody else, unless it is one that pkg may take.
CheckedInv ==
    \A q \in Procs : pc[q] \in {"remove_link", "create_link"} /\ job[q].alias \notin PkgCommands
                       => link[job[q].alias] # Foreign

NoForeignAppears == \A a \in Aliases \ PkgCommands : link'[a] = Foreign <=> link[a] = Foreign

LEMMA StepChecked ==
  ASSUME TypeInv, CheckedInv, [Next]_vars
  PROVE  CheckedInv' /\ NoForeignAppears
<1> USE SlotsAssumption DEF CheckedInv, NoForeignAppears, TypeInv, TypeOK, Prepared, files,
        Goto, Results, InstallSteps, UninstallSteps
<1>1. ASSUME NEW q \in Procs, Invoke(q) PROVE CheckedInv' /\ NoForeignAppears
  BY <1>1 DEF Invoke
<1>2. ASSUME NEW q \in Procs, AcquireLock(q) PROVE CheckedInv' /\ NoForeignAppears
  BY <1>2 DEF AcquireLock
<1>3. ASSUME NEW q \in Procs, Exit(q) PROVE CheckedInv' /\ NoForeignAppears
  BY <1>3 DEF Exit, Leaves
<1>4. ASSUME NEW q \in Procs, Crash(q) PROVE CheckedInv' /\ NoForeignAppears
  BY <1>4 DEF Crash, Leaves
<1>5. ASSUME NEW q \in Procs, CleanOrphanedInstall(q) PROVE CheckedInv' /\ NoForeignAppears
  BY <1>5 DEF CleanOrphanedInstall
<1>6. ASSUME NEW q \in Procs, ResolveForInstall(q) PROVE CheckedInv' /\ NoForeignAppears
  BY <1>6 DEF ResolveForInstall
<1>7. ASSUME NEW q \in Procs, Fetch(q) PROVE CheckedInv' /\ NoForeignAppears
  BY <1>7 DEF Fetch, FetchPayload, FetchArchive, FetchFails
<1>8. ASSUME NEW q \in Procs, Transfer(q) PROVE CheckedInv' /\ NoForeignAppears
  BY <1>8 DEF Transfer
<1>9. ASSUME NEW q \in Procs, Verify(q) PROVE CheckedInv' /\ NoForeignAppears
  BY <1>9 DEF Verify, VerifyPayload, VerifyArchive
<1>10. ASSUME NEW q \in Procs, ClearExtracted(q) PROVE CheckedInv' /\ NoForeignAppears
  BY <1>10 DEF ClearExtracted
<1>11. ASSUME NEW q \in Procs, Unpack(q) PROVE CheckedInv' /\ NoForeignAppears
  BY <1>11 DEF Unpack
<1>12. ASSUME NEW q \in Procs, CheckLink(q) PROVE CheckedInv' /\ NoForeignAppears
  <2>1. UNCHANGED <<link, job>>
    BY <1>12 DEF CheckLink
  <2>2. pc'[q] = "remove_link" => link[job[q].alias] # Foreign
    BY <1>12 DEF CheckLink, Exists, IsOurManagedSymlink
  <2>3. \A r \in Procs \ {q} : pc'[r] = pc[r]
    BY <1>12 DEF CheckLink
  <2>4. pc'[q] # "create_link"
    BY <1>12 DEF CheckLink
  <2>5. QED
    BY <2>1, <2>2, <2>3, <2>4
<1>13. ASSUME NEW q \in Procs, RemoveLink(q) PROVE CheckedInv' /\ NoForeignAppears
  <2>1. job[q].alias \in Aliases /\ (job[q].alias \notin PkgCommands => link[job[q].alias] # Foreign)
    BY <1>13 DEF RemoveLink, Jobs, Manifests
  <2>2. \A a \in Aliases \ PkgCommands : link'[a] = Foreign <=> link[a] = Foreign
    BY <1>13, <2>1 DEF RemoveLink
  <2>3. \A r \in Procs : pc'[r] \in {"remove_link", "create_link"}
                              => pc[r] \in {"remove_link", "create_link"}
    BY <1>13 DEF RemoveLink
  <2>4. \A r \in Procs : pc[r] \in {"remove_link", "create_link"} => job[r].alias \in Aliases
    BY DEF Jobs, Manifests
  <2>5. UNCHANGED job
    BY <1>13 DEF RemoveLink
  <2>6. QED
    BY <2>2, <2>3, <2>4, <2>5
<1>14. ASSUME NEW q \in Procs, CreateLink(q) PROVE CheckedInv' /\ NoForeignAppears
  <2>1. job[q].alias \in Aliases /\ (job[q].alias \notin PkgCommands => link[job[q].alias] # Foreign)
    BY <1>14 DEF CreateLink, Jobs, Manifests
  <2>2. <<job[q].id, job[q].backend>> # Foreign
    BY <1>14 DEF CreateLink, Jobs, Manifests, ManagedLinks
  <2>3. \A a \in Aliases \ PkgCommands : link'[a] = Foreign <=> link[a] = Foreign
    BY <1>14, <2>1, <2>2 DEF CreateLink
  <2>4. \A r \in Procs : pc'[r] \in {"remove_link", "create_link"}
                              => pc[r] \in {"remove_link", "create_link"}
    BY <1>14 DEF CreateLink
  <2>5. \A r \in Procs : pc[r] \in {"remove_link", "create_link"} => job[r].alias \in Aliases
    BY DEF Jobs, Manifests
  <2>6. UNCHANGED job
    BY <1>14 DEF CreateLink
  <2>7. QED
    BY <2>3, <2>4, <2>5, <2>6
<1>15. ASSUME NEW q \in Procs, OpenMarker(q) PROVE CheckedInv' /\ NoForeignAppears
  BY <1>15 DEF OpenMarker
<1>16. ASSUME NEW q \in Procs, WriteMarker(q) PROVE CheckedInv' /\ NoForeignAppears
  BY <1>16 DEF WriteMarker
<1>17. ASSUME NEW q \in Procs, UrlFetch(q) PROVE CheckedInv' /\ NoForeignAppears
  BY <1>17 DEF UrlFetch
<1>18. ASSUME NEW q \in Procs, Place(q) PROVE CheckedInv' /\ NoForeignAppears
  BY <1>18 DEF Place
<1>19. ASSUME NEW q \in Procs, Probe(q) PROVE CheckedInv' /\ NoForeignAppears
  BY <1>19 DEF Probe
<1>20. ASSUME NEW q \in Procs, Unlink(q) PROVE CheckedInv' /\ NoForeignAppears
  BY <1>20 DEF Unlink, IsOurManagedSymlink
<1>21. ASSUME NEW q \in Procs, Delete(q) PROVE CheckedInv' /\ NoForeignAppears
  BY <1>21 DEF Delete
<1>22. ASSUME NEW q \in Procs, Confirm(q) PROVE CheckedInv' /\ NoForeignAppears
  BY <1>22 DEF Confirm
<1>23. ASSUME NEW q \in Procs, RemoveMarker(q) PROVE CheckedInv' /\ NoForeignAppears
  BY <1>23 DEF RemoveMarker
<1>24. ASSUME NEW q \in Procs, CheckPin(q) PROVE CheckedInv' /\ NoForeignAppears
  BY <1>24 DEF CheckPin
<1>25. ASSUME NEW q \in Procs, ResolveForUpgrade(q) PROVE CheckedInv' /\ NoForeignAppears
  BY <1>25 DEF ResolveForUpgrade
<1>26. ASSUME NEW q \in Procs, PinCheck(q) PROVE CheckedInv' /\ NoForeignAppears
  BY <1>26 DEF PinCheck
<1>27. ASSUME NEW q \in Procs, PinWrite(q) PROVE CheckedInv' /\ NoForeignAppears
  BY <1>27 DEF PinWrite
<1>28. ASSUME NEW q \in Procs, Unpin(q) PROVE CheckedInv' /\ NoForeignAppears
  BY <1>28 DEF Unpin
<1>29. ASSUME NEW a \in PkgCommands, PkgChanges(a) PROVE CheckedInv' /\ NoForeignAppears
  <2>1. UNCHANGED <<pc, job>> /\ \A c \in Aliases \ PkgCommands : link'[c] = link[c]
    BY <1>29 DEF PkgChanges
  <2>2. \A r \in Procs : pc[r] \in {"remove_link", "create_link"} => job[r].alias \in Aliases
    BY DEF Jobs, Manifests
  <2>3. QED
    BY <2>1, <2>2
<1>30. CASE UNCHANGED vars
  BY <1>30 DEF vars
<1>31. QED
  BY <1>1, <1>2, <1>3, <1>4, <1>5, <1>6, <1>7, <1>8, <1>9, <1>10, <1>11, <1>12, <1>13, <1>14, <1>15, <1>16, <1>17, <1>18, <1>19, <1>20, <1>21, <1>22, <1>23, <1>24, <1>25, <1>26, <1>27, <1>28, <1>29, <1>30 DEF Next, Step

\* Whatever catalogs, names and aliases there are, however many commands
\* interleave, fail and are killed: winget-termux never removes or replaces a live
\* command it did not install, but at names that pkg takes and gives up meanwhile.
THEOREM ForeignKept == Spec => ForeignPreserved
<1>1. Init => TypeInv /\ CheckedInv
  BY InitTyped DEF Init, CheckedInv
<1>2. TypeInv /\ CheckedInv /\ [Next]_vars => (TypeInv /\ CheckedInv)'
  BY StepTyped, StepChecked
<1>3. TypeInv /\ CheckedInv /\ [Next]_vars =>
        [\A a \in Aliases \ PkgCommands : link[a] = Foreign => link'[a] = Foreign]_vars
  BY StepChecked DEF NoForeignAppears, vars
<1>4. QED
  BY <1>1, <1>2, <1>3, PTL DEF Spec, ForeignPreserved

-----------------------------------------------------------------------------
(* What a process knows of the files of the package it works on: the lock  *)
(* of a package is held from before its manifest is read until the command *)
(* has reported (HoldInv), so by OnlyTheHolderWrites what a process has    *)
(* seen or done to the files is still true when it takes its next step     *)
(* (FilesInv).                                                             *)

\* The commands that end with a package installed, the two outcomes of a command
\* that succeeds, and the processes that are not done with a package.
Installs == {"install", "upgrade", "install_url"}
Installed(q) == pc[q] = "ok" /\ cmd[q] \in Installs
Uninstalled(q) == pc[q] = "ok" /\ cmd[q] = "uninstall"
Concerned(q) ==
    Working(q) \/ Installed(q) \/ Uninstalled(q) \/ pc[q] \in {"refused", "leftover"}

\* Where a process stands tells which command it runs.
Running(q) ==
    /\ pc[q] = "lock" => cmd[q] \in Installs \cup {"uninstall"}
    /\ pc[q] \in {"start", "resolve"} => cmd[q] \in {"install", "uninstall", "upgrade"}
    /\ pc[q] \in InstallSteps => cmd[q] \in Installs
    /\ pc[q] \in UninstallSteps => cmd[q] \in {"uninstall", "upgrade"}
    /\ pc[q] = "unmark" => cmd[q] = "uninstall"
    /\ pc[q] \in {"pin_check", "pin_write"} => cmd[q] = "pin"
    /\ pc[q] = "unpin" => cmd[q] = "unpin"
    /\ pc[q] = "lock" /\ cmd[q] = "install_url" => job[q] \in UrlInstalls
    /\ pc[q] \in {"url_fetch", "place"} => job[q] \in UrlInstalls

\* A process that is not done with a package holds its lock.
Holding(q) ==
    Concerned(q) => /\ job[q] \in Jobs /\ holder[job[q].id] = q
                    /\ Installed(q) => job[q] \in Manifests

\* Every process runs the command its step belongs to, and holds the lock of the
\* package it is concerned with until it has reported the outcome.
HoldInv == \A q \in Procs : Running(q) /\ Holding(q)

\* What one process may do.
Act(q) == Invoke(q) \/ AcquireLock(q) \/ Step(q) \/ Crash(q)

\* A step of q changes no other process's locals.
OthersStand(q) ==
    \A r \in Procs \ {q} :
        pc'[r] = pc[r] /\ cmd'[r] = cmd[r] /\ arg'[r] = arg[r] /\ job'[r] = job[r]

\* No action of q touches the locals of another process.
LEMMA OnlyOneMoves == ASSUME TypeInv, NEW q \in Procs, Act(q) PROVE OthersStand(q)
<1> USE DEF TypeInv, TypeOK, OthersStand, Goto
<1>1. CASE Invoke(q) \/ AcquireLock(q) \/ Exit(q) \/ Crash(q)
  BY <1>1 DEF Invoke, AcquireLock, Exit, Crash, Leaves
<1>2. CASE CleanOrphanedInstall(q) \/ ResolveForInstall(q) \/ Fetch(q) \/ Transfer(q) \/ Verify(q)
  BY <1>2 DEF CleanOrphanedInstall, ResolveForInstall, Fetch, FetchPayload, FetchArchive,
     FetchFails, Transfer, Verify, VerifyPayload, VerifyArchive
<1>3. CASE ClearExtracted(q) \/ Unpack(q) \/ CheckLink(q) \/ RemoveLink(q) \/ CreateLink(q)
           \/ OpenMarker(q) \/ WriteMarker(q) \/ UrlFetch(q) \/ Place(q)
  BY <1>3 DEF ClearExtracted, Unpack, CheckLink, RemoveLink, CreateLink, OpenMarker,
     WriteMarker, UrlFetch, Place
<1>4. CASE Probe(q) \/ Unlink(q) \/ Delete(q) \/ Confirm(q) \/ RemoveMarker(q)
  BY <1>4 DEF Probe, Unlink, Delete, Confirm, RemoveMarker
<1>5. CASE CheckPin(q) \/ ResolveForUpgrade(q) \/ PinCheck(q) \/ PinWrite(q) \/ Unpin(q)
  BY <1>5 DEF CheckPin, ResolveForUpgrade, PinCheck, PinWrite, Unpin
<1>6. QED
  BY <1>1, <1>2, <1>3, <1>4, <1>5 DEF Act, Step

\* A lock is given back by its holder alone.
LEMMA LocksStand ==
  ASSUME TypeInv, NEW q \in Procs, Act(q), NEW r \in Procs \ {q}, NEW n \in Names,
         holder[n] = r
  PROVE  holder'[n] = r
<1> USE DEF TypeInv, TypeOK
<1>1. CASE Invoke(q) \/ AcquireLock(q) \/ Exit(q) \/ Crash(q)
  BY <1>1, SentinelsAssumption DEF Invoke, AcquireLock, Exit, Crash, Leaves, Prepared
<1>2. CASE UNCHANGED holder
  BY <1>2
<1>3. QED
  BY <1>1, <1>2 DEF Act, Step, CleanOrphanedInstall, ResolveForInstall, Fetch, Transfer, Verify,
     ClearExtracted, Unpack, CheckLink, RemoveLink, CreateLink, OpenMarker,
     WriteMarker, UrlFetch, Place, Probe, Unlink, Delete, Confirm, RemoveMarker,
     CheckPin, ResolveForUpgrade, PinCheck, PinWrite, Unpin

\* The next step of a process belongs to the command it runs.
LEMMA StepRuns == ASSUME TypeInv, NEW q \in Procs, Running(q), Act(q) PROVE Running(q)'
<1> USE DEF TypeInv, TypeOK, Running, Goto, Installs, InstallSteps, UninstallSteps, Results
<1>1. CASE Invoke(q) \/ AcquireLock(q) \/ Exit(q) \/ Crash(q)
  BY <1>1 DEF Invoke, AcquireLock, Exit, Crash, Leaves
<1>2. CASE CleanOrphanedInstall(q) \/ ResolveForInstall(q) \/ Fetch(q) \/ Transfer(q) \/ Verify(q)
  BY <1>2 DEF CleanOrphanedInstall, ResolveForInstall, Fetch, FetchPayload, FetchArchive,
     FetchFails, Transfer, Verify, VerifyPayload, VerifyArchive
<1>3. CASE ClearExtracted(q) \/ Unpack(q) \/ CheckLink(q) \/ RemoveLink(q) \/ CreateLink(q)
           \/ OpenMarker(q) \/ WriteMarker(q) \/ UrlFetch(q) \/ Place(q)
  BY <1>3 DEF ClearExtracted, Unpack, CheckLink, RemoveLink, CreateLink, OpenMarker,
     WriteMarker, UrlFetch, Place
<1>4. CASE Probe(q) \/ Unlink(q) \/ Delete(q) \/ Confirm(q) \/ RemoveMarker(q)
  BY <1>4 DEF Probe, Unlink, Delete, Confirm, RemoveMarker
<1>5. CASE CheckPin(q) \/ ResolveForUpgrade(q) \/ PinCheck(q) \/ PinWrite(q) \/ Unpin(q)
  BY <1>5 DEF CheckPin, ResolveForUpgrade, PinCheck, PinWrite, Unpin
<1>6. QED
  BY <1>1, <1>2, <1>3, <1>4, <1>5 DEF Act, Step

\* The last step of a command that reports one of these outcomes.
LEMMA LastStep ==
  ASSUME TypeInv, NEW q \in Procs, Running(q), Act(q)
  PROVE  /\ Installed(q)' => OpenMarker(q) \/ WriteMarker(q)
         /\ Uninstalled(q)' => RemoveMarker(q)
         /\ pc'[q] = "refused" => CheckLink(q)
         /\ pc'[q] = "leftover" => Confirm(q)
<1> USE DEF TypeInv, TypeOK, Running, Goto, Installs, Installed, Uninstalled, InstallSteps, UninstallSteps
<1>1. CASE Invoke(q) \/ AcquireLock(q) \/ Exit(q) \/ Crash(q)
  BY <1>1 DEF Invoke, AcquireLock, Exit, Crash, Leaves
<1>2. CASE CleanOrphanedInstall(q) \/ ResolveForInstall(q) \/ Fetch(q) \/ Transfer(q) \/ Verify(q)
  BY <1>2 DEF CleanOrphanedInstall, ResolveForInstall, Fetch, FetchPayload, FetchArchive,
     FetchFails, Transfer, Verify, VerifyPayload, VerifyArchive
<1>3. CASE ClearExtracted(q) \/ Unpack(q) \/ CheckLink(q) \/ RemoveLink(q) \/ CreateLink(q)
           \/ OpenMarker(q) \/ WriteMarker(q) \/ UrlFetch(q) \/ Place(q)
  BY <1>3 DEF ClearExtracted, Unpack, CheckLink, RemoveLink, CreateLink, OpenMarker,
     WriteMarker, UrlFetch, Place
<1>4. CASE Probe(q) \/ Unlink(q) \/ Delete(q) \/ Confirm(q) \/ RemoveMarker(q)
  BY <1>4 DEF Probe, Unlink, Delete, Confirm, RemoveMarker
<1>5. CASE CheckPin(q) \/ ResolveForUpgrade(q) \/ PinCheck(q) \/ PinWrite(q) \/ Unpin(q)
  BY <1>5 DEF CheckPin, ResolveForUpgrade, PinCheck, PinWrite, Unpin
<1>6. QED
  BY <1>1, <1>2, <1>3, <1>4, <1>5 DEF Act, Step

\* The lock is taken before the package is known and kept until the process leaves,
\* and nobody else gives it back.
LEMMA StepHolds ==
  ASSUME IdsOnly, LockFileOpens, TypeInv, LockInv, HoldInv, [Next]_vars
  PROVE  HoldInv'
<1>0. TypeInv' /\ LockInv'
  BY StepTyped, StepLocked
<1>1. ASSUME NEW q \in Procs, Act(q) PROVE HoldInv'
  <2>1. Running(q)'
    BY <1>1, StepRuns DEF HoldInv
  <2>2. Holding(q)'
    <3>1. CASE Working(q)'
      <4>1. pc'[q] # "ok" /\ pc'[q] \in InstallSteps \cup UninstallSteps
        BY <3>1 DEF Working, InstallSteps, UninstallSteps
      <4>2. job'[q] \in Jobs /\ holder'[arg'[q]] = q /\ job'[q].id = arg'[q]
        BY <1>0, <4>1, ManifestsAreJobs DEF TypeInv, Prepared, LockInv, LockedSteps
      <4>3. QED
        BY <4>1, <4>2 DEF Holding, Installed
    <3>2. CASE OpenMarker(q) \/ WriteMarker(q) \/ RemoveMarker(q) \/ CheckLink(q) \/ Confirm(q)
      <4>1. pc[q] \in InstallSteps \cup UninstallSteps /\ UNCHANGED <<job, holder>>
            /\ (OpenMarker(q) \/ WriteMarker(q) => pc[q] \in InstallSteps)
        BY <3>2 DEF OpenMarker, WriteMarker, RemoveMarker, CheckLink, Confirm, InstallSteps, UninstallSteps
      <4>2. job[q] \in Jobs /\ holder[job[q].id] = q /\ (pc[q] \in InstallSteps => job[q] \in Manifests)
        BY <4>1, ManifestsAreJobs DEF TypeInv, Prepared, LockInv, LockedSteps
      <4>3. Installed(q)' => OpenMarker(q) \/ WriteMarker(q)
        BY <1>1, LastStep DEF HoldInv
      <4>4. QED
        BY <4>1, <4>2, <4>3 DEF Holding
    <3>3. QED
      BY <1>1, <3>1, <3>2, LastStep DEF HoldInv, Holding, Concerned
  <2>3. ASSUME NEW r \in Procs \ {q} PROVE Running(r)' /\ Holding(r)'
    <3>1. /\ Running(r) /\ Holding(r)
          /\ pc'[r] = pc[r] /\ cmd'[r] = cmd[r] /\ job'[r] = job[r]
      BY <1>1, OnlyOneMoves DEF HoldInv, OthersStand
    <3>2. Concerned(r) => holder'[job[r].id] = r
      BY <1>1, <3>1, LocksStand DEF Holding, Jobs
    <3>3. QED
      BY <3>1, <3>2 DEF Running, Holding, Concerned, Working, Installed, Uninstalled
  <2>4. QED
    BY <2>1, <2>2, <2>3 DEF HoldInv
<1>2. ASSUME NEW a \in PkgCommands, PkgChanges(a) PROVE HoldInv'
  BY <1>2 DEF PkgChanges, HoldInv, Running, Holding, Concerned, Working, Installed, Uninstalled
<1>3. CASE UNCHANGED vars
  BY <1>3 DEF vars, HoldInv, Running, Holding, Concerned, Working, Installed, Uninstalled
<1>4. QED
  BY <1>1, <1>2, <1>3 DEF Next, Act

\* What another process does leaves the files and the record of a package alone
\* as long as a process is concerned with it (OnlyTheHolderWrites, applied).
LEMMA FilesStand ==
  ASSUME TypeInv, LockInv, HoldInv, NEW q \in Procs, Act(q), NEW r \in Procs \ {q}, Concerned(r)
  PROVE  /\ marker'[job[r].id] = marker[job[r].id]
         /\ archive'[job[r].id] = archive[job[r].id]
         /\ \A b \in Backends : dir'[<<job[r].id, b>>] = dir[<<job[r].id, b>>]
<1>1. job[r].id \in Names /\ holder[job[r].id] = r
  BY DEF HoldInv, Holding, Jobs
<1>2. pc'[r] = pc[r]
  BY OnlyOneMoves DEF OthersStand
<1>3. HolderWrites
  BY StepWrites DEF Next, Act
<1>4. QED
  BY <1>1, <1>2, <1>3 DEF HolderWrites

-----------------------------------------------------------------------------

\* The directory the command installs into, and the file its download is written to.
JobDir(q) == dir[<<job[q].id, job[q].backend>>]
Downloaded(q) == IF job[q].backend = "portable" THEN JobDir(q) ELSE archive[job[q].id]

\* The steps between the check of the hash and the record.
Linking == {"check_link", "remove_link", "create_link", "open_marker", "write_marker"}

\* What a process knows of the files of its package from the steps it has taken.
Known(q) ==
    /\ pc[q] = "transfer" => Downloaded(q) = Partial
    /\ pc[q] = "verify" /\ Faults \cap {"corrupt", "disk"} = {} => Downloaded(q) = job[q].version
    /\ pc[q] \in {"clear", "unpack"} =>
          job[q].backend = "zip" /\ archive[job[q].id] = job[q].version
    /\ pc[q] \in Linking \/ Installed(q) => JobDir(q) = job[q].version
    /\ Installed(q) /\ "disk" \notin Faults => marker[job[q].id] = [version |-> job[q].version, alias |-> job[q].alias]
    /\ pc[q] \in {"confirm", "unmark"} \/ Uninstalled(q) => JobDir(q) = Absent
    /\ Uninstalled(q) => marker[job[q].id] = NoMarker
    /\ pc[q] = "bad_hash" => Faults \cap {"corrupt", "disk"} # {}
    /\ pc[q] = "unpack_failed" => Faults \cap {"unpack", "disk"} # {}

\* No Zip directory holds bytes that were not checked; every process knows the
\* files of its package.
ZipInv == \A n \in Names : dir[<<n, "zip">>] # Partial

FilesInv == ZipInv /\ \A q \in Procs : Known(q)

\* Nothing is downloaded, recorded or running at first.
LEMMA InitKnown == Init => FilesInv
  BY SentinelsAssumption DEF Init, FilesInv, ZipInv, Known, Installed, Uninstalled, Backends, Linking

\* The types a process that works on a package relies on.
LEMMA JobTyped ==
  ASSUME TypeInv, NEW q \in Procs, pc[q] \in InstallSteps \cup UninstallSteps
  PROVE  /\ job[q] \in Jobs /\ job[q].id \in Names /\ job[q].alias \in Aliases
         /\ job[q].backend \in Backends /\ <<job[q].id, job[q].backend>> \in Names \X Backends
         /\ pc[q] \in InstallSteps => job[q].version \in Versions
  BY DEF TypeInv, TypeOK, Prepared, Jobs, Manifests

\* A directory that gets bytes nobody checked is a Portable package's.
LEMMA ZipStays ==
  ASSUME TypeOK, ZipInv, NEW n \in Names, NEW b \in Backends, NEW content,
         dir' = [dir EXCEPT ![<<n, b>>] = content], b = "zip" => content # Partial
  PROVE  ZipInv'
<1>1. SUFFICES ASSUME NEW k \in Names PROVE dir'[<<k, "zip">>] # Partial
  BY DEF ZipInv
<1>2. <<k, "zip">> \in Names \X Backends /\ dir[<<k, "zip">>] # Partial
  BY DEF ZipInv, Backends
<1>3. CASE <<k, "zip">> = <<n, b>>
  BY <1>2, <1>3 DEF TypeOK
<1>4. CASE <<k, "zip">> # <<n, b>>
  BY <1>2, <1>4 DEF TypeOK
<1>5. QED
  BY <1>3, <1>4

\* A process that goes on knows its files by what its last step did to them, or
\* read of them.
LEMMA StepKnown ==
  ASSUME TypeInv, HoldInv, FilesInv, NEW q \in Procs, Act(q)
  PROVE  Known(q)' /\ ZipInv'
<1> USE SentinelsAssumption DEF Goto, Linking
<1>a. TypeOK /\ ZipInv /\ (\A r \in Procs : Known(r) /\ Running(r))
  BY DEF TypeInv, FilesInv, HoldInv
<1>b. UNCHANGED dir => ZipInv'
  BY <1>a DEF ZipInv
<1>c. pc \in [Procs -> Steps]
  BY <1>a DEF TypeOK
<1> USE <1>c
<1> DEFINE Quiet == {"transfer", "verify", "clear", "unpack", "confirm", "unmark", "bad_hash",
                     "unpack_failed"} \cup Linking
<1>0. ASSUME pc'[q] \notin Quiet, ~Installed(q)', ~Uninstalled(q)' PROVE Known(q)'
  BY <1>0 DEF Known
<1>1. CASE Fetch(q)
  <2>1. pc[q] = "fetch" /\ pc[q] \in InstallSteps
    BY <1>1 DEF Fetch, InstallSteps
  <2>2. ZipInv'
    <3>1. \/ UNCHANGED dir
          \/ \E content : /\ dir' = [dir EXCEPT ![<<job[q].id, job[q].backend>>] = content]
                          /\ job[q].backend = "zip" => content \in {Empty, JobDir(q)}
      BY <1>1 DEF Fetch, FetchPayload, FetchArchive, FetchFails, JobDir
    <3>2. job[q].backend = "zip" => JobDir(q) # Partial
      BY <1>a, <2>1, JobTyped DEF JobDir, ZipInv
    <3>3. QED
      BY <1>a, <1>b, <2>1, <3>1, <3>2, JobTyped, ZipStays
  <2>3. ~Installed(q)' /\ ~Uninstalled(q)'
    BY <1>1 DEF Fetch, FetchPayload, FetchArchive, FetchFails, Installed, Uninstalled
  <2>4. Known(q)'
    <3>1. CASE FetchPayload(q)
      BY <1>a, <1>1, <2>1, <2>3, <3>1, JobTyped DEF TypeOK, Fetch, FetchPayload, Known,
         Downloaded, JobDir
    <3>2. CASE FetchArchive(q)
      BY <1>a, <1>1, <2>1, <2>3, <3>2, JobTyped DEF TypeOK, Fetch, FetchArchive, Known,
         Downloaded, JobDir
    <3>3. CASE FetchFails(q)
      BY <1>a, <1>1, <2>3, <3>3 DEF FetchFails, Known
    <3>4. QED
      BY <1>1, <3>1, <3>2, <3>3 DEF Fetch
  <2>5. QED
    BY <2>2, <2>4
<1>2. CASE Transfer(q)
  <2>1. pc[q] = "transfer" /\ pc[q] \in InstallSteps /\ Known(q)
    BY <1>a, <1>2 DEF Transfer, InstallSteps
  <2>2. ZipInv'
    <3>1. \/ UNCHANGED dir
          \/ \E content : /\ dir' = [dir EXCEPT ![<<job[q].id, job[q].backend>>] = content]
                          /\ job[q].backend = "portable"
      BY <1>2 DEF Transfer
    <3>2. QED
      BY <1>a, <1>b, <2>1, <3>1, JobTyped, ZipStays
  <2>3. ~Installed(q)' /\ ~Uninstalled(q)'
    BY <1>2 DEF Transfer, Installed, Uninstalled
  <2>4. Known(q)'
    BY <1>a, <1>b, <1>2, <2>1, <2>3, JobTyped DEF TypeOK, Transfer, Known, Backends, Downloaded, JobDir
  <2>5. QED
    BY <2>2, <2>4
<1>3. CASE Verify(q)
  <2>1. pc[q] = "verify" /\ pc[q] \in InstallSteps /\ Known(q)
    BY <1>a, <1>3 DEF Verify, InstallSteps
  <2>2. ZipInv'
    <3>1. \/ UNCHANGED dir
          \/ \E content : dir' = [dir EXCEPT ![<<job[q].id, "portable">>] = content]
      BY <1>3 DEF Verify, VerifyPayload, VerifyArchive
    <3>2. QED
      BY <1>a, <1>b, <2>1, <3>1, JobTyped, ZipStays DEF Backends
  <2>3. ~Installed(q)' /\ ~Uninstalled(q)'
    BY <1>3 DEF Verify, VerifyPayload, VerifyArchive, Installed, Uninstalled
  <2>4. ASSUME VerifyPayload(q) PROVE Known(q)'
    BY <1>a, <1>b, <1>3, <2>1, <2>3, <2>4, JobTyped DEF TypeOK, Verify, VerifyPayload, Known, Downloaded, JobDir
  <2>5. ASSUME VerifyArchive(q) PROVE Known(q)'
    BY <1>a, <1>b, <1>3, <2>1, <2>3, <2>5, JobTyped DEF TypeOK, Verify, VerifyArchive, Known, Downloaded, JobDir
  <2>6. VerifyPayload(q) \/ VerifyArchive(q)
    BY <1>3 DEF Verify
  <2>7. QED
    BY <2>2, <2>4, <2>5, <2>6
<1>4. CASE ClearExtracted(q)
  <2>1. pc[q] = "clear" /\ pc[q] \in InstallSteps /\ Known(q)
    BY <1>a, <1>4 DEF ClearExtracted, InstallSteps
  <2>2. ZipInv'
    BY <1>a, <1>b, <1>4, <2>1, JobTyped, ZipStays DEF ClearExtracted, Backends
  <2>3. Known(q)'
    BY <1>a, <1>b, <1>4, <2>1, JobTyped DEF TypeOK, ClearExtracted, Known, Installed, Uninstalled
  <2>4. QED
    BY <2>2, <2>3
<1>5. CASE Unpack(q)
  <2>1. pc[q] = "unpack" /\ pc[q] \in InstallSteps /\ Known(q)
    BY <1>a, <1>5 DEF Unpack, InstallSteps
  <2>2. archive[job[q].id] = job[q].version /\ job[q].backend = "zip" /\ job[q].version \in Versions
    BY <1>a, <1>b, <2>1, JobTyped DEF Known
  <2>3. ZipInv'
    <3>1. \E content \in {archive[job[q].id], Empty, Incomplete} :
             dir' = [dir EXCEPT ![<<job[q].id, "zip">>] = content]
      BY <1>5 DEF Unpack
    <3>2. QED
      BY <1>a, <1>b, <2>1, <2>2, <3>1, JobTyped, ZipStays DEF Backends
  <2>4. Known(q)'
    BY <1>a, <1>b, <1>5, <2>1, <2>2, JobTyped DEF TypeOK, Unpack, Known, Installed, Uninstalled, JobDir
  <2>5. QED
    BY <2>3, <2>4
<1>6. CASE CheckLink(q)
  <2>1. pc[q] = "check_link" /\ pc[q] \in InstallSteps /\ Known(q)
    BY <1>a, <1>6 DEF CheckLink, InstallSteps
  <2>2. ZipInv'
    BY <1>a, <1>b, <1>6, <2>1, JobTyped, ZipStays DEF CheckLink, Without
  <2>3. Known(q)'
    BY <1>6, <2>1 DEF TypeOK, CheckLink, Known, Installed, Uninstalled, JobDir
  <2>4. QED
    BY <2>2, <2>3
<1>7. CASE RemoveLink(q) \/ CreateLink(q)
  <2>1. pc[q] \in Linking /\ Known(q) /\ UNCHANGED <<dir, job>>
    BY <1>a, <1>7 DEF RemoveLink, CreateLink
  <2>2. pc'[q] \in Linking \cup {"link_failed"}
    BY <1>7 DEF RemoveLink, CreateLink
  <2>3. QED
    BY <1>b, <2>1, <2>2 DEF Known, Installed, Uninstalled, JobDir
<1>8. CASE OpenMarker(q) \/ WriteMarker(q)
  <2>1. /\ pc[q] \in Linking /\ pc[q] \in InstallSteps /\ Known(q) /\ cmd[q] \in Installs
        /\ UNCHANGED <<dir, job, cmd>>
    BY <1>a, <1>8 DEF OpenMarker, WriteMarker, InstallSteps, Running
  <2>2. /\ JobDir(q)' = job'[q].version /\ ~Uninstalled(q)' /\ pc'[q] \in {"write_marker", "ok"}
    BY <1>8, <2>1 DEF OpenMarker, WriteMarker, Known, JobDir, Uninstalled, Installs
  <2>3. ASSUME Installed(q)', "disk" \notin Faults
        PROVE  marker'[job'[q].id] = [version |-> job'[q].version, alias |-> job'[q].alias]
    <3>1. pc'[q] = "ok"
      BY <2>3 DEF Installed
    <3>2. marker' = [marker EXCEPT ![job[q].id] =
                        [version |-> job[q].version, alias |-> job[q].alias]]
      BY <1>8, <2>3, <3>1 DEF OpenMarker, WriteMarker
    <3>3. QED
      BY <1>a, <2>1, <3>2, JobTyped DEF TypeOK
  <2>4. Known(q)'
    BY <2>2, <2>3 DEF Known
  <2>5. QED
    BY <1>b, <2>1, <2>4
<1>9. CASE Place(q)
  <2>1. pc[q] = "place" /\ pc[q] \in InstallSteps /\ job[q].backend = "portable"
    BY <1>a, <1>9, UrlInstallsAssumption DEF Place, InstallSteps, Running
  <2>2. ZipInv'
    <3>1. \/ UNCHANGED dir
          \/ \E content : dir' = [dir EXCEPT ![<<job[q].id, "portable">>] = content]
      BY <1>9, <2>1 DEF Place
    <3>2. QED
      BY <1>a, <1>b, <2>1, <3>1, JobTyped, ZipStays DEF Backends
  <2>3. Known(q)'
    BY <1>a, <1>b, <1>9, <2>1, JobTyped DEF TypeOK, Place, Known, Installed, Uninstalled, Downloaded, JobDir, Backends
  <2>4. QED
    BY <2>2, <2>3
<1>10. CASE Delete(q)
  <2>1. pc[q] = "delete" /\ pc[q] \in UninstallSteps
    BY <1>10 DEF Delete, UninstallSteps
  <2>2. ZipInv'
    BY <1>a, <1>b, <1>10, <2>1, JobTyped, ZipStays DEF Delete, Without
  <2>3. Known(q)'
    BY <1>a, <1>b, <1>10, <2>1, JobTyped DEF TypeOK, Delete, Without, Known, Installed, Uninstalled, JobDir
  <2>4. QED
    BY <2>2, <2>3
<1>11. CASE Confirm(q)
  <2>1. UNCHANGED <<dir, job>> /\ (pc'[q] # "unmark" => pc'[q] \notin Quiet \cup {"ok"})
    BY <1>11 DEF Confirm, files
  <2>2. pc'[q] = "unmark" => JobDir(q) = Absent
    BY <1>11 DEF Confirm, JobDir
  <2>3. Known(q)'
    BY <1>11, <2>1, <2>2 DEF TypeOK, Known, Installed, Uninstalled, JobDir
  <2>4. QED
    BY <1>b, <2>1, <2>3
<1>12. CASE RemoveMarker(q)
  <2>1. pc[q] = "unmark" /\ pc[q] \in UninstallSteps /\ Known(q) /\ cmd[q] = "uninstall"
    BY <1>a, <1>12 DEF RemoveMarker, UninstallSteps, Running
  <2>2. Known(q)'
    BY <1>a, <1>b, <1>12, <2>1, JobTyped DEF TypeOK, RemoveMarker, Known, Installed, Uninstalled, JobDir, Installs
  <2>3. QED
    BY <1>b, <1>12, <2>2 DEF RemoveMarker
<1>13. CASE CleanOrphanedInstall(q) \/ Crash(q)
  <2>1. ZipInv'
    <3>1. CASE CleanOrphanedInstall(q)
      <4>1. \A n \in Names : <<n, "zip">> \in Names \X Backends
        BY DEF Backends
      <4>2. \A n \in Names : dir'[<<n, "zip">>] \in {Absent, dir[<<n, "zip">>]}
        BY <3>1, <4>1 DEF CleanOrphanedInstall
      <4>3. QED
        BY <1>a, <3>1, <4>2 DEF ZipInv
    <3>2. CASE Crash(q)
      <4>1. CASE UNCHANGED dir
        BY <1>b, <4>1
      <4>2. CASE pc[q] = "unpack"
        <5>1. /\ archive[job[q].id] = job[q].version /\ job[q].version \in Versions
              /\ job[q].id \in Names
          BY <1>a, <1>b, <4>2, JobTyped DEF Known, InstallSteps
        <5>2. QED
          BY <1>a, <1>b, <3>2, <4>1, <4>2, <5>1, ZipStays DEF Crash, Backends
      <4>3. QED
        BY <3>2, <4>1, <4>2 DEF Crash
    <3>3. QED
      BY <1>13, <3>1, <3>2
  <2>2. QED
    BY <1>13, <2>1, <1>0 DEF CleanOrphanedInstall, Crash, Leaves, Installed, Uninstalled
<1>14. CASE Invoke(q) \/ AcquireLock(q) \/ Exit(q) \/ ResolveForInstall(q) \/ UrlFetch(q)
            \/ Probe(q) \/ Unlink(q) \/ CheckPin(q) \/ ResolveForUpgrade(q) \/ PinCheck(q)
            \/ PinWrite(q) \/ Unpin(q)
  <2>1. UNCHANGED dir
    BY <1>14 DEF Invoke, AcquireLock, Exit, ResolveForInstall, UrlFetch, Probe, Unlink, CheckPin,
       ResolveForUpgrade, PinCheck, PinWrite, Unpin, files
  <2>2. pc'[q] \notin Quiet
    BY <1>14 DEF Invoke, AcquireLock, Exit, Leaves, ResolveForInstall, UrlFetch, Probe, Unlink, CheckPin,
       ResolveForUpgrade, PinCheck, PinWrite, Unpin
  <2>3. ~OpenMarker(q) /\ ~WriteMarker(q) /\ ~RemoveMarker(q)
    BY <1>14 DEF Invoke, AcquireLock, Exit, ResolveForInstall, UrlFetch, Probe, Unlink, CheckPin,
       ResolveForUpgrade, PinCheck, PinWrite, Unpin, OpenMarker, WriteMarker, RemoveMarker, Results
  <2>4. ~Installed(q)' /\ ~Uninstalled(q)'
    BY <1>a, <2>3, LastStep
  <2>5. QED
    BY <1>b, <2>1, <2>2, <2>4, <1>0
<1>15. QED
  BY <1>1, <1>2, <1>3, <1>4, <1>5, <1>6, <1>7, <1>8, <1>9, <1>10, <1>11, <1>12, <1>13, <1>14
     DEF Act, Step

\* A process that does not move keeps what it knows: the lock keeps the others out.
LEMMA StepFiles ==
  ASSUME TypeInv, LockInv, HoldInv, FilesInv, [Next]_vars
  PROVE  FilesInv'
<1>1. ASSUME NEW q \in Procs, Act(q) PROVE FilesInv'
  <2>1. Known(q)' /\ ZipInv'
    BY <1>1, StepKnown
  <2>2. ASSUME NEW r \in Procs \ {q} PROVE Known(r)'
    <3>1. pc'[r] = pc[r] /\ cmd'[r] = cmd[r] /\ job'[r] = job[r]
      BY <1>1, OnlyOneMoves DEF OthersStand
    <3>2. Known(r)
      BY DEF FilesInv
    <3>3. CASE Concerned(r)
      <4>1. job[r].backend \in Backends
        BY <3>3 DEF HoldInv, Holding, Jobs
      <4>2. /\ marker'[job[r].id] = marker[job[r].id]
            /\ archive'[job[r].id] = archive[job[r].id]
            /\ dir'[<<job[r].id, job[r].backend>>] = dir[<<job[r].id, job[r].backend>>]
        BY <1>1, <3>3, <4>1, FilesStand
      <4>3. QED
        BY <3>1, <3>2, <4>2 DEF Known, Downloaded, JobDir, Installed, Uninstalled
    <3>4. CASE ~Concerned(r)
      BY <3>1, <3>2, <3>4 DEF Known, Concerned, Working, Installed, Uninstalled, Linking,
         InstallSteps, UninstallSteps
    <3>5. QED
      BY <3>3, <3>4
  <2>3. QED
    BY <2>1, <2>2 DEF FilesInv
<1>2. ASSUME NEW a \in PkgCommands, PkgChanges(a) PROVE FilesInv'
  BY <1>2 DEF PkgChanges, FilesInv, ZipInv, Known, Downloaded, JobDir, Installed, Uninstalled
<1>3. CASE UNCHANGED vars
  BY <1>3 DEF vars, FilesInv, ZipInv, Known, Downloaded, JobDir, Installed, Uninstalled
<1>4. QED
  BY <1>1, <1>2, <1>3 DEF Next, Act

\* At first no process is concerned with a package.
LEMMA InitHeld == Init => HoldInv
  BY DEF Init, HoldInv, Running, Holding, Concerned, Working, Installed, Uninstalled, Installs,
     InstallSteps, UninstallSteps

\* Types, locks, commands and files together: an inductive invariant.
WorkInv == TypeInv /\ LockInv /\ HoldInv /\ FilesInv

\* Each step preserves it,
LEMMA StepWork == ASSUME IdsOnly, LockFileOpens, WorkInv, [Next]_vars PROVE WorkInv'
  BY StepTyped, StepLocked, StepHolds, StepFiles DEF WorkInv

\* and so it always holds.
LEMMA WorkInvariant == ASSUME IdsOnly, LockFileOpens PROVE Spec => []WorkInv
<1>1. Init => WorkInv
  BY InitTyped, InitLocked, InitHeld, InitKnown DEF WorkInv
<1>2. WorkInv /\ [Next]_vars => WorkInv'
  BY StepWork
<1>3. QED
  BY <1>1, <1>2, PTL DEF Spec

\* A link into a Zip package never reaches bytes whose hash was not checked, however
\* commands interleave, fail or are killed: InstallZip verifies the archive before
\* it unpacks.
THEOREM ZipNeverUnverified == ASSUME IdsOnly, LockFileOpens PROVE Spec => []LinkedZipIsVerified
<1>1. WorkInv => LinkedZipIsVerified
  BY DEF WorkInv, FilesInv, ZipInv, LinkedZipIsVerified
<1>2. QED
  BY <1>1, WorkInvariant, PTL

-----------------------------------------------------------------------------
(* What one step may write. *)

\* Three steps write a link: the two removals and the creation, of the job's alias.
LinkWritten(q, a) ==
    /\ Working(q) /\ a = job[q].alias
    /\ \/ Unlink(q) /\ IsOurManagedSymlink(a) /\ link'[a] = NoLink
       \/ RemoveLink(q) /\ link'[a] = NoLink
       \/ /\ CreateLink(q) /\ link[a] = NoLink
          /\ link'[a] = <<job[q].id, job[q].backend>>

\* No other step changes what a command name holds.
LEMMA LinkWrites ==
  ASSUME TypeInv, NEW q \in Procs, Act(q), NEW a \in Aliases, link'[a] # link[a]
  PROVE  LinkWritten(q, a)
<1> USE DEF LinkWritten, Working, InstallSteps, UninstallSteps
<1>a. link \in [Aliases -> Slots]
  BY DEF TypeInv, TypeOK
<1>1. CASE Unlink(q)
  BY <1>a, <1>1 DEF Unlink
<1>2. CASE RemoveLink(q)
  BY <1>a, <1>2 DEF RemoveLink
<1>3. CASE CreateLink(q)
  BY <1>a, <1>3 DEF CreateLink
<1>4. CASE UNCHANGED link
  BY <1>4
<1>5. QED
  BY <1>1, <1>2, <1>3, <1>4 DEF Act, Step, files, Invoke, AcquireLock, Exit, Crash,
     CleanOrphanedInstall, ResolveForInstall, Fetch, Transfer, Verify, ClearExtracted, Unpack,
     CheckLink, OpenMarker, WriteMarker, UrlFetch, Place, Probe, Delete, Confirm, RemoveMarker,
     CheckPin, ResolveForUpgrade, PinCheck, PinWrite, Unpin

\* Three steps write a record, the job's.
RecordWritten(q, n) ==
    /\ Working(q) /\ n = job[q].id
    /\ \/ OpenMarker(q) /\ marker'[n] = Truncated
       \/ /\ WriteMarker(q)
          /\ marker'[n] = [version |-> job[q].version, alias |-> job[q].alias]
       \/ RemoveMarker(q) /\ marker'[n] = NoMarker

\* No other step changes a record.
LEMMA RecordWrites ==
  ASSUME TypeInv, NEW q \in Procs, Act(q), NEW n \in Names, marker'[n] # marker[n]
  PROVE  RecordWritten(q, n)
<1> USE DEF RecordWritten, Working, InstallSteps, UninstallSteps
<1>a. marker \in [Names -> Records \cup {NoMarker, Truncated}]
  BY DEF TypeInv, TypeOK
<1>1. CASE OpenMarker(q)
  BY <1>a, <1>1 DEF OpenMarker
<1>2. CASE WriteMarker(q)
  BY <1>a, <1>2 DEF WriteMarker
<1>3. CASE RemoveMarker(q)
  BY <1>a, <1>3 DEF RemoveMarker
<1>4. CASE UNCHANGED marker
  BY <1>4
<1>5. QED
  BY <1>1, <1>2, <1>3, <1>4 DEF Act, Step, files, Invoke, AcquireLock, Exit, Crash,
     CleanOrphanedInstall, ResolveForInstall, Fetch, Transfer, Verify, ClearExtracted, Unpack,
     CheckLink, RemoveLink, CreateLink, UrlFetch, Place, Probe, Unlink, Delete, Confirm,
     CheckPin, ResolveForUpgrade, PinCheck, PinWrite, Unpin

\* A directory is cleaned by an install that finds no record, or written by the
\* process that works on its package.
DirWritten(q, n, b) ==
    \/ CleanOrphanedInstall(q) /\ marker[n] = NoMarker /\ dir'[<<n, b>>] = Absent
    \/ Working(q) /\ n = job[q].id /\ b = job[q].backend

\* One directory is written, the job's.
LEMMA OneDirectory ==
  ASSUME TypeInv, NEW q \in Procs, NEW content, NEW n \in Names, NEW b \in Backends,
         Working(q), dir' = [dir EXCEPT ![<<job[q].id, job[q].backend>>] = content],
         dir'[<<n, b>>] # dir[<<n, b>>]
  PROVE  n = job[q].id /\ b = job[q].backend
<1>1. <<n, b>> = <<job[q].id, job[q].backend>>
  BY DEF TypeInv, TypeOK
<1>2. QED
  BY <1>1

\* No other step changes a directory.
LEMMA DirWrites ==
  ASSUME TypeInv, HoldInv, FilesInv, NEW q \in Procs, Act(q),
         NEW n \in Names, NEW b \in Backends, dir'[<<n, b>>] # dir[<<n, b>>]
  PROVE  DirWritten(q, n, b)
<1>a. Known(q) /\ Running(q)
  BY DEF FilesInv, HoldInv
<1>1. CASE /\ Working(q)
           /\ \E content : dir' = [dir EXCEPT ![<<job[q].id, job[q].backend>>] = content]
  BY <1>1, OneDirectory DEF DirWritten
<1>2. CASE UNCHANGED dir
  BY <1>2
<1>3. CASE Fetch(q) \/ Transfer(q) \/ CheckLink(q) \/ Delete(q)
  BY <1>1, <1>2, <1>3 DEF Fetch, FetchPayload, FetchArchive, FetchFails, Transfer, CheckLink,
     Delete, Without, Working, InstallSteps, UninstallSteps
<1>4. CASE Verify(q)
  BY <1>1, <1>2, <1>4 DEF Verify, VerifyPayload, VerifyArchive, Working, InstallSteps
<1>5. CASE ClearExtracted(q) \/ Unpack(q)
  BY <1>a, <1>1, <1>5 DEF ClearExtracted, Unpack, Known, Working, InstallSteps
<1>6. CASE Place(q)
  BY <1>a, <1>1, <1>6, UrlInstallsAssumption DEF Place, Running, Working, InstallSteps
<1>7. CASE Crash(q)
  BY <1>a, <1>1, <1>2, <1>7 DEF Crash, Known, Working, InstallSteps
<1>8. CASE CleanOrphanedInstall(q)
  <2>1. <<n, b>> \in Names \X Backends
    OBVIOUS
  <2>2. marker[n] = NoMarker /\ dir'[<<n, b>>] = Absent
    BY <1>8, <2>1 DEF CleanOrphanedInstall
  <2>3. QED
    BY <1>8, <2>2 DEF DirWritten
<1>9. QED
  BY <1>2, <1>3, <1>4, <1>5, <1>6, <1>7, <1>8 DEF Act, Step, files, Invoke, AcquireLock, Exit,
     ResolveForInstall, RemoveLink, CreateLink, OpenMarker, WriteMarker, UrlFetch, Probe, Unlink,
     Confirm, RemoveMarker, CheckPin, ResolveForUpgrade, PinCheck, PinWrite, Unpin
=============================================================================
