-------------------------- MODULE Catalogs_proofs --------------------------
(***************************************************************************)
(* Proofs about Catalogs, for all packages, versions, sources and files,   *)
(* any number of commands and every fault.                                 *)
(***************************************************************************)
EXTENDS Catalogs, Integers, SequenceTheorems, WellFoundedInduction, TLAPS

\* No two packages have manifests under one file name, and none share a path on a
\* server.  Users and publishers have to see to it: index keeps the name of the file it
\* is given, whatever is stored under it, and nobody compares what a server sends with
\* what was asked for.
FilesByPackage ==
    /\ \A r, q \in Releases : FileNames[r] \cap FileNames[q] # {} => r.id = q.id
    /\ \A s \in Sources : \A r, q \in Releases : PathOf[s][r] = PathOf[s][q] => r.id = q.id

\* What a file holds was stored under a name its manifest may have.
StoredInv ==
    /\ stored \in [Files -> Releases \cup {NoFile, Unreadable}]
    /\ \A f \in Files : stored[f] \in Releases => f \in FileNames[stored[f]]

\* A file is there when it is about to be indexed.
IndexingInv ==
    /\ indexing \subseteq Files
    /\ \A f \in indexing : stored[f] # NoFile

\* A row was made of a manifest that may have the name of its file.
RowsInv ==
    \A row \in rows :
        /\ row.file \in Files
        /\ stored[row.file] # NoFile
        /\ \E r \in Releases : row.file \in FileNames[r] /\ r.id = row.id

CatalogInv == StoredInv /\ IndexingInv /\ RowsInv

LEMMA InitCatalog == Init => CatalogInv
BY SentinelAssumption DEF Init, CatalogInv, StoredInv, IndexingInv, RowsInv

\* Only index changes the stored files, and it overwrites but never deletes.
LEMMA StageKeepsCatalog ==
    ASSUME CatalogInv, NEW r \in Releases, NEW f \in FileNames[r], StageManifest(r, f)
    PROVE  CatalogInv'
<1> USE DEF CatalogInv, StoredInv, IndexingInv, RowsInv
<1>1. f \in Files
  BY FileNamesAssumption
<1>2. PICK c \in {r, Unreadable} : stored' = [stored EXCEPT ![f] = c]
  BY DEF StageManifest
<1>3. c \in Releases \cup {Unreadable} /\ c # NoFile /\ (c \in Releases => f \in FileNames[c])
  BY SentinelAssumption
<1>4. StoredInv'
  BY <1>1, <1>2, <1>3
<1>5. IndexingInv'
  BY <1>1, <1>2, <1>3 DEF StageManifest
<1>6. RowsInv'
  BY <1>1, <1>2, <1>3 DEF StageManifest
<1> QED
  BY <1>4, <1>5, <1>6

LEMMA AddKeepsCatalog ==
    ASSUME CatalogInv, NEW f \in Files, AddManifest(f)
    PROVE  CatalogInv'
<1> USE DEF CatalogInv, StoredInv, IndexingInv, RowsInv
<1>1. UNCHANGED stored /\ f \in indexing /\ indexing' = indexing \ {f}
  BY DEF AddManifest
<1>2. StoredInv' /\ IndexingInv'
  BY <1>1
<1>3. \/ rows' = rows
      \/ /\ stored[f] \in Releases
         /\ rows' = rows \cup {[id |-> stored[f].id, version |-> stored[f].version, file |-> f]}
  BY DEF AddManifest
<1>4. RowsInv'
  BY <1>1, <1>3
<1> QED
  BY <1>2, <1>4

LEMMA NextCatalog == CatalogInv /\ [Next]_vars => CatalogInv'
<1> SUFFICES ASSUME CatalogInv, [Next]_vars PROVE CatalogInv'
  OBVIOUS
<1>1. ASSUME NEW r \in Releases, NEW f \in FileNames[r], StageManifest(r, f) PROVE CatalogInv'
  BY <1>1, StageKeepsCatalog
<1>2. ASSUME NEW f \in Files, AddManifest(f) PROVE CatalogInv'
  BY <1>2, AddKeepsCatalog
<1>3. ASSUME NEW f \in Files, KillIndex(f) PROVE CatalogInv'
  BY <1>3 DEF KillIndex, CatalogInv, StoredInv, IndexingInv, RowsInv
<1>4. ASSUME UNCHANGED local PROVE CatalogInv'
  BY <1>4 DEF local, CatalogInv, StoredInv, IndexingInv, RowsInv
<1>5. ASSUME NEW n \in Ids,
             \/ InstallCommand(n) \/ UninstallCommand(n) \/ InstallUrl(n)
             \/ Pin(n) \/ Unpin(n) \/ UpgradeOne(n)
      PROVE  UNCHANGED local
  BY <1>5 DEF InstallCommand, UninstallCommand, InstallUrl, Pin, Unpin, UpgradeOne, Begin
<1>6. ASSUME NEW s \in Sources,
             \/ SourceAdd(s) \/ SourceUpdate(s) \/ SourceRemove(s) \/ Reachability(s)
             \/ \E r \in MayPublish[s] : Publish(s, r)
      PROVE  UNCHANGED local
  BY <1>6 DEF SourceAdd, SourceUpdate, SourceRemove, Reachability, Publish
<1>7. ASSUME \/ Export \/ UpgradeAll \/ Import \/ Finish
             \/ \E e \in batch.left : VisitForUpgrade(e) \/ VisitForImport(e)
      PROVE  UNCHANGED local
  BY <1>7 DEF Export, UpgradeAll, Import, Finish, Begin, VisitForUpgrade, VisitForImport
<1>8. CASE UNCHANGED vars
  BY <1>4, <1>8 DEF vars, local
<1> QED
  BY <1>1, <1>2, <1>3, <1>4, <1>5, <1>6, <1>7, <1>8 DEF Next

LEMMA CatalogFindsTheirs ==
    ASSUME FilesByPackage, CatalogInv
    PROVE  RowsFindTheirPackage
<1> SUFFICES ASSUME NEW row \in rows
             PROVE  /\ stored[row.file] # NoFile
                    /\ stored[row.file] \in Releases => stored[row.file].id = row.id
  BY DEF RowsFindTheirPackage
<1> QED
  BY DEF FilesByPackage, CatalogInv, StoredInv, RowsInv

\* What a server has under a path is a release that it has there.
PublishedInv ==
    \A s \in Sources, p \in Paths :
        published[s][p] \in Releases => PathOf[s][published[s][p]] = p

LEMMA InitPublished == Init => PublishedInv
BY PublishAssumption DEF Init, PublishedInv

LEMMA NextPublished == PublishedInv /\ [Next]_vars => PublishedInv'
<1> SUFFICES ASSUME PublishedInv, [Next]_vars PROVE PublishedInv'
  OBVIOUS
<1>1. CASE UNCHANGED published
  BY <1>1 DEF PublishedInv
<1>2. ASSUME NEW s \in Sources, NEW r \in MayPublish[s], Publish(s, r) PROVE PublishedInv'
  <2>1. PICK c \in {r, NoFile} : published' = [published EXCEPT ![s][PathOf[s][r]] = c]
    BY <1>2 DEF Publish
  <2>2. NoFile \notin Releases
    BY SentinelAssumption
  <2> QED
    BY <2>1, <2>2 DEF PublishedInv
<1>3. ASSUME NEW n \in Ids,
             \/ InstallCommand(n) \/ UninstallCommand(n) \/ InstallUrl(n)
             \/ Pin(n) \/ Unpin(n) \/ UpgradeOne(n)
      PROVE  UNCHANGED published
  BY <1>3 DEF InstallCommand, UninstallCommand, InstallUrl, Pin, Unpin, UpgradeOne, Begin, remote
<1>4. ASSUME NEW s \in Sources,
             SourceAdd(s) \/ SourceUpdate(s) \/ SourceRemove(s) \/ Reachability(s)
      PROVE  UNCHANGED published
  BY <1>4 DEF SourceAdd, SourceUpdate, SourceRemove, Reachability
<1>5. ASSUME \/ Export \/ UpgradeAll \/ Import \/ Finish
             \/ \E e \in batch.left : VisitForUpgrade(e) \/ VisitForImport(e)
             \/ \E r \in Releases : \E f \in FileNames[r] : StageManifest(r, f)
             \/ \E f \in Files : AddManifest(f) \/ KillIndex(f)
      PROVE  UNCHANGED published
  BY <1>5 DEF Export, UpgradeAll, Import, Finish, Begin, VisitForUpgrade, VisitForImport,
              StageManifest, AddManifest, KillIndex, remote
<1> QED
  BY <1>1, <1>2, <1>3, <1>4, <1>5 DEF Next, vars

\* Catalogs and servers deliver the package that they were asked for.
ServersFindTheirPackage ==
    \A s \in Sources, r \in Releases :
        LET content == published[s][PathOf[s][r]]
        IN  content \in Releases => content.id = r.id

FindTheirs == RowsFindTheirPackage /\ ServersFindTheirPackage

\* They do where no two packages share a file name or a path, whatever index is
\* killed, refused or run beside another and whatever servers replace.
LEMMA AlwaysFindTheirs == ASSUME FilesByPackage PROVE Spec => []FindTheirs
<1>1. PublishedInv => ServersFindTheirPackage
  <2> SUFFICES ASSUME PublishedInv, NEW s \in Sources, NEW r \in Releases,
                      published[s][PathOf[s][r]] \in Releases
               PROVE  published[s][PathOf[s][r]].id = r.id
    BY DEF ServersFindTheirPackage
  <2>1. PathOf[s][r] \in Paths
    BY PublishAssumption
  <2> QED
    BY <2>1, FilesByPackage DEF PublishedInv, FilesByPackage
<1>2. CatalogInv => RowsFindTheirPackage
  BY FilesByPackage, CatalogFindsTheirs
<1>3. Spec => []CatalogInv
  BY InitCatalog, NextCatalog, PTL DEF Spec
<1>4. Spec => []PublishedInv
  BY InitPublished, NextPublished, PTL DEF Spec
<1>5. CatalogInv /\ PublishedInv => FindTheirs
  BY <1>1, <1>2 DEF FindTheirs
<1> QED
  BY <1>3, <1>4, <1>5, PTL

-----------------------------------------------------------------------------
(* The smallest and the largest of a set of numbers exist, and with them the *)
(* source that answers first and the latest version.                         *)

LEMMA SmallestExists ==
    ASSUME NEW T, T \subseteq Nat, T # {}
    PROVE  \E x \in T : \A y \in T : x <= y
<1> DEFINE Less == OpToRel(<, Nat)
<1>1. \A x, y \in Nat : y < x => <<y, x>> \in Less
  BY DEF OpToRel
<1>2. IsWellFoundedOn(Less, Nat)
  BY NatLessThanWellFounded
<1> HIDE DEF Less
<1>3. PICK x \in T : \A y \in T : <<y, x>> \notin Less
  BY <1>2, WFMin
<1>4. ASSUME NEW y \in T PROVE x <= y
  <2>1. x \in Nat /\ y \in Nat
    OBVIOUS
  <2>2. ~(y < x)
    BY <1>1, <1>3, <2>1
  <2> QED
    BY <2>1, <2>2
<1> QED
  BY <1>4

LEMMA LargestExists ==
    ASSUME NEW k \in Nat, NEW T, T \subseteq 0..k, T # {}
    PROVE  \E x \in T : \A y \in T : y <= x
<1> DEFINE U == {k - v : v \in T}
<1>1. U \subseteq Nat /\ U # {}
  <2>1. \A v \in T : k - v \in Nat
    OBVIOUS
  <2> QED
    BY <2>1
<1>2. PICK u \in U : \A y \in U : u <= y
  BY <1>1, SmallestExists
<1>3. PICK x \in T : u = k - x
  OBVIOUS
<1>4. ASSUME NEW y \in T PROVE y <= x
  <2>1. k - x <= k - y
    BY <1>2, <1>3
  <2> QED
    BY <2>1
<1> QED
  BY <1>4

\* Whatever has releases of a package has a latest one.
LEMMA LatestIsLargest ==
    ASSUME NEW n, NEW S, \A r \in S : r.version \in Versions, OfPackage(n, S) # {}
    PROVE  /\ Latest(n, S) \in S /\ Latest(n, S).id = n
           /\ \A q \in OfPackage(n, S) : q.version <= Latest(n, S).version
<1> DEFINE T == {r.version : r \in OfPackage(n, S)}
<1>1. T \subseteq 0..Newest /\ T # {}
  BY NewestAssumption DEF OfPackage, Versions
<1>2. \E v \in T : \A w \in T : w <= v
  BY <1>1, NewestAssumption, LargestExists
<1>3. \E r \in OfPackage(n, S) : \A q \in OfPackage(n, S) : q.version <= r.version
  BY <1>2
<1> HIDE DEF T
<1>4. /\ Latest(n, S) \in OfPackage(n, S)
      /\ \A q \in OfPackage(n, S) : q.version <= Latest(n, S).version
  BY <1>3 DEF Latest
<1> QED
  BY <1>4 DEF OfPackage

-----------------------------------------------------------------------------
(* What a resolution answers *)

\* A release that the server has where the latest one was that the source lists.
LEMMA SourceAnswers ==
    ASSUME TypeOK, NEW s \in Sources, NEW n \in Ids, ResolveManifestFromSource(s, n) # None
    PROVE  \E r \in Releases :
              /\ ResolveManifestFromSource(s, n) = Found(r, s)
              /\ ServersFindTheirPackage => r.id = n
              /\ ServesWhatItLists(s, n) =>
                    \A q \in OfPackage(n, snapshot[s]) : q.version <= r.version
<1>1. snapshot[s] \subseteq Releases
  BY DEF TypeOK
<1>2. OfPackage(n, snapshot[s]) # {}
  BY DEF ResolveManifestFromSource
<1>3. \A r \in snapshot[s] : r.version \in Versions
  BY <1>1 DEF Releases
<1> DEFINE latest == Latest(n, snapshot[s])
           r == published[s][PathOf[s][latest]]
<1>4. /\ latest \in snapshot[s] /\ latest.id = n
      /\ \A q \in OfPackage(n, snapshot[s]) : q.version <= latest.version
  BY <1>2, <1>3, LatestIsLargest
<1>5. r \in Releases /\ ResolveManifestFromSource(s, n) = Found(r, s)
  BY DEF ResolveManifestFromSource
<1>6. ServersFindTheirPackage => r.id = n
  BY <1>1, <1>4, <1>5 DEF ServersFindTheirPackage
<1>7. ServesWhatItLists(s, n) => r = latest
  BY DEF ServesWhatItLists
<1> HIDE DEF latest, r
<1> QED
  BY <1>4, <1>5, <1>6, <1>7

\* What the file of the latest row holds.
LEMMA LocalAnswers ==
    ASSUME TypeOK, NEW n \in Ids
    PROVE  \/ ResolveManifestById(n) = None
           \/ /\ ResolveManifestById(n) = Throws
              /\ \E row \in rows : stored[row.file] \notin Releases
           \/ \E row \in rows :
                 /\ row.id = n /\ stored[row.file] \in Releases
                 /\ ResolveManifestById(n) = Found(stored[row.file], Local)
                 /\ \A q \in OfPackage(n, rows) : q.version <= row.version
<1>1. CASE OfPackage(n, rows) = {}
  BY <1>1 DEF ResolveManifestById
<1>2. CASE OfPackage(n, rows) # {}
  <2>1. \A row \in rows : row.version \in Versions
    BY DEF TypeOK, Rows
  <2> DEFINE row == Latest(n, rows)
  <2>2. /\ row \in rows /\ row.id = n
        /\ \A q \in OfPackage(n, rows) : q.version <= row.version
    BY <1>2, <2>1, LatestIsLargest
  <2>3. ResolveManifestById(n) =
           IF stored[row.file] \in Releases THEN Found(stored[row.file], Local) ELSE Throws
    BY <1>2 DEF ResolveManifestById
  <2> QED
    BY <2>2, <2>3
<1> QED
  BY <1>1, <1>2

\* An answer to the name of a package in general.
Answers(n, a) ==
    \/ a = None
    \/ a = Throws /\ \E row \in rows : stored[row.file] \notin Releases
    \/ \E r \in Releases, s \in Sources \cup {Local} :
          a = Found(r, s) /\ (FindTheirs => r.id = n)

LEMMA AnywhereAnswers ==
    ASSUME TypeOK, NEW n \in Ids
    PROVE  Answers(n, ResolveManifestAnywhere(n))
<1> DEFINE mine == ResolveManifestById(n)
           having == {i \in DOMAIN sources : ResolveManifestFromSource(sources[i], n) # None}
           first == CHOOSE i \in having : \A j \in having : i <= j
<1>1. CASE mine # None
  <2>1. ResolveManifestAnywhere(n) = mine
    BY <1>1 DEF ResolveManifestAnywhere
  <2> QED
    BY <1>1, <2>1, LocalAnswers DEF Answers, FindTheirs, RowsFindTheirPackage
<1>2. CASE mine = None /\ having = {}
  <2>1. ResolveManifestAnywhere(n) = None
    BY <1>2 DEF ResolveManifestAnywhere
  <2> QED
    BY <2>1 DEF Answers
<1>3. CASE mine = None /\ having # {}
  <2>1. \A i \in DOMAIN sources : i \in Nat /\ sources[i] \in Sources
    BY LenProperties DEF TypeOK
  <2>2. \E i \in having : \A j \in having : i <= j
    BY <1>3, <2>1, SmallestExists
  <2>3. first \in having
    BY <2>2
  <2>4. ResolveManifestAnywhere(n) = ResolveManifestFromSource(sources[first], n)
    BY <1>3 DEF ResolveManifestAnywhere
  <2> HIDE DEF first
  <2>5. sources[first] \in Sources /\ ResolveManifestFromSource(sources[first], n) # None
    BY <2>1, <2>3
  <2> QED
    BY <2>4, <2>5, SourceAnswers DEF Answers, FindTheirs
<1> QED
  BY <1>1, <1>2, <1>3

LEMMA UpgradeAnswers ==
    ASSUME TypeOK, NEW n \in Ids
    PROVE  Answers(n, ResolveForUpgrade(n))
<1> DEFINE own == RecordedSource(n)
<1>1. CASE own # Local /\ own \in Registered /\ ResolveManifestFromSource(own, n) # None
  <2>1. own \in Sources
    BY <1>1, LenProperties DEF TypeOK, Registered
  <2> QED
    BY <1>1, <2>1, SourceAnswers DEF ResolveForUpgrade, Answers, FindTheirs
<1>2. CASE ~(own # Local /\ own \in Registered /\ ResolveManifestFromSource(own, n) # None)
  BY <1>2, AnywhereAnswers DEF ResolveForUpgrade
<1> QED
  BY <1>1, <1>2

-----------------------------------------------------------------------------
(* What install, upgrade and uninstall may come to *)

Healths == {"none", "leftover", "runs"}

\* An outcome keeps the types, and changes the records of the packages in who only.
Outcomes(S, who) ==
    \A o \in S :
        /\ o.health \in [Ids -> Healths]
        /\ o.record \in [Ids -> Records \cup {NoRecord}]
        /\ \A m \in Ids \ who : o.record[m] = record[m]

LEMMA DeliverOutcomes ==
    ASSUME TypeOK, NEW r \in Releases, NEW s \in Sources \cup {Local},
           NEW before \in [Ids -> Healths]
    PROVE  /\ Outcomes(Deliver(Found(r, s), before), {r.id})
           /\ \A o \in Deliver(Found(r, s), before) :
                 \/ o.record[r.id] = record[r.id]
                 \/ o.record[r.id] # NoRecord /\ o.record[r.id].version = 0
                 \/ o.record[r.id] = [version |-> r.version, source |-> s]
<1> SUFFICES ASSUME NEW o \in Deliver(Found(r, s), before)
             PROVE  /\ o.health \in [Ids -> Healths]
                    /\ o.record \in [Ids -> Records \cup {NoRecord}]
                    /\ \A m \in Ids \ {r.id} : o.record[m] = record[m]
                    /\ \/ o.record[r.id] = record[r.id]
                       \/ o.record[r.id] # NoRecord /\ o.record[r.id].version = 0
                       \/ o.record[r.id] = [version |-> r.version, source |-> s]
  BY DEF Outcomes
<1>1. r.id \in Ids /\ r.version \in Versions
  BY DEF Releases
<1>2. record \in [Ids -> Records \cup {NoRecord}]
  BY DEF TypeOK
<1> DEFINE marks == {record, Mark(r.id, r.version, s), Mark(r.id, 0, Local)}
<1>3. PICK h \in Healths, m \in marks, rc \in {"ok", "unrecorded", "failed", "stopped"} :
         o = Outcome(rc, [before EXCEPT ![r.id] = h], m)
  BY <1>1 DEF Deliver, When, Found, Healths
<1>4. [version |-> r.version, source |-> s] \in Records /\ [version |-> 0, source |-> Local] \in Records
  BY <1>1 DEF Records
<1>5. /\ m \in [Ids -> Records \cup {NoRecord}]
      /\ \A k \in Ids \ {r.id} : m[k] = record[k]
  BY <1>1, <1>2, <1>4 DEF Mark
<1>6. \/ m[r.id] = record[r.id]
      \/ m[r.id] = [version |-> 0, source |-> Local]
      \/ m[r.id] = [version |-> r.version, source |-> s]
  BY <1>1, <1>2 DEF Mark
<1>7. o.health = [before EXCEPT ![r.id] = h] /\ o.record = m /\ o.rc = rc
  BY <1>3 DEF Outcome
<1> QED
  BY <1>1, <1>4, <1>5, <1>6, <1>7, SentinelAssumption

LEMMA InstallOutcomes ==
    ASSUME TypeOK, NEW n \in Ids
    PROVE  Outcomes(Install(n), Ids)
<1> DEFINE a == ResolveManifestAnywhere(n)
           Cleaned(h) ==
              IF record[n] = NoRecord /\ health[n] # "none" THEN [health EXCEPT ![n] = h] ELSE health
           cleaned == Cleaned("none")
           half == Cleaned("leftover")
<1>1. /\ cleaned \in [Ids -> Healths] /\ half \in [Ids -> Healths]
      /\ health \in [Ids -> Healths] /\ record \in [Ids -> Records \cup {NoRecord}]
  BY DEF TypeOK, Healths
<1> SUFFICES ASSUME NEW o \in Install(n)
             PROVE  /\ o.health \in [Ids -> Healths]
                    /\ o.record \in [Ids -> Records \cup {NoRecord}]
  BY DEF Outcomes
<1>2. \/ \E rc \in {"not_found", "stopped", "unsupported"}, h \in {health, half, cleaned} :
            o = Outcome(rc, h, record)
      \/ a.kind = "found" /\ o \in Deliver(a, cleaned)
  BY AnywhereAnswers DEF Install, When, Answers, None, Throws, Found
<1> HIDE DEF cleaned, half
<1>3. CASE a.kind = "found" /\ o \in Deliver(a, cleaned)
  <2>1. PICK r \in Releases, s \in Sources \cup {Local} : a = Found(r, s)
    BY <1>3, AnywhereAnswers DEF Answers, None, Throws
  <2>2. o \in Deliver(Found(r, s), cleaned)
    BY <1>3, <2>1
  <2>3. Outcomes(Deliver(Found(r, s), cleaned), {r.id})
    BY <1>1, DeliverOutcomes
  <2> QED
    BY <2>2, <2>3 DEF Outcomes
<1> QED
  BY <1>1, <1>2, <1>3 DEF Outcome

\* An upgrade changes the record of one package, the one that was found.
LEMMA UpgradeOutcomes ==
    ASSUME TypeOK, NEW n \in Ids, NEW o \in Upgrade(n)
    PROVE  /\ o.health \in [Ids -> Healths]
           /\ o.record \in [Ids -> Records \cup {NoRecord}]
           /\ \/ o.record = record
              \/ \E r \in Releases, s \in Sources \cup {Local} :
                    /\ ResolveForUpgrade(n) = Found(r, s)
                    /\ \A m \in Ids \ {r.id} : o.record[m] = record[m]
                    /\ \/ o.record[r.id] = record[r.id]
                       \/ o.record[r.id] # NoRecord /\ o.record[r.id].version = 0
                       \/ o.record[r.id] = [version |-> r.version, source |-> s]
<1> DEFINE a == ResolveForUpgrade(n)
           removed == [health EXCEPT ![a.release.id] = "none"]
<1>1. health \in [Ids -> Healths] /\ record \in [Ids -> Records \cup {NoRecord}]
  BY DEF TypeOK, Healths
<1>2. \/ \E rc \in {"ok", "not_found", "stopped", "unsupported", "not_installed"} :
            o = Outcome(rc, health, record)
      \/ a.kind = "found" /\ o \in Deliver(a, removed)
  BY UpgradeAnswers DEF Upgrade, Nothing, When, Answers, None, Throws, Found
<1>3. CASE \E rc \in {"ok", "not_found", "stopped", "unsupported", "not_installed"} :
              o = Outcome(rc, health, record)
  BY <1>1, <1>3 DEF Outcome
<1>4. CASE a.kind = "found" /\ o \in Deliver(a, removed)
  <2>1. PICK r \in Releases, s \in Sources \cup {Local} : a = Found(r, s)
    BY <1>4, UpgradeAnswers DEF Answers, None, Throws
  <2>2. removed \in [Ids -> Healths]
    BY <1>1 DEF Healths
  <2> HIDE DEF removed
  <2>3. o \in Deliver(Found(r, s), removed)
    BY <1>4, <2>1
  <2>4. Outcomes(Deliver(Found(r, s), removed), {r.id})
    BY <2>2, DeliverOutcomes
  <2>5. \/ o.record[r.id] = record[r.id]
        \/ o.record[r.id] # NoRecord /\ o.record[r.id].version = 0
        \/ o.record[r.id] = [version |-> r.version, source |-> s]
    BY <2>2, <2>3, DeliverOutcomes
  <2>6. /\ o.health \in [Ids -> Healths]
        /\ o.record \in [Ids -> Records \cup {NoRecord}]
        /\ \A m \in Ids \ {r.id} : o.record[m] = record[m]
    BY <2>3, <2>4 DEF Outcomes
  <2> QED
    BY <2>1, <2>5, <2>6
<1> QED
  BY <1>2, <1>3, <1>4

LEMMA UninstallOutcomes ==
    ASSUME TypeOK, NEW n \in Ids
    PROVE  Outcomes(Uninstall(n), Ids)
<1>1. health \in [Ids -> Healths] /\ record \in [Ids -> Records \cup {NoRecord}]
  BY DEF TypeOK, Healths
<1> SUFFICES ASSUME NEW o \in Uninstall(n)
             PROVE  /\ o.health \in [Ids -> Healths]
                    /\ o.record \in [Ids -> Records \cup {NoRecord}]
  BY DEF Outcomes
<1>2. \E rc \in {"not_installed", "not_found", "stopped", "ok"},
         h \in {health, [health EXCEPT ![n] = "none"], [health EXCEPT ![n] = "leftover"]},
         m \in {record, [record EXCEPT ![n] = NoRecord]} : o = Outcome(rc, h, m)
  BY DEF Uninstall, Nothing, When
<1> QED
  BY <1>1, <1>2 DEF Outcome, Healths

-----------------------------------------------------------------------------
(* Type correctness, group of variables by group *)

CatalogsTyped ==
    /\ rows \in SUBSET Rows
    /\ stored \in [Files -> Releases \cup {NoFile, Unreadable}]
    /\ indexing \in SUBSET Files

SourcesTyped ==
    /\ sources \in Seq(Sources)
    /\ \A i, j \in DOMAIN sources : sources[i] = sources[j] => i = j
    /\ snapshot \in [Sources -> SUBSET Releases]
    /\ published \in [Sources -> [Paths -> Releases \cup {NoFile}]]
    /\ online \in SUBSET Sources

PackagesTyped ==
    /\ health \in [Ids -> Healths]
    /\ record \in [Ids -> Records \cup {NoRecord}]
    /\ pinned \in SUBSET Ids

LoopTyped ==
    /\ exported \in SUBSET Entries
    /\ batch \in [kind : {"idle", "upgrade", "import"}, left : SUBSET Entries,
                  ok : SUBSET Ids, failed : SUBSET Ids, quiet : BOOLEAN]
    /\ events \in 0..Patience

LEMMA TypeParts == TypeOK <=> CatalogsTyped /\ SourcesTyped /\ PackagesTyped /\ LoopTyped
BY DEF TypeOK, CatalogsTyped, SourcesTyped, PackagesTyped, LoopTyped, Healths

\* What a server lists are releases.
LEMMA ListsReleases ==
    ASSUME published \in [Sources -> [Paths -> Releases \cup {NoFile}]], NEW s \in Sources
    PROVE  Listing(s) \subseteq Releases
BY DEF Listing

LEMMA InitTyped == Init => TypeOK
<1> SUFFICES ASSUME Init PROVE TypeOK
  OBVIOUS
<1>1. CatalogsTyped
  BY DEF Init, CatalogsTyped
<1>2. published \in [Sources -> [Paths -> Releases \cup {NoFile}]]
  BY PublishAssumption DEF Init
<1>3. SourcesTyped
  <2>1. \A s \in Sources : Listing(s) \subseteq Releases
    BY <1>2, ListsReleases
  <2> QED
    BY <1>2, <2>1, FirstAssumption DEF Init, SourcesTyped
<1>4. PackagesTyped
  BY FirstAssumption DEF Init, PackagesTyped, Healths
<1>5. LoopTyped
  BY FirstAssumption, EnvironmentAssumption DEF Init, LoopTyped, Idle
<1> QED
  BY <1>1, <1>3, <1>4, <1>5, TypeParts

\* Adding a source keeps each of them at one place.
LEMMA AddKeepsSources ==
    ASSUME SourcesTyped, NEW s \in Sources, s \notin Registered,
           sources' = Append(sources, s)
    PROVE  /\ sources' \in Seq(Sources)
           /\ \A i, j \in DOMAIN sources' : sources'[i] = sources'[j] => i = j
<1> USE DEF SourcesTyped
<1>1. /\ sources' \in Seq(Sources) /\ Len(sources') = Len(sources) + 1
      /\ \A i \in 1..Len(sources) : sources'[i] = sources[i]
      /\ sources'[Len(sources) + 1] = s
  BY AppendProperties
<1>2. /\ Len(sources) \in Nat /\ DOMAIN sources = 1..Len(sources)
      /\ DOMAIN sources' = 1..Len(sources) + 1
  BY <1>1, LenProperties
<1>3. \A i \in DOMAIN sources : sources[i] # s
  BY DEF Registered
<1> QED
  BY <1>1, <1>2, <1>3

\* sources.list without its k-th line.
Without(S, k) == SubSeq(S, 1, k - 1) \o SubSeq(S, k + 1, Len(S))

LEMMA WithoutProperties ==
    ASSUME NEW T, NEW S \in Seq(T), NEW k \in 1..Len(S)
    PROVE  /\ Without(S, k) \in Seq(T)
           /\ Len(Without(S, k)) = Len(S) - 1
           /\ \A i \in 1..Len(S) - 1 : Without(S, k)[i] = IF i < k THEN S[i] ELSE S[i + 1]
<1> DEFINE n == Len(S)
           before == SubSeq(S, 1, k - 1)
           behind == SubSeq(S, k + 1, n)
<1>1. n \in Nat /\ k \in 1..n /\ \A i \in 1..n : S[i] \in T
  BY LenProperties
<1>2. /\ before \in Seq(T) /\ Len(before) = k - 1
      /\ \A i \in 1..k - 1 : before[i] = S[i]
  <2>1. \A i \in 1..k - 1 : S[i] \in T
    BY <1>1
  <2> QED
    BY <1>1, <2>1, SubSeqProperties
<1>3. /\ behind \in Seq(T) /\ Len(behind) = n - k
      /\ \A i \in 1..n - k : behind[i] = S[k + i]
  <2> HIDE DEF n
  <2>1. \A i \in k + 1..n : S[i] \in T
    BY <1>1
  <2>2. /\ behind \in Seq(T) /\ Len(behind) = IF k + 1 <= n THEN n - (k + 1) + 1 ELSE 0
        /\ \A i \in 1..n - (k + 1) + 1 : behind[i] = S[k + 1 + i - 1]
    BY <1>1, <2>1, SubSeqProperties
  <2> HIDE DEF behind
  <2>3. Len(behind) = n - k
    BY <1>1, <2>2
  <2>4. \A i \in 1..n - k : behind[i] = S[k + i]
    <3> SUFFICES ASSUME NEW i \in 1..n - k PROVE behind[i] = S[k + i]
      OBVIOUS
    <3>1. i \in 1..n - (k + 1) + 1 /\ k + 1 + i - 1 = k + i
      BY <1>1
    <3> QED
      BY <2>2, <3>1
  <2> QED
    BY <2>2, <2>3, <2>4
<1> DEFINE R == Without(S, k)
<1>4. R = before \o behind
  BY DEF Without
<1> HIDE DEF n, before, behind, R
<1>5. /\ R \in Seq(T) /\ Len(R) = Len(before) + Len(behind)
      /\ \A i \in 1..Len(before) + Len(behind) :
            R[i] = IF i <= Len(before) THEN before[i] ELSE behind[i - Len(before)]
  <2>1. /\ before \o behind \in Seq(T)
        /\ Len(before \o behind) = Len(before) + Len(behind)
        /\ \A i \in 1..Len(before) + Len(behind) :
              (before \o behind)[i] = IF i <= Len(before) THEN before[i] ELSE behind[i - Len(before)]
    BY <1>2, <1>3, ConcatProperties
  <2> QED
    BY <1>4, <2>1
<1>6. Len(before) + Len(behind) = n - 1
  BY <1>1, <1>2, <1>3
<1>7. ASSUME NEW i \in 1..n - 1 PROVE R[i] = IF i < k THEN S[i] ELSE S[i + 1]
  <2>1. R[i] = IF i <= k - 1 THEN before[i] ELSE behind[i - (k - 1)]
    BY <1>2, <1>5, <1>6
  <2>2. CASE i < k
    <3>1. i \in 1..k - 1 /\ i <= k - 1
      BY <1>1, <2>2
    <3> QED
      BY <1>2, <2>1, <2>2, <3>1
  <2>3. CASE ~(i < k)
    <3>1. i - (k - 1) \in 1..n - k /\ k + (i - (k - 1)) = i + 1 /\ ~(i <= k - 1)
      BY <1>1, <2>3
    <3> QED
      BY <1>3, <2>1, <2>3, <3>1
  <2> QED
    BY <2>2, <2>3
<1> QED
  BY <1>5, <1>6, <1>7 DEF n, R

LEMMA WithoutKeepsDistinct ==
    ASSUME NEW T, NEW S \in Seq(T), NEW k \in 1..Len(S),
           \A i, j \in 1..Len(S) : S[i] = S[j] => i = j
    PROVE  /\ Without(S, k) \in Seq(T)
           /\ \A i, j \in DOMAIN Without(S, k) : Without(S, k)[i] = Without(S, k)[j] => i = j
<1> DEFINE n == Len(S)
           R == Without(S, k)
<1>1. /\ R \in Seq(T) /\ Len(R) = n - 1
      /\ \A i \in 1..n - 1 : R[i] = IF i < k THEN S[i] ELSE S[i + 1]
  BY WithoutProperties
<1>2. n \in Nat /\ k \in 1..n
  BY LenProperties
<1>3. \A i, j \in 1..n : S[i] = S[j] => i = j
  OBVIOUS
<1> HIDE DEF n, R
<1>4. DOMAIN R = 1..n - 1
  BY <1>1, LenProperties
<1>5. ASSUME NEW i \in 1..n - 1, NEW j \in 1..n - 1, R[i] = R[j] PROVE i = j
  <2>1. i \in 1..n /\ j \in 1..n /\ i + 1 \in 1..n /\ j + 1 \in 1..n
    BY <1>2
  <2>2. (IF i < k THEN S[i] ELSE S[i + 1]) = (IF j < k THEN S[j] ELSE S[j + 1])
    BY <1>1, <1>5
  <2>3. (IF i < k THEN i ELSE i + 1) = (IF j < k THEN j ELSE j + 1)
    BY <1>3, <2>1, <2>2
  <2> QED
    BY <1>2, <2>3
<1> QED
  BY <1>1, <1>4, <1>5 DEF R

\* Removing a source keeps each of the others at one place.
LEMMA RemoveKeepsSources ==
    ASSUME SourcesTyped, NEW k \in DOMAIN sources
    PROVE  /\ Without(sources, k) \in Seq(Sources)
           /\ \A i, j \in DOMAIN Without(sources, k) :
                 Without(sources, k)[i] = Without(sources, k)[j] => i = j
<1>1. sources \in Seq(Sources) /\ \A i, j \in DOMAIN sources : sources[i] = sources[j] => i = j
  BY DEF SourcesTyped
<1>2. DOMAIN sources = 1..Len(sources)
  BY <1>1, LenProperties
<1>3. k \in 1..Len(sources)
  BY <1>2
<1>4. \A i, j \in 1..Len(sources) : sources[i] = sources[j] => i = j
  BY <1>1, <1>2
<1> QED
  BY <1>1, <1>3, <1>4, WithoutKeepsDistinct

\* The commands of one step, whose loop stays the one it was, but not quiet.
LEMMA CommandKeepsLoop ==
    ASSUME LoopTyped, Meanwhile, exported' = exported,
           Event \/ events' = events
    PROVE  LoopTyped'
<1>1. events' \in 0..Patience
  BY EnvironmentAssumption DEF LoopTyped, Event
<1>2. batch' \in [kind : {"idle", "upgrade", "import"}, left : SUBSET Entries,
                  ok : SUBSET Ids, failed : SUBSET Ids, quiet : BOOLEAN]
  BY DEF LoopTyped, Meanwhile
<1> QED
  BY <1>1, <1>2 DEF LoopTyped

LEMMA BeginTyped ==
    ASSUME LoopTyped, NEW kind \in {"upgrade", "import"}, NEW entries \in SUBSET Entries,
           Begin(kind, entries)
    PROVE  LoopTyped'
BY EnvironmentAssumption DEF LoopTyped, Begin, Event

LEMMA TallyTyped ==
    ASSUME LoopTyped, NEW e \in batch.left, NEW rc, NEW kept \in BOOLEAN, Tally(e, rc, kept),
           exported' = exported, events' = events
    PROVE  LoopTyped'
<1>1. e.id \in Ids
  BY DEF LoopTyped, Entries
<1> QED
  BY <1>1 DEF LoopTyped, Tally, Idle

LEMMA PackageCommandTyped ==
    ASSUME TypeOK, NEW n \in Ids,
           InstallCommand(n) \/ UninstallCommand(n) \/ InstallUrl(n)
    PROVE  PackagesTyped' /\ LoopTyped'
<1>1. LoopTyped /\ PackagesTyped
  BY TypeParts
<1>2. LoopTyped'
  BY <1>1, CommandKeepsLoop DEF InstallCommand, UninstallCommand, InstallUrl
<1>3. pinned' = pinned
  BY DEF InstallCommand, UninstallCommand, InstallUrl
<1>4. \E S, who : Outcomes(S, who) /\ \E o \in S : Becomes(o)
  <2>1. CASE InstallCommand(n)
    <3>1. Outcomes(Install(n), Ids)
      BY InstallOutcomes
    <3>2. \E o \in Install(n) : Becomes(o)
      BY <2>1 DEF InstallCommand
    <3> QED
      BY <3>1, <3>2
  <2>2. CASE UninstallCommand(n)
    BY <2>2, UninstallOutcomes DEF UninstallCommand
  <2>3. CASE InstallUrl(n)
    <3>1. PICK v \in Versions :
             \E o \in Deliver(Found([id |-> n, version |-> v], Local), health) : Becomes(o)
      BY <2>3 DEF InstallUrl
    <3> DEFINE r == [id |-> n, version |-> v]
    <3>2. r \in Releases
      BY DEF Releases
    <3>3. health \in [Ids -> Healths]
      BY <1>1 DEF PackagesTyped
    <3> HIDE DEF r
    <3>4. Outcomes(Deliver(Found(r, Local), health), {r.id})
      BY <3>2, <3>3, DeliverOutcomes
    <3> QED
      BY <3>1, <3>4 DEF r
  <2> QED
    BY <2>1, <2>2, <2>3
<1>5. PICK S, who : Outcomes(S, who) /\ \E o \in S : Becomes(o)
  BY <1>4
<1>6. health' \in [Ids -> Healths] /\ record' \in [Ids -> Records \cup {NoRecord}]
  BY <1>5 DEF Outcomes, Becomes
<1> QED
  BY <1>1, <1>2, <1>3, <1>6 DEF PackagesTyped

LEMMA PinExportTyped ==
    ASSUME TypeOK,
           Export \/ \E n \in Ids : Pin(n) \/ Unpin(n)
    PROVE  PackagesTyped' /\ LoopTyped'
<1>1. LoopTyped /\ PackagesTyped
  BY TypeParts
<1>2. CASE Export
  <2>1. exported' \in SUBSET Entries
    <3> DEFINE copy == {[id |-> n, pinned |-> n \in pinned] :
                           n \in {m \in ScanInstalled : record[m] # NoRecord}}
    <3>1. \A n \in Ids : [id |-> n, pinned |-> n \in pinned] \in Entries
      <4> SUFFICES ASSUME NEW n \in Ids PROVE [id |-> n, pinned |-> n \in pinned] \in Entries
        OBVIOUS
      <4> DEFINE b == n \in pinned
      <4>1. b \in BOOLEAN
        OBVIOUS
      <4> HIDE DEF b
      <4>2. [id |-> n, pinned |-> b] \in Entries
        BY <4>1 DEF Entries
      <4> QED
        BY <4>2 DEF b
    <3>2. exported' \in {copy, exported, {}}
      BY <1>2 DEF Export, When
    <3>3. {m \in ScanInstalled : record[m] # NoRecord} \subseteq Ids
      BY DEF ScanInstalled
    <3>4. copy \subseteq Entries
      BY <3>1, <3>3
    <3> HIDE DEF copy
    <3> QED
      BY <1>1, <3>2, <3>4 DEF LoopTyped
  <2>2. PackagesTyped'
    BY <1>1, <1>2 DEF Export, packages, PackagesTyped
  <2>3. events' \in 0..Patience
    BY <1>1, <1>2, EnvironmentAssumption DEF LoopTyped, Event, Export
  <2>4. batch' \in [kind : {"idle", "upgrade", "import"}, left : SUBSET Entries,
                    ok : SUBSET Ids, failed : SUBSET Ids, quiet : BOOLEAN]
    BY <1>1, <1>2 DEF LoopTyped, Meanwhile, Export
  <2> QED
    BY <2>1, <2>2, <2>3, <2>4 DEF LoopTyped
<1>3. ASSUME NEW n \in Ids, Pin(n) \/ Unpin(n) PROVE PackagesTyped' /\ LoopTyped'
  <2>1. LoopTyped'
    BY <1>1, <1>3, CommandKeepsLoop DEF Pin, Unpin
  <2> QED
    BY <1>1, <1>3, <2>1 DEF Pin, Unpin, CmdPin, When, PackagesTyped
<1> QED
  BY <1>2, <1>3

LEMMA LoopStepTyped ==
    ASSUME TypeOK,
           \/ UpgradeAll \/ Import \/ Finish
           \/ \E n \in Ids : UpgradeOne(n)
           \/ \E e \in batch.left : VisitForUpgrade(e) \/ VisitForImport(e)
    PROVE  PackagesTyped' /\ LoopTyped'
<1>1. LoopTyped /\ PackagesTyped
  BY TypeParts
<1>2. ASSUME NEW ids, ids \subseteq Ids PROVE ToUpgrade(ids) \in SUBSET Entries
  <2>1. \A n \in ids : [id |-> n, pinned |-> FALSE] \in Entries
    BY <1>2 DEF Entries
  <2> QED
    BY <2>1 DEF ToUpgrade
<1>3. CASE UpgradeAll
  <2>1. PackagesTyped'
    BY <1>1, <1>3 DEF UpgradeAll, Begin, packages, PackagesTyped
  <2>2. ToUpgrade(ScanInstalled) \in SUBSET Entries
    BY <1>2 DEF ScanInstalled
  <2> QED
    BY <1>1, <1>3, <2>1, <2>2, BeginTyped DEF UpgradeAll
<1>4. ASSUME NEW n \in Ids, UpgradeOne(n) PROVE PackagesTyped' /\ LoopTyped'
  <2>1. PackagesTyped'
    BY <1>1, <1>4 DEF UpgradeOne, Begin, packages, PackagesTyped
  <2>2. ToUpgrade({n}) \in SUBSET Entries
    BY <1>2
  <2> QED
    BY <1>1, <1>4, <2>1, <2>2, BeginTyped DEF UpgradeOne
<1>5. CASE Import
  <2>1. PackagesTyped'
    BY <1>1, <1>5 DEF Import, Begin, packages, PackagesTyped
  <2>2. exported \in SUBSET Entries
    BY <1>1 DEF LoopTyped
  <2> QED
    BY <1>1, <1>5, <2>1, <2>2, BeginTyped DEF Import
<1>6. CASE Finish
  BY <1>1, <1>6 DEF Finish, packages, PackagesTyped, LoopTyped, Idle
<1>7. ASSUME NEW e \in batch.left, VisitForUpgrade(e) PROVE PackagesTyped' /\ LoopTyped'
  <2>1. e.id \in Ids
    BY <1>1 DEF LoopTyped, Entries
  <2>2. PICK o \in Upgrade(e.id) : Becomes(o) /\ Tally(e, o.rc, TRUE)
    BY <1>7 DEF VisitForUpgrade
  <2>3. o.health \in [Ids -> Healths] /\ o.record \in [Ids -> Records \cup {NoRecord}]
    BY <2>1, UpgradeOutcomes
  <2>4. PackagesTyped'
    BY <1>1, <1>7, <2>2, <2>3 DEF VisitForUpgrade, PackagesTyped, Becomes
  <2>5. exported' = exported /\ events' = events
    BY <1>7 DEF VisitForUpgrade
  <2> QED
    BY <1>1, <2>2, <2>4, <2>5, TallyTyped
<1>8. ASSUME NEW e \in batch.left, VisitForImport(e) PROVE PackagesTyped' /\ LoopTyped'
  <2>1. e.id \in Ids
    BY <1>1 DEF LoopTyped, Entries
  <2>2. PICK o \in Install(e.id) :
           /\ Becomes(o) /\ \E kept \in BOOLEAN : Tally(e, o.rc, kept)
           /\ pinned' \in {pinned, pinned \cup {e.id}}
    BY <1>8 DEF VisitForImport, CmdPin, When
  <2>3. o.health \in [Ids -> Healths] /\ o.record \in [Ids -> Records \cup {NoRecord}]
    BY <2>1, InstallOutcomes DEF Outcomes
  <2>4. PackagesTyped'
    BY <1>1, <2>1, <2>2, <2>3 DEF PackagesTyped, Becomes
  <2>5. exported' = exported /\ events' = events
    BY <1>8 DEF VisitForImport
  <2> QED
    BY <1>1, <2>2, <2>4, <2>5, TallyTyped
<1> QED
  BY <1>3, <1>4, <1>5, <1>6, <1>7, <1>8

\* index and the kill of one.
LEMMA IndexTyped ==
    ASSUME TypeOK,
           \/ \E r \in Releases : \E f \in FileNames[r] : StageManifest(r, f)
           \/ \E f \in Files : AddManifest(f) \/ KillIndex(f)
    PROVE  CatalogsTyped' /\ LoopTyped' /\ UNCHANGED <<remote, packages>>
<1>1. LoopTyped /\ CatalogsTyped
  BY TypeParts
<1>2. ASSUME NEW r \in Releases, NEW f \in FileNames[r], StageManifest(r, f)
      PROVE  CatalogsTyped' /\ LoopTyped' /\ UNCHANGED <<remote, packages>>
  <2>1. f \in Files
    BY FileNamesAssumption
  <2>2. UNCHANGED <<rows, remote, packages>> /\ exported' = exported /\ Event /\ Meanwhile
    BY <1>2 DEF StageManifest
  <2>3. /\ stored' \in [Files -> Releases \cup {NoFile, Unreadable}]
        /\ indexing' \in SUBSET Files
    BY <1>1, <1>2, <2>1 DEF StageManifest, CatalogsTyped
  <2> QED
    BY <1>1, <2>2, <2>3, CommandKeepsLoop DEF CatalogsTyped
<1>3. ASSUME NEW f \in Files, AddManifest(f)
      PROVE  CatalogsTyped' /\ LoopTyped' /\ UNCHANGED <<remote, packages>>
  <2>1. /\ UNCHANGED <<stored, remote, packages>> /\ exported' = exported /\ events' = events
        /\ Meanwhile /\ indexing' = indexing \ {f}
    BY <1>3 DEF AddManifest
  <2>2. \/ rows' = rows
        \/ /\ stored[f] \in Releases
           /\ rows' = rows \cup {[id |-> stored[f].id, version |-> stored[f].version, file |-> f]}
    BY <1>3 DEF AddManifest
  <2>3. stored[f] \in Releases =>
           [id |-> stored[f].id, version |-> stored[f].version, file |-> f] \in Rows
    BY DEF Releases, Rows
  <2>4. CatalogsTyped'
    BY <1>1, <2>1, <2>2, <2>3 DEF CatalogsTyped
  <2> QED
    BY <1>1, <2>1, <2>4, CommandKeepsLoop
<1>4. ASSUME NEW f \in Files, KillIndex(f)
      PROVE  CatalogsTyped' /\ LoopTyped' /\ UNCHANGED <<remote, packages>>
  BY <1>1, <1>4, CommandKeepsLoop DEF KillIndex, CatalogsTyped
<1> QED
  BY <1>2, <1>3, <1>4

\* The source commands and the servers.
LEMMA SourceStepTyped ==
    ASSUME TypeOK, NEW s \in Sources,
           \/ SourceAdd(s) \/ SourceUpdate(s) \/ SourceRemove(s) \/ Reachability(s)
           \/ \E r \in MayPublish[s] : Publish(s, r)
    PROVE  SourcesTyped' /\ LoopTyped' /\ UNCHANGED <<local, packages>>
<1>1. LoopTyped /\ SourcesTyped
  BY TypeParts
<1>2. UNCHANGED <<local, packages>> /\ exported' = exported /\ Event /\ Meanwhile
  BY DEF SourceAdd, SourceUpdate, SourceRemove, Reachability, Publish
<1>3. LoopTyped'
  BY <1>1, <1>2, CommandKeepsLoop
<1>4. CASE SourceAdd(s)
  <2>1. /\ sources' \in Seq(Sources)
        /\ \A i, j \in DOMAIN sources' : sources'[i] = sources'[j] => i = j
    BY <1>1, <1>4, AddKeepsSources DEF SourceAdd
  <2>2. /\ snapshot' \in [Sources -> SUBSET Releases]
        /\ published' \in [Sources -> [Paths -> Releases \cup {NoFile}]]
        /\ online' \in SUBSET Sources
    BY <1>1, <1>4, ListsReleases DEF SourceAdd, SourcesTyped
  <2> QED
    BY <1>2, <1>3, <2>1, <2>2 DEF SourcesTyped
<1>5. CASE SourceUpdate(s)
  BY <1>1, <1>2, <1>3, <1>5, ListsReleases DEF SourceUpdate, SourcesTyped
<1>6. CASE SourceRemove(s)
  <2>1. PICK k \in DOMAIN sources : sources' = Without(sources, k)
    BY <1>6 DEF SourceRemove, Without
  <2>2. /\ sources' \in Seq(Sources)
        /\ \A i, j \in DOMAIN sources' : sources'[i] = sources'[j] => i = j
    BY <1>1, <2>1, RemoveKeepsSources
  <2>3. /\ snapshot' \in [Sources -> SUBSET Releases]
        /\ published' \in [Sources -> [Paths -> Releases \cup {NoFile}]]
        /\ online' \in SUBSET Sources
    BY <1>1, <1>6 DEF SourceRemove, SourcesTyped
  <2> QED
    BY <1>2, <1>3, <2>2, <2>3 DEF SourcesTyped
<1>7. CASE Reachability(s)
  BY <1>1, <1>2, <1>3, <1>7 DEF Reachability, SourcesTyped
<1>8. ASSUME NEW r \in MayPublish[s], Publish(s, r)
      PROVE  SourcesTyped' /\ LoopTyped' /\ UNCHANGED <<local, packages>>
  <2>1. r \in Releases /\ PathOf[s][r] \in Paths
    BY PublishAssumption
  <2>2. published' \in [Sources -> [Paths -> Releases \cup {NoFile}]]
    <3>1. PICK c \in {r, NoFile} : published' = [published EXCEPT ![s][PathOf[s][r]] = c]
      BY <1>8 DEF Publish
    <3> QED
      BY <1>1, <2>1, <3>1 DEF SourcesTyped
  <2> QED
    BY <1>1, <1>2, <1>3, <1>8, <2>2 DEF Publish, SourcesTyped
<1> QED
  BY <1>4, <1>5, <1>6, <1>7, <1>8

LEMMA NextTyped == TypeOK /\ [Next]_vars => TypeOK'
<1> SUFFICES ASSUME TypeOK, [Next]_vars PROVE CatalogsTyped' /\ SourcesTyped' /\ PackagesTyped' /\ LoopTyped'
  BY TypeParts DEF TypeOK, CatalogsTyped, SourcesTyped, PackagesTyped, LoopTyped, Healths
<1>1. CatalogsTyped /\ SourcesTyped /\ PackagesTyped /\ LoopTyped
  BY TypeParts
<1>2. UNCHANGED local => CatalogsTyped'
  BY <1>1 DEF local, CatalogsTyped
<1>3. UNCHANGED remote => SourcesTyped'
  BY <1>1 DEF remote, SourcesTyped
<1>4. UNCHANGED packages => PackagesTyped'
  BY <1>1 DEF packages, PackagesTyped
<1>5. ASSUME NEW n \in Ids, InstallCommand(n) \/ UninstallCommand(n) \/ InstallUrl(n)
      PROVE  UNCHANGED <<local, remote>> /\ PackagesTyped' /\ LoopTyped'
  <2>1. UNCHANGED <<local, remote>>
    BY <1>5 DEF InstallCommand, UninstallCommand, InstallUrl
  <2> QED
    BY <1>5, <2>1, PackageCommandTyped
<1>6. ASSUME Export \/ \E n \in Ids : Pin(n) \/ Unpin(n)
      PROVE  UNCHANGED <<local, remote>> /\ PackagesTyped' /\ LoopTyped'
  <2>1. UNCHANGED <<local, remote>>
    BY <1>6 DEF Export, Pin, Unpin
  <2> QED
    BY <1>6, <2>1, PinExportTyped
<1>7. ASSUME \/ UpgradeAll \/ Import \/ Finish
             \/ \E n \in Ids : UpgradeOne(n)
             \/ \E e \in batch.left : VisitForUpgrade(e) \/ VisitForImport(e)
      PROVE  UNCHANGED <<local, remote>> /\ PackagesTyped' /\ LoopTyped'
  <2>1. UNCHANGED <<local, remote>>
    BY <1>7 DEF UpgradeAll, Import, Finish, UpgradeOne, Begin, VisitForUpgrade, VisitForImport
  <2> QED
    BY <1>7, <2>1, LoopStepTyped
<1>8. ASSUME \/ \E r \in Releases : \E f \in FileNames[r] : StageManifest(r, f)
             \/ \E f \in Files : AddManifest(f) \/ KillIndex(f)
      PROVE  CatalogsTyped' /\ LoopTyped' /\ UNCHANGED <<remote, packages>>
  BY <1>8, IndexTyped
<1>9. ASSUME NEW s \in Sources,
             \/ SourceAdd(s) \/ SourceUpdate(s) \/ SourceRemove(s) \/ Reachability(s)
             \/ \E r \in MayPublish[s] : Publish(s, r)
      PROVE  SourcesTyped' /\ LoopTyped' /\ UNCHANGED <<local, packages>>
  BY <1>9, SourceStepTyped
<1>10. CASE UNCHANGED vars
  BY <1>1, <1>10 DEF vars, CatalogsTyped, SourcesTyped, PackagesTyped, LoopTyped
<1> QED
  BY <1>2, <1>3, <1>4, <1>5, <1>6, <1>7, <1>8, <1>9, <1>10 DEF Next

\* Every variable keeps its type, and no sequence of source commands registers
\* a source twice.
THEOREM CatalogsTypeOK == Spec => []TypeOK
BY InitTyped, NextTyped, PTL DEF Spec

-----------------------------------------------------------------------------
(* What an upgrade writes *)

\* Only a visit takes packages from the list and writes a record, that of the
\* package it visits.
LEMMA ReplacedByWhatWasFound ==
    ASSUME TypeOK, FindTheirs, [Next]_vars, NEW n \in Ids, Replaced(n)
    PROVE  \E r \in Releases, s \in Sources \cup {Local} :
              /\ ResolveForUpgrade(n) = Found(r, s)
              /\ record'[n] = [version |-> r.version, source |-> s]
<1>1. /\ batch.kind = "upgrade" /\ batch.left \ batch'.left # {}
      /\ record'[n] # record[n] /\ record'[n].version # 0
  BY DEF Replaced
<1>2. ASSUME Meanwhile PROVE FALSE
  BY <1>1, <1>2 DEF Meanwhile, TypeOK
<1>3. \E e \in batch.left : VisitForUpgrade(e)
  <2>1. ~UNCHANGED record
    BY <1>1
  <2>2. ASSUME NEW m \in Ids,
               \/ InstallCommand(m) \/ UninstallCommand(m) \/ InstallUrl(m)
               \/ Pin(m) \/ Unpin(m) \/ UpgradeOne(m)
        PROVE  FALSE
    BY <1>2, <2>1, <2>2
       DEF InstallCommand, UninstallCommand, InstallUrl, Pin, Unpin, UpgradeOne, Begin, packages
  <2>3. ASSUME NEW s \in Sources,
               \/ SourceAdd(s) \/ SourceUpdate(s) \/ SourceRemove(s) \/ Reachability(s)
               \/ \E r \in MayPublish[s] : Publish(s, r)
        PROVE  FALSE
    BY <2>1, <2>3 DEF SourceAdd, SourceUpdate, SourceRemove, Reachability, Publish, packages
  <2>4. ASSUME \/ \E r \in Releases : \E f \in FileNames[r] : StageManifest(r, f)
               \/ \E f \in Files : AddManifest(f) \/ KillIndex(f)
        PROVE  FALSE
    BY <2>1, <2>4 DEF StageManifest, AddManifest, KillIndex, packages
  <2>5. ASSUME Export \/ UpgradeAll \/ Import \/ Finish PROVE FALSE
    BY <2>1, <2>5 DEF Export, UpgradeAll, Import, Finish, Begin, packages
  <2>6. ASSUME NEW e \in batch.left, VisitForImport(e) PROVE FALSE
    BY <1>1, <2>6 DEF VisitForImport
  <2> QED
    BY <2>1, <2>2, <2>3, <2>4, <2>5, <2>6 DEF Next, vars
<1>4. PICK e \in batch.left : VisitForUpgrade(e)
  BY <1>3
<1>5. PICK o \in Upgrade(e.id) : record' = o.record
  BY <1>4 DEF VisitForUpgrade, Becomes
<1>6. e.id \in Ids
  BY DEF TypeOK, Entries
<1>7. o.record # record
  BY <1>1, <1>5
<1>8. PICK r \in Releases, s \in Sources \cup {Local} :
         /\ ResolveForUpgrade(e.id) = Found(r, s)
         /\ \A m \in Ids \ {r.id} : o.record[m] = record[m]
         /\ \/ o.record[r.id] = record[r.id]
            \/ o.record[r.id] # NoRecord /\ o.record[r.id].version = 0
            \/ o.record[r.id] = [version |-> r.version, source |-> s]
  BY <1>6, <1>7, UpgradeOutcomes
<1>9. r.id = e.id
  <2>1. Answers(e.id, Found(r, s))
    BY <1>6, <1>8, UpgradeAnswers
  <2> QED
    BY <2>1 DEF Answers, Found, None, Throws
<1>10. n = r.id
  BY <1>1, <1>5, <1>8
<1> QED
  BY <1>1, <1>5, <1>8, <1>9, <1>10

LEMMA ReplacedKeepsSource ==
    ASSUME TypeOK, FindTheirs, [Next]_vars, NEW n \in Ids
    PROVE  KeepsSource(n)
<1> DEFINE own == RecordedSource(n)
<1> SUFFICES ASSUME Replaced(n), own \in Registered, ResolveManifestFromSource(own, n) # None
             PROVE  record'[n].source = own
  BY DEF KeepsSource
<1>1. own \in Sources /\ own # Local
  BY LenProperties, SentinelAssumption DEF TypeOK, Registered
<1>2. PICK r \in Releases, s \in Sources \cup {Local} :
         ResolveForUpgrade(n) = Found(r, s) /\ record'[n] = [version |-> r.version, source |-> s]
  BY ReplacedByWhatWasFound
<1>3. ResolveForUpgrade(n) = ResolveManifestFromSource(own, n)
  BY <1>1 DEF ResolveForUpgrade
<1>4. \E q \in Releases : ResolveManifestFromSource(own, n) = Found(q, own)
  BY <1>1, SourceAnswers
<1> QED
  BY <1>2, <1>3, <1>4 DEF Found

LEMMA ReplacedNeverGoesBack ==
    ASSUME TypeOK, FindTheirs, [Next]_vars, NEW n \in Ids
    PROVE  NeverGoesBack(n)
<1> DEFINE own == RecordedSource(n)
           v == record[n].version
<1> SUFFICES ASSUME Replaced(n), record'[n].version < v,
                    [id |-> n, version |-> v] \in Offers(own, n),
                    IF own = Local THEN Faithful
                    ELSE own \in Registered /\ ServesWhatItLists(own, n)
             PROVE  FALSE
  BY DEF NeverGoesBack
<1>1. PICK r \in Releases, s \in Sources \cup {Local} :
         ResolveForUpgrade(n) = Found(r, s) /\ record'[n] = [version |-> r.version, source |-> s]
  BY ReplacedByWhatWasFound
<1>2. r.version < v /\ r.version \in Nat
  BY <1>1 DEF Releases, Versions
<1>3. CASE own # Local
  <2>1. own \in Sources
    BY <1>3, LenProperties DEF TypeOK, Registered
  <2>2. [id |-> n, version |-> v] \in OfPackage(n, snapshot[own])
    BY <1>3 DEF Offers
  <2>3. ResolveManifestFromSource(own, n) # None
    <3>1. Latest(n, snapshot[own]) \in Releases
      <4>1. snapshot[own] \subseteq Releases
        BY <2>1 DEF TypeOK
      <4>2. \A q \in snapshot[own] : q.version \in Versions
        BY <4>1 DEF Releases
      <4> QED
        BY <2>2, <4>1, <4>2, LatestIsLargest
    <3> QED
      BY <1>3, <2>2, <3>1 DEF ResolveManifestFromSource, ServesWhatItLists, Found, None
  <2>4. ResolveForUpgrade(n) = ResolveManifestFromSource(own, n)
    BY <1>3, <2>3 DEF ResolveForUpgrade
  <2>5. PICK q \in Releases :
           /\ ResolveManifestFromSource(own, n) = Found(q, own)
           /\ \A p \in OfPackage(n, snapshot[own]) : p.version <= q.version
    BY <1>3, <2>1, <2>3, SourceAnswers
  <2>6. q = r
    BY <1>1, <2>4, <2>5 DEF Found
  <2>7. v <= r.version
    BY <2>2, <2>5, <2>6
  <2>8. v \in Nat
    BY <2>1, <2>2 DEF OfPackage, TypeOK, Releases, Versions
  <2> QED
    BY <1>2, <2>7, <2>8
<1>4. CASE own = Local
  <2>1. PICK offer \in rows : offer.id = n /\ offer.version = v
    BY <1>4 DEF Offers, OfPackage
  <2>2. offer \in OfPackage(n, rows) /\ v \in Nat
    BY <2>1 DEF OfPackage, TypeOK, Rows, Versions
  <2>3. ResolveManifestById(n) # None
    BY <2>2 DEF ResolveManifestById, Found, None, Throws
  <2>4. ResolveForUpgrade(n) = ResolveManifestById(n)
    BY <1>4, <2>3 DEF ResolveForUpgrade, ResolveManifestAnywhere
  <2>5. PICK row \in rows :
           /\ ResolveManifestById(n) = Found(stored[row.file], Local)
           /\ \A q \in OfPackage(n, rows) : q.version <= row.version
    BY <1>1, <2>3, <2>4, LocalAnswers DEF Found, Throws
  <2>6. stored[row.file] = [id |-> row.id, version |-> row.version]
    BY <1>4 DEF Faithful
  <2>7. r = stored[row.file]
    BY <1>1, <2>4, <2>5 DEF Found
  <2>8. v <= r.version
    BY <2>1, <2>2, <2>5, <2>6, <2>7
  <2> QED
    BY <1>2, <2>2, <2>8
<1> QED
  BY <1>3, <1>4

\* Where no two packages share a file name or a path on a server, an upgrade comes
\* from where the package came from as long as that source is registered and serves it.
THEOREM UpgradesKeepTheirSource == ASSUME FilesByPackage PROVE Spec => UpgradeKeepsSource
<1>1. TypeOK /\ FindTheirs /\ [Next]_vars => [\A n \in Ids : KeepsSource(n)]_vars
  BY ReplacedKeepsSource
<1> QED
  BY <1>1, CatalogsTypeOK, AlwaysFindTheirs, FilesByPackage, PTL DEF Spec, UpgradeKeepsSource

\* There it goes back to an older release only if the source of the installed one
\* does not list it any more, is not registered, or does not serve the latest release
\* it lists; or is the local catalog, after a refused or failed index.
THEOREM UpgradesNeverGoBack == ASSUME FilesByPackage PROVE Spec => UpgradeNeverGoesBack
<1>1. TypeOK /\ FindTheirs /\ [Next]_vars => [\A n \in Ids : NeverGoesBack(n)]_vars
  BY ReplacedNeverGoesBack
<1> QED
  BY <1>1, CatalogsTypeOK, AlwaysFindTheirs, FilesByPackage, PTL DEF Spec, UpgradeNeverGoesBack

-----------------------------------------------------------------------------
(* A loop that nobody disturbs *)

\* What import has to achieve for an exported package.
Restored(e) ==
    health[e.id] = "runs" /\ HasAlias(e.id) /\ (e.pinned => e.id \in pinned)

\* An undisturbed import has restored what it has visited, or counted a failure.
ImportInv ==
    batch.kind = "import" /\ batch.quiet /\ batch.failed = {} =>
        \A e \in exported \ batch.left : Restored(e)

\* upgrade would be told of the package again, although it went well.
Repeats(n) ==
    Announced(n) /\ ResolveManifestAnywhere(n).source = RecordedSource(n)

\* An undisturbed upgrade has visited each package once, and none of those that
\* went well repeats.
UpgradeInv ==
    batch.kind = "upgrade" /\ batch.quiet =>
        /\ \A e \in batch.left : ~e.pinned /\ e.id \notin batch.ok
        /\ \A n \in batch.ok : ~Repeats(n)

\* Whoever types a command, ends a loop or starts one, it is disturbed, over or new;
\* the rest are visits.
LEMMA VisitsOrNothing ==
    ASSUME TypeOK, [Next]_vars
    PROVE  \/ UNCHANGED vars
           \/ ~batch'.quiet
           \/ \E n \in Ids : UpgradeOne(n)
           \/ UpgradeAll \/ Import
           \/ \E e \in batch.left : VisitForUpgrade(e) \/ VisitForImport(e)
<1>1. ASSUME Meanwhile PROVE ~batch'.quiet
  BY <1>1 DEF Meanwhile, TypeOK
<1>2. ASSUME NEW n \in Ids,
             InstallCommand(n) \/ UninstallCommand(n) \/ InstallUrl(n) \/ Pin(n) \/ Unpin(n)
      PROVE  Meanwhile
  BY <1>2 DEF InstallCommand, UninstallCommand, InstallUrl, Pin, Unpin
<1>3. ASSUME NEW s \in Sources,
             \/ SourceAdd(s) \/ SourceUpdate(s) \/ SourceRemove(s) \/ Reachability(s)
             \/ \E r \in MayPublish[s] : Publish(s, r)
      PROVE  Meanwhile
  BY <1>3 DEF SourceAdd, SourceUpdate, SourceRemove, Reachability, Publish
<1>4. ASSUME \/ \E r \in Releases : \E f \in FileNames[r] : StageManifest(r, f)
             \/ \E f \in Files : AddManifest(f) \/ KillIndex(f)
             \/ Export
      PROVE  Meanwhile
  BY <1>4 DEF StageManifest, AddManifest, KillIndex, Export
<1>5. Finish => ~batch'.quiet
  BY DEF Finish, Idle
<1> QED
  BY <1>1, <1>2, <1>3, <1>4, <1>5 DEF Next

\* However an installation goes, it leaves the other packages alone.
LEMMA DeliverSparesOthers ==
    ASSUME TypeOK, NEW r \in Releases, NEW s \in Sources \cup {Local},
           NEW before \in [Ids -> Healths], NEW o \in Deliver(Found(r, s), before),
           NEW m \in Ids \ {r.id}
    PROVE  o.health[m] = before[m] /\ o.record[m] = record[m]
<1>1. \E h \in Healths, rc \in {"ok", "unrecorded", "failed", "stopped"},
         k \in {record, Mark(r.id, r.version, s), Mark(r.id, 0, Local)} :
            o = Outcome(rc, [before EXCEPT ![r.id] = h], k)
  <2>1. r.id \in Ids
    BY DEF Releases
  <2> QED
    BY <2>1 DEF Deliver, When, Found, Healths
<1>2. o.health[m] = before[m]
  BY <1>1 DEF Outcome
<1>3. Outcomes(Deliver(Found(r, s), before), {r.id})
  BY DeliverOutcomes
<1> QED
  BY <1>2, <1>3 DEF Outcomes

\* One that went well has a command that runs and a record with an alias.
LEMMA DeliveredWell ==
    ASSUME TypeOK, NEW r \in Releases, NEW s \in Sources \cup {Local},
           NEW before \in [Ids -> Healths], NEW o \in Deliver(Found(r, s), before),
           o.rc = "ok"
    PROVE  /\ o.health[r.id] = "runs"
           /\ o.record[r.id] = [version |-> r.version, source |-> s]
<1>1. r.id \in Ids /\ record \in [Ids -> Records \cup {NoRecord}]
  BY DEF Releases, TypeOK
<1>2. o = Outcome("ok", [before EXCEPT ![r.id] = "runs"], Mark(r.id, r.version, s))
  BY DEF Deliver, When, Found, Outcome
<1> QED
  BY <1>1, <1>2 DEF Outcome, Mark

\* An install that succeeds leaves the package running, with a record of a release
\* of its own, and no other package changed.
LEMMA InstalledWell ==
    ASSUME TypeOK, FindTheirs, NEW n \in Ids, NEW o \in Install(n), o.rc = "ok"
    PROVE  /\ o.health[n] = "runs" /\ o.record[n] # NoRecord /\ o.record[n].version # 0
           /\ \A m \in Ids \ {n} : o.health[m] = health[m] /\ o.record[m] = record[m]
<1> DEFINE a == ResolveManifestAnywhere(n)
           cleaned ==
              IF record[n] = NoRecord /\ health[n] # "none" THEN [health EXCEPT ![n] = "none"] ELSE health
<1>1. health \in [Ids -> Healths] /\ record \in [Ids -> Records \cup {NoRecord}]
  BY DEF TypeOK, Healths
<1>2. cleaned \in [Ids -> Healths] /\ \A m \in Ids \ {n} : cleaned[m] = health[m]
  BY <1>1 DEF Healths
<1>3. Answers(n, a)
  BY AnywhereAnswers
<1>4. a.kind = "found" /\ o \in Deliver(a, cleaned)
  BY <1>3 DEF Install, When, Outcome, Answers, None, Throws, Found
<1> HIDE DEF cleaned
<1>5. PICK r \in Releases, s \in Sources \cup {Local} : a = Found(r, s) /\ r.id = n
  BY <1>3, <1>4 DEF Answers, None, Throws
<1> HIDE DEF a
<1>6. /\ o.health[n] = "runs" /\ o.record[n] = [version |-> r.version, source |-> s]
      /\ \A m \in Ids \ {n} : o.health[m] = cleaned[m] /\ o.record[m] = record[m]
  <2>1. o \in Deliver(Found(r, s), cleaned)
    BY <1>4, <1>5
  <2> QED
    BY <1>2, <1>5, <2>1, DeliveredWell, DeliverSparesOthers
<1>7. r.version # 0 /\ [version |-> r.version, source |-> s] \in Records
  BY NewestAssumption DEF Releases, Versions, Records
<1> QED
  BY <1>1, <1>2, <1>6, <1>7, SentinelAssumption

\* The visit of an import that nobody disturbs.
LEMMA ImportVisitRestores ==
    ASSUME TypeOK, FindTheirs, ImportInv, NEW e \in batch.left, VisitForImport(e)
    PROVE  ImportInv'
<1>1. PICK o \in Install(e.id) :
         LET pins == o.rc \in {"ok", "unrecorded"} /\ e.pinned /\ o.record[e.id] # NoRecord
         IN  /\ Becomes(o)
             /\ pinned' \in {pinned, pinned \cup {e.id}}
             /\ Tally(e, o.rc, pins => e.id \in pinned')
  BY DEF VisitForImport, CmdPin, When
<1>2. batch.kind = "import" /\ exported' = exported
  BY DEF VisitForImport
<1>3. /\ batch.left \subseteq Entries /\ exported \subseteq Entries
      /\ e.id \in Ids /\ batch.ok \subseteq Ids /\ batch.failed \subseteq Ids
  BY DEF TypeOK, Entries
<1> SUFFICES ASSUME batch'.kind = "import", batch'.quiet, batch'.failed = {},
                    NEW d \in exported \ batch'.left
             PROVE  Restored(d)'
  BY <1>2 DEF ImportInv
<1>4. o.rc = "ok" /\ (e.pinned /\ o.record[e.id] # NoRecord => e.id \in pinned')
  BY <1>1, <1>3 DEF Tally, Idle, TypeOK
<1>5. /\ batch'.left = batch.left \ {e} /\ batch'.failed = batch.failed /\ batch.quiet
  BY <1>1, <1>4 DEF Tally, TypeOK
<1>6. d = e \/ Restored(d)
  BY <1>2, <1>5 DEF ImportInv
<1>7. /\ o.health[e.id] = "runs" /\ o.record[e.id] # NoRecord /\ o.record[e.id].version # 0
      /\ \A m \in Ids \ {e.id} : o.health[m] = health[m] /\ o.record[m] = record[m]
  BY <1>3, <1>4, InstalledWell
<1>8. health' = o.health /\ record' = o.record
  BY <1>1 DEF Becomes
<1>9. d.id \in Ids
  BY <1>3 DEF Entries
<1>10. health'[d.id] = "runs" /\ record'[d.id] # NoRecord /\ record'[d.id].version # 0
  BY <1>6, <1>7, <1>8, <1>9 DEF Restored, HasAlias
<1>11. d.pinned => d.id \in pinned'
  BY <1>1, <1>4, <1>6, <1>7 DEF Restored
<1> QED
  BY <1>10, <1>11 DEF Restored, HasAlias

\* No import has begun at first.
LEMMA InitImport == Init => ImportInv
BY DEF Init, ImportInv, Idle

\* Every step keeps what an undisturbed import has restored.
LEMMA NextImport == TypeOK /\ FindTheirs /\ ImportInv /\ [Next]_vars => ImportInv'
<1> SUFFICES ASSUME TypeOK, FindTheirs, ImportInv, [Next]_vars PROVE ImportInv'
  OBVIOUS
<1>1. CASE UNCHANGED vars
  BY <1>1 DEF vars, ImportInv, Restored, HasAlias
<1>2. CASE ~batch'.quiet
  BY <1>2 DEF ImportInv
<1>3. ASSUME UpgradeAll \/ \E n \in Ids : UpgradeOne(n) PROVE ImportInv'
  <2>1. PICK entries : Begin("upgrade", entries)
    BY <1>3 DEF UpgradeAll, UpgradeOne
  <2>2. batch'.kind = "upgrade"
    BY <2>1 DEF Begin
  <2> QED
    BY <2>2 DEF ImportInv
<1>4. CASE Import
  BY <1>4 DEF Import, Begin, ImportInv
<1>5. ASSUME NEW e \in batch.left, VisitForUpgrade(e) PROVE ImportInv'
  BY <1>5 DEF VisitForUpgrade, Tally, Idle, TypeOK, ImportInv
<1>6. ASSUME NEW e \in batch.left, VisitForImport(e) PROVE ImportInv'
  BY <1>6, ImportVisitRestores
<1> QED
  BY <1>1, <1>2, <1>3, <1>4, <1>5, <1>6, VisitsOrNothing

\* Where no two packages share a file name or a path, an import that nobody disturbed,
\* whose records and pins the disk took, and that counts no failure, has installed every exported package, with a record
\* that names its alias, and pinned what was pinned (CmdImport).
THEOREM ImportsRestore == ASSUME FilesByPackage PROVE Spec => []QuietImportRestores
<1>1. ImportInv => QuietImportRestores
  BY DEF ImportInv, QuietImportRestores, Restored
<1>2. Spec => []ImportInv
  BY InitImport, NextImport, CatalogsTypeOK, AlwaysFindTheirs, FilesByPackage, PTL DEF Spec
<1> QED
  BY <1>1, <1>2, PTL

\* upgrade finds what everybody finds, or prefers the source of the record, and
\* then everybody else finds the package elsewhere.
LEMMA UpgradeOrAnywhere ==
    ASSUME TypeOK, NEW n \in Ids, ResolveManifestAnywhere(n).kind = "found"
    PROVE  \/ ResolveForUpgrade(n) = ResolveManifestAnywhere(n)
           \/ /\ \E r : ResolveForUpgrade(n) = Found(r, RecordedSource(n))
              /\ ResolveManifestAnywhere(n).source # RecordedSource(n)
<1> DEFINE own == RecordedSource(n)
           b == ResolveManifestAnywhere(n)
<1> SUFFICES ASSUME ResolveForUpgrade(n) # b
             PROVE  (\E r : ResolveForUpgrade(n) = Found(r, own)) /\ b.source # own
  OBVIOUS
<1>1. /\ own # Local /\ own \in Registered /\ ResolveManifestFromSource(own, n) # None
      /\ ResolveForUpgrade(n) = ResolveManifestFromSource(own, n)
  BY DEF ResolveForUpgrade
<1>2. own \in Sources
  BY <1>1, LenProperties DEF TypeOK, Registered
<1>3. PICK r \in Releases : ResolveManifestFromSource(own, n) = Found(r, own)
  BY <1>1, <1>2, SourceAnswers
<1>4. ASSUME b.source = own PROVE FALSE
  <2> DEFINE having == {i \in DOMAIN sources : ResolveManifestFromSource(sources[i], n) # None}
             first == CHOOSE i \in having : \A j \in having : i <= j
  <2>1. CASE ResolveManifestById(n) # None
    <3>1. b = ResolveManifestById(n)
      BY <2>1 DEF ResolveManifestAnywhere
    <3>2. b.source = Local
      BY <2>1, <3>1, LocalAnswers DEF Found, Throws
    <3> QED
      BY <1>1, <1>4, <3>2
  <2>2. CASE ResolveManifestById(n) = None
    <3>1. having # {}
      BY <2>2 DEF ResolveManifestAnywhere, None
    <3>2. b = ResolveManifestFromSource(sources[first], n)
      BY <2>2, <3>1 DEF ResolveManifestAnywhere
    <3>3. \A i \in DOMAIN sources : i \in Nat /\ sources[i] \in Sources
      BY LenProperties DEF TypeOK
    <3>4. \E i \in having : \A j \in having : i <= j
      BY <3>1, <3>3, SmallestExists
    <3>5. first \in having
      BY <3>4
    <3> HIDE DEF first
    <3>6. sources[first] \in Sources /\ ResolveManifestFromSource(sources[first], n) # None
      BY <3>3, <3>5
    <3>7. b.source = sources[first]
      BY <3>2, <3>6, SourceAnswers DEF Found
    <3>8. b = ResolveManifestFromSource(own, n)
      BY <1>4, <3>2, <3>7
    <3> QED
      BY <1>1, <3>8
  <2> QED
    BY <2>1, <2>2
<1> QED
  BY <1>1, <1>3, <1>4

\* What an upgrade of one package does that went well: nothing, because it is
\* pinned or has the version that was found, or a new installation.
LEMMA UpgradedWell ==
    ASSUME TypeOK, FindTheirs, NEW n \in Ids, NEW o \in Upgrade(n), o.rc = "ok"
    PROVE  \/ n \in pinned /\ o.health = health /\ o.record = record
           \/ \E r \in Releases, s \in Sources \cup {Local} :
                 /\ ResolveForUpgrade(n) = Found(r, s)
                 /\ o.record[n].version = r.version
                 /\ o.record = record \/ o.record[n].source = s
                 /\ \A m \in Ids \ {n} : o.health[m] = health[m] /\ o.record[m] = record[m]
<1> DEFINE a == ResolveForUpgrade(n)
           removed == [health EXCEPT ![a.release.id] = "none"]
<1>1. health \in [Ids -> Healths] /\ record \in [Ids -> Records \cup {NoRecord}]
  BY DEF TypeOK, Healths
<1>2. Answers(n, a)
  BY UpgradeAnswers
<1>3. CASE n \in pinned
  BY <1>3 DEF Upgrade, Nothing, When, Outcome
<1>4. CASE n \notin pinned
  <2>1. a.kind = "found"
    BY <1>2, <1>4 DEF Upgrade, Nothing, When, Outcome, Answers, None, Throws, Found
  <2>2. PICK r \in Releases, s \in Sources \cup {Local} : a = Found(r, s) /\ r.id = n
    BY <1>2, <2>1 DEF Answers, None, Throws
  <2>3. a.release = r
    BY <2>2 DEF Found
  <2>4. \/ o \in Nothing("ok") /\ record[n].version = r.version
        \/ o \in Deliver(a, removed)
    BY <1>4, <2>1, <2>2, <2>3 DEF Upgrade, Nothing, When, Outcome
  <2>5. CASE o \in Nothing("ok") /\ record[n].version = r.version
    BY <2>2, <2>5 DEF Nothing, Outcome
  <2>6. CASE o \in Deliver(a, removed)
    <3>1. removed \in [Ids -> Healths] /\ \A m \in Ids \ {n} : removed[m] = health[m]
      BY <1>1, <2>2, <2>3 DEF Healths
    <3>2. o \in Deliver(Found(r, s), removed)
      BY <2>2, <2>6
    <3> HIDE DEF removed, a
    <3>3. /\ o.record[n] = [version |-> r.version, source |-> s]
          /\ \A m \in Ids \ {n} : o.health[m] = removed[m] /\ o.record[m] = record[m]
      BY <2>2, <3>1, <3>2, DeliveredWell, DeliverSparesOthers
    <3> QED
      BY <2>2, <3>1, <3>3 DEF a
  <2> QED
    BY <2>4, <2>5, <2>6
<1> QED
  BY <1>3, <1>4

\* Whatever else an upgrade comes to, it leaves the other packages alone.
LEMMA UpgradeSparesOthers ==
    ASSUME TypeOK, FindTheirs, NEW n \in Ids, NEW o \in Upgrade(n),
           NEW m \in Ids \ {n}
    PROVE  o.health[m] = health[m] /\ o.record[m] = record[m]
<1> DEFINE a == ResolveForUpgrade(n)
           removed == [health EXCEPT ![a.release.id] = "none"]
<1>1. health \in [Ids -> Healths] /\ record \in [Ids -> Records \cup {NoRecord}]
  BY DEF TypeOK, Healths
<1>2. Answers(n, a)
  BY UpgradeAnswers
<1>3. \/ o.health = health /\ o.record = record
      \/ a.kind = "found" /\ o \in Deliver(a, removed)
  BY <1>2 DEF Upgrade, Nothing, When, Outcome, Answers, None, Throws, Found
<1>4. CASE a.kind = "found" /\ o \in Deliver(a, removed)
  <2>1. PICK r \in Releases, s \in Sources \cup {Local} : a = Found(r, s) /\ r.id = n
    BY <1>2, <1>4 DEF Answers, None, Throws
  <2>2. a.release = r
    BY <2>1 DEF Found
  <2>3. removed \in [Ids -> Healths] /\ \A k \in Ids \ {n} : removed[k] = health[k]
    BY <1>1, <2>1, <2>2 DEF Healths
  <2>4. o \in Deliver(Found(r, s), removed)
    BY <1>4, <2>1
  <2> HIDE DEF removed, a
  <2>5. m \in Ids \ {r.id}
    BY <2>1
  <2>6. o.health[m] = removed[m] /\ o.record[m] = record[m]
    BY <2>3, <2>4, <2>5, DeliverSparesOthers
  <2> QED
    BY <2>3, <2>6
<1> QED
  BY <1>3, <1>4

\* What is found depends on the catalogs only.
LEMMA SameCatalogsSameAnswer ==
    ASSUME UNCHANGED <<local, remote>>, NEW n
    PROVE  ResolveManifestAnywhere(n)' = ResolveManifestAnywhere(n)
BY DEF local, remote, ResolveManifestAnywhere, ResolveManifestById, ResolveManifestFromSource

\* What list says of a package nobody touches stays as it was.
LEMMA UntouchedKeepsSilent ==
    ASSUME UNCHANGED <<local, remote, pinned>>, NEW n \in Ids,
           health'[n] = health[n], record'[n] = record[n], ~Repeats(n)
    PROVE  ~Repeats(n)'
<1>1. ResolveManifestAnywhere(n)' = ResolveManifestAnywhere(n)
  BY SameCatalogsSameAnswer
<1>2. ResolveManifestById(n)' = ResolveManifestById(n)
  BY DEF local, ResolveManifestById
<1> QED
  BY <1>1, <1>2 DEF Repeats, Announced, ListShows, HasAlias, RecordedSource

\* A package whose upgrade went well does not repeat.
LEMMA UpgradedKeepsSilent ==
    ASSUME TypeOK, FindTheirs, UNCHANGED <<local, remote, pinned>>,
           NEW n \in Ids, NEW o \in Upgrade(n), o.rc = "ok", record' = o.record
    PROVE  ~Repeats(n)'
<1> DEFINE b == ResolveManifestAnywhere(n)
<1>1. b' = b
  BY SameCatalogsSameAnswer
<1> SUFFICES ASSUME n \notin pinned, b.kind = "found", record'[n] # NoRecord,
                    b.release.version # record'[n].version, b.source = record'[n].source
             PROVE  FALSE
  BY <1>1 DEF Repeats, Announced, RecordedSource
<1>2. PICK r \in Releases, s \in Sources \cup {Local} :
         /\ ResolveForUpgrade(n) = Found(r, s)
         /\ o.record[n].version = r.version
         /\ o.record = record \/ o.record[n].source = s
  BY UpgradedWell
<1>3. CASE ResolveForUpgrade(n) = b
  BY <1>2, <1>3 DEF Found
<1>4. ASSUME \E q : ResolveForUpgrade(n) = Found(q, RecordedSource(n)),
             b.source # RecordedSource(n)
      PROVE  FALSE
  <2>1. s = RecordedSource(n)
    BY <1>2, <1>4 DEF Found
  <2>2. CASE o.record = record
    BY <1>4, <2>2 DEF RecordedSource
  <2>3. CASE o.record[n].source = s
    BY <1>4, <2>1, <2>3
  <2> QED
    BY <1>2, <2>2, <2>3
<1> QED
  BY <1>3, <1>4, UpgradeOrAnywhere

\* A visit takes one package from the list and keeps those visited before settled.
LEMMA UpgradeVisitSettles ==
    ASSUME TypeOK, FindTheirs, UpgradeInv, NEW e \in batch.left, VisitForUpgrade(e)
    PROVE  UpgradeInv'
<1>1. PICK o \in Upgrade(e.id) : Becomes(o) /\ Tally(e, o.rc, TRUE)
  BY DEF VisitForUpgrade
<1>2. batch.kind = "upgrade" /\ UNCHANGED <<local, remote, pinned>>
  BY DEF VisitForUpgrade
<1>3. e.id \in Ids /\ batch.left \subseteq Entries /\ batch.ok \subseteq Ids
  BY DEF TypeOK, Entries
<1> SUFFICES ASSUME batch'.kind = "upgrade", batch'.quiet
             PROVE  /\ \A d \in batch'.left : ~d.pinned /\ d.id \notin batch'.ok
                    /\ \A n \in batch'.ok : ~Repeats(n)'
  BY DEF UpgradeInv
<1>4. /\ batch'.left = batch.left \ {e} /\ batch.quiet
      /\ \/ o.rc = "ok" /\ batch'.ok = batch.ok \cup {e.id}
         \/ batch'.ok = batch.ok
  BY <1>1 DEF Tally, Idle, TypeOK
<1>5. /\ \A d \in batch.left : ~d.pinned /\ d.id \notin batch.ok
      /\ \A n \in batch.ok : ~Repeats(n)
  BY <1>2, <1>4 DEF UpgradeInv
<1>6. ASSUME NEW d \in batch'.left PROVE ~d.pinned /\ d.id \notin batch'.ok
  <2>1. d \in Entries /\ e \in Entries /\ d # e /\ ~d.pinned /\ ~e.pinned /\ d.id \notin batch.ok
    BY <1>3, <1>4, <1>5
  <2>2. d.id # e.id
    BY <2>1 DEF Entries
  <2> QED
    BY <1>4, <2>1, <2>2
<1>7. ASSUME NEW n \in batch'.ok PROVE ~Repeats(n)'
  <2>1. CASE n \in batch.ok
    <3>1. n \in Ids /\ n # e.id /\ ~Repeats(n)
      BY <1>3, <1>5, <2>1
    <3>2. health'[n] = health[n] /\ record'[n] = record[n]
      BY <1>1, <1>3, <3>1, UpgradeSparesOthers DEF Becomes
    <3> QED
      BY <1>2, <3>1, <3>2, UntouchedKeepsSilent
  <2>2. CASE n \notin batch.ok
    <3>1. n = e.id /\ o.rc = "ok" /\ record' = o.record
      BY <1>1, <1>4, <2>2 DEF Becomes
    <3> QED
      BY <1>2, <1>3, <3>1, UpgradedKeepsSilent
  <2> QED
    BY <2>1, <2>2
<1> QED
  BY <1>6, <1>7

\* No upgrade has begun at first.
LEMMA InitUpgrade == Init => UpgradeInv
BY DEF Init, UpgradeInv, Idle

\* Every step keeps what an undisturbed upgrade has settled.
LEMMA NextUpgrade == TypeOK /\ FindTheirs /\ UpgradeInv /\ [Next]_vars => UpgradeInv'
<1> SUFFICES ASSUME TypeOK, FindTheirs, UpgradeInv, [Next]_vars PROVE UpgradeInv'
  OBVIOUS
<1>1. CASE UNCHANGED vars
  <2>1. UNCHANGED <<local, remote, packages, batch>>
    BY <1>1 DEF vars, local, remote, packages
  <2>2. \A n \in Ids : ~Repeats(n) => ~Repeats(n)'
    BY <2>1, UntouchedKeepsSilent DEF packages
  <2>3. batch.ok \subseteq Ids
    BY DEF TypeOK
  <2> QED
    BY <2>1, <2>2, <2>3 DEF UpgradeInv
<1>2. CASE ~batch'.quiet
  BY <1>2 DEF UpgradeInv
<1>3. ASSUME UpgradeAll \/ \E n \in Ids : UpgradeOne(n) PROVE UpgradeInv'
  BY <1>3 DEF UpgradeAll, UpgradeOne, Begin, ToUpgrade, UpgradeInv
<1>4. CASE Import
  BY <1>4 DEF Import, Begin, UpgradeInv
<1>5. ASSUME NEW e \in batch.left, VisitForUpgrade(e) PROVE UpgradeInv'
  BY <1>5, UpgradeVisitSettles
<1>6. ASSUME NEW e \in batch.left, VisitForImport(e) PROVE UpgradeInv'
  BY <1>6 DEF VisitForImport, Tally, Idle, TypeOK, UpgradeInv
<1> QED
  BY <1>1, <1>2, <1>3, <1>4, <1>5, <1>6, VisitsOrNothing

\* Where no two packages share a file name or a path, list --upgrade-available repeats
\* after an upgrade that nobody disturbed, of the packages that went well, only
\* those for which another source answers first than the one upgrade prefers.
THEOREM UpgradesSettle == ASSUME FilesByPackage PROVE Spec => []QuietUpgradeSettles
<1>1. UpgradeInv => QuietUpgradeSettles
  BY DEF UpgradeInv, QuietUpgradeSettles, Repeats
<1>2. Spec => []UpgradeInv
  BY InitUpgrade, NextUpgrade, CatalogsTypeOK, AlwaysFindTheirs, FilesByPackage, PTL DEF Spec
<1> QED
  BY <1>1, <1>2, PTL
=============================================================================
