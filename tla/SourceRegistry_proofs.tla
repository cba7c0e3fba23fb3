------------------------ MODULE SourceRegistry_proofs ------------------------
(***************************************************************************)
(* Proofs about SourceRegistry, for any number of processes and sources.   *)
(***************************************************************************)
EXTENDS SourceRegistry, TLAPS

\* A process that has been started runs one of its requests.
Asked == \A q \in Procs : pc[q] # "idle" => req[q] \in Requests[q]

TypeInv == TypeOK /\ Asked

\* A request is a command and a source.
LEMMA RequestTyped ==
  ASSUME TypeInv, NEW q \in Procs, pc[q] # "idle"
  PROVE  req[q] \in Request /\ Name(q) \in Sources /\ Command(q) \in {"add", "remove", "update"}
  BY RequestsAssumption DEF TypeInv, Asked, Request, Name, Command

\* Where the open files are after a rename or a removal.
LEMMA FollowTyped ==
  ASSUME TypeOK, NEW q \in Procs
  PROVE  /\ Follow(q, [tmp |-> "unlinked"]) \in [Procs -> {"closed", "tmp", "db", "unlinked"}]
         /\ Follow(q, [db |-> "unlinked"]) \in [Procs -> {"closed", "tmp", "db", "unlinked"}]
         /\ Follow(q, [tmp |-> "db", db |-> "unlinked"])
               \in [Procs -> {"closed", "tmp", "db", "unlinked"}]
  BY DEF Follow, TypeOK

\* Every step keeps every variable in its range.
LEMMA StepTyped == TypeInv /\ [Next]_vars => TypeInv'
<1> SUFFICES ASSUME TypeInv, [Next]_vars PROVE TypeInv'
  OBVIOUS
<1>a. TypeOK /\ Asked
  BY DEF TypeInv
<1>1. ASSUME NEW q \in Procs, Invoke(q) PROVE TypeInv'
  BY <1>a, <1>1, RequestsAssumption DEF TypeInv, TypeOK, Asked, Invoke, Goto, files, Steps
<1>2. ASSUME NEW q \in Procs, Load(q) PROVE TypeInv'
  BY <1>a, <1>2 DEF TypeInv, TypeOK, Asked, Load, Goto, files, Steps, Results
<1>3. ASSUME NEW q \in Procs, OpenTmp(q) PROVE TypeInv'
  BY <1>a, <1>3 DEF TypeInv, TypeOK, Asked, OpenTmp, Goto, Steps, Contents
<1>4. ASSUME NEW q \in Procs, Transfer(q) PROVE TypeInv'
  <2>1. /\ tmp' \in [Sources -> Contents \cup {NoFile}]
        /\ db' \in [Sources -> Contents \cup {NoFile}]
    BY <1>a, <1>4 DEF TypeOK, Transfer, Received, Contents
  <2>2. out' \in [Procs -> {"closed", "tmp", "db", "unlinked"}]
    BY <1>a, <1>4, FollowTyped DEF TypeOK, Transfer
  <2>3. QED
    BY <1>a, <1>4, <2>1, <2>2 DEF TypeInv, TypeOK, Asked, Transfer, Goto, Steps, Results
<1>5. ASSUME NEW q \in Procs, Validate(q) PROVE TypeInv'
  <2>1. out' \in [Procs -> {"closed", "tmp", "db", "unlinked"}]
    BY <1>a, <1>5, FollowTyped DEF TypeOK, Validate
  <2>2. QED
    BY <1>a, <1>5, <2>1 DEF TypeInv, TypeOK, Asked, Validate, Goto, Steps, Results
<1>6. ASSUME NEW q \in Procs, Rename(q) PROVE TypeInv'
  <2>1. Name(q) \in Sources
    BY <1>6, RequestTyped DEF Rename
  <2>2. out' \in [Procs -> {"closed", "tmp", "db", "unlinked"}]
    BY <1>a, <1>6, FollowTyped DEF TypeOK, Rename
  <2>3. QED
    BY <1>a, <1>6, <2>1, <2>2 DEF TypeInv, TypeOK, Asked, Rename, Goto, Steps, Results
<1>7. ASSUME NEW q \in Procs, Truncate(q) PROVE TypeInv'
  BY <1>a, <1>7 DEF TypeInv, TypeOK, Asked, Truncate, Goto, Steps
<1>8. ASSUME NEW q \in Procs, Write(q) PROVE TypeInv'
  BY <1>a, <1>8 DEF TypeInv, TypeOK, Asked, Write, Goto, Steps, Results
<1>9. ASSUME NEW q \in Procs, RemoveDb(q) PROVE TypeInv'
  <2>1. out' \in [Procs -> {"closed", "tmp", "db", "unlinked"}]
    BY <1>a, <1>9, FollowTyped DEF RemoveDb
  <2>2. QED
    BY <1>a, <1>9, <2>1 DEF TypeInv, TypeOK, Asked, RemoveDb, Goto, Steps, Results
<1>10. ASSUME NEW q \in Procs, Exit(q) \/ Crash(q) PROVE TypeInv'
  BY <1>a, <1>10 DEF TypeInv, TypeOK, Asked, Exit, Crash, Leaves, Goto, files, Steps
<1>11. CASE UNCHANGED vars
  BY <1>a, <1>11 DEF TypeInv, TypeOK, Asked, vars, files
<1>12. QED
  BY <1>1, <1>2, <1>3, <1>4, <1>5, <1>6, <1>7, <1>8, <1>9, <1>10, <1>11 DEF Next

\* The files, the list and the processes stay what they are declared to be,
\* whatever processes and sources there are.
THEOREM SourceTypes == Spec => []TypeOK
<1>1. Init => TypeInv
  BY RegisteredAssumption DEF Init, TypeInv, TypeOK, Asked, Steps, Contents
<1>2. TypeInv /\ [Next]_vars => TypeInv'
  BY StepTyped
<1>3. TypeInv => TypeOK
  BY DEF TypeInv
<1>4. QED
  BY <1>1, <1>2, <1>3, PTL DEF Spec

-----------------------------------------------------------------------------
(* A catalog in use is always a catalog. *)

\* The sources a process may be told to download, and the condition that no
\* two processes download the same one.
Downloads(q) == {n \in Sources : <<"add", n>> \in Requests[q] \/ <<"update", n>> \in Requests[q]}
OwnDownloads == \A q, r \in Procs : q # r => Downloads(q) \cap Downloads(r) = {}

\* From the opening of <name>.db.tmp to its renaming.
Downloading(q) == pc[q] \in {"open", "transfer", "validate", "rename"}

\* A process that downloads was told to; only it has the file open, under the
\* name it opened; what it has validated is what it renames.
Downloaded(q) ==
    /\ Downloading(q) => Command(q) \in {"add", "update"}
    /\ out[q] # "db"
    /\ out[q] # "closed" => pc[q] = "transfer"
    /\ pc[q] = "rename" => tmp[Name(q)] = "catalog"

DownloadInv == \A q \in Procs : Downloaded(q)

\* Two downloads are of different sources.
LEMMA DownloadsApart ==
  ASSUME OwnDownloads, TypeInv, DownloadInv,
         NEW q \in Procs, NEW r \in Procs \ {q}, Downloading(q), Downloading(r)
  PROVE  Name(q) # Name(r)
<1>1. ASSUME NEW w \in Procs, Downloading(w) PROVE Name(w) \in Downloads(w)
  <2>1. req[w] \in Requests[w] /\ Name(w) \in Sources /\ req[w] \in Request
    BY <1>1, RequestTyped DEF TypeInv, Asked, Downloading
  <2>2. req[w] = <<Command(w), Name(w)>> /\ Command(w) \in {"add", "update"}
    BY <1>1, <2>1 DEF DownloadInv, Downloaded, Request, Command, Name
  <2>3. QED
    BY <2>1, <2>2 DEF Downloads
<1>2. QED
  BY <1>1 DEF OwnDownloads

\* A removal or renaming by a process that does not download what r downloads
\* finds no other process at the file.
LEMMA NobodyFollows ==
  ASSUME TypeInv, DownloadInv, NEW q \in Procs, NEW r \in Procs,
         \/ r = q \/ Name(r) # Name(q) \/ ~Downloading(r)
  PROVE  /\ Follow(q, [tmp |-> "unlinked"])[r] = out[r]
         /\ Follow(q, [tmp |-> "db", db |-> "unlinked"])[r] = out[r]
  BY DEF DownloadInv, Downloaded, Follow, Downloading

\* What one process may do.
Act(q) == \/ Invoke(q) \/ Load(q) \/ OpenTmp(q) \/ Transfer(q) \/ Validate(q)
          \/ Rename(q) \/ Truncate(q) \/ Write(q) \/ RemoveDb(q)
          \/ Exit(q) \/ Crash(q)

\* No step of q changes the locals of another process, its open file excepted.
LEMMA OnlyOneMoves ==
  ASSUME TypeInv, NEW q \in Procs, NEW r \in Procs \ {q}, Act(q)
  PROVE  /\ pc'[r] = pc[r] /\ req'[r] = req[r] /\ sources'[r] = sources[r]
         /\ Name(r)' = Name(r) /\ Command(r)' = Command(r)
<1>1. pc'[r] = pc[r] /\ req'[r] = req[r] /\ sources'[r] = sources[r]
  BY DEF TypeInv, TypeOK, Act, Invoke, Load, OpenTmp, Transfer, Validate, Rename, Truncate, Write,
     RemoveDb, Exit, Crash, Leaves, Goto
<1>2. QED
  BY <1>1 DEF Name, Command

\* The next step of the process that moves.
LEMMA StepDownloaded ==
  ASSUME TypeInv, DownloadInv, DbIsCatalog, NEW q \in Procs, Act(q)
  PROVE  Downloaded(q)'
<1>a. /\ pc \in [Procs -> Steps] /\ tmp \in [Sources -> Contents \cup {NoFile}]
      /\ out \in [Procs -> {"closed", "tmp", "db", "unlinked"}]
      /\ req \in [Procs -> Request \cup {NoRequest}]
  BY DEF TypeInv, TypeOK
<1>b. Downloaded(q)
  BY DEF DownloadInv
<1> USE <1>a DEF Downloaded, Downloading, Goto
<1>1. CASE Invoke(q) \/ Exit(q) \/ Crash(q)
  BY <1>1, <1>b DEF Invoke, Exit, Crash, Leaves, Results
<1>2. CASE Load(q)
  BY <1>2, <1>b DEF Load, Command, files
<1>3. CASE OpenTmp(q)
  BY <1>3, <1>b DEF OpenTmp, Command
<1>4. CASE Transfer(q)
  BY <1>4, <1>b DEF Transfer, Command, Follow
<1>5. CASE Validate(q)
  <2>1. out'[q] = out[q] /\ out[q] = "closed"
    BY <1>5, <1>b, NobodyFollows DEF Validate
  <2>2. QED
    BY <1>5, <1>b, <2>1 DEF Validate, Command, Name
<1>6. CASE Rename(q)
  <2>1. out'[q] = out[q] /\ out[q] = "closed"
    BY <1>6, <1>b, NobodyFollows DEF Rename
  <2>2. QED
    BY <1>6, <1>b, <2>1 DEF Rename
<1>7. CASE Truncate(q) \/ Write(q)
  BY <1>7, <1>b DEF Truncate, Write
<1>8. CASE RemoveDb(q)
  BY <1>8, <1>b DEF RemoveDb, Follow
<1>9. QED
  BY <1>1, <1>2, <1>3, <1>4, <1>5, <1>6, <1>7, <1>8 DEF Act

\* The other processes keep their files: nobody else downloads their source.
LEMMA OthersDownloaded ==
  ASSUME OwnDownloads, TypeInv, DownloadInv, NEW q \in Procs, Act(q), NEW r \in Procs \ {q}
  PROVE  Downloaded(r)'
<1>1. /\ pc'[r] = pc[r] /\ Name(r)' = Name(r) /\ Command(r)' = Command(r) /\ Downloaded(r)
  BY OnlyOneMoves DEF DownloadInv
<1>2. Downloading(q) => ~Downloading(r) \/ Name(r) # Name(q)
  BY DownloadsApart
<1>3. out'[r] \in {out[r], "unlinked"} /\ (out[r] = "closed" => out'[r] = "closed")
  <2>1. CASE Transfer(q) \/ Validate(q) \/ Rename(q)
    <3>1. Downloading(q)
      BY <2>1 DEF Transfer, Validate, Rename, Downloading
    <3>2. /\ Follow(q, [tmp |-> "unlinked"])[r] = out[r]
          /\ Follow(q, [tmp |-> "db", db |-> "unlinked"])[r] = out[r]
      BY <1>2, <3>1, NobodyFollows
    <3>3. out \in [Procs -> {"closed", "tmp", "db", "unlinked"}]
      BY DEF TypeInv, TypeOK
    <3>4. /\ Follow(q, [tmp |-> "unlinked"]) \in [Procs -> {"closed", "tmp", "db", "unlinked"}]
      BY FollowTyped DEF TypeInv
    <3>5. QED
      BY <2>1, <3>2, <3>3, <3>4 DEF Transfer, Validate, Rename
  <2>2. CASE RemoveDb(q)
    BY <2>2 DEF RemoveDb, Follow
  <2>3. CASE ~(Transfer(q) \/ Validate(q) \/ Rename(q) \/ RemoveDb(q))
    BY <2>3 DEF Act, TypeInv, TypeOK, Invoke, Load, OpenTmp, Truncate, Write, Exit, Crash, Leaves
  <2>4. QED
    BY <2>1, <2>2, <2>3
<1>4. pc[r] = "rename" => tmp'[Name(r)] = tmp[Name(r)]
  <2>1. SUFFICES ASSUME pc[r] = "rename" PROVE tmp'[Name(r)] = tmp[Name(r)]
    OBVIOUS
  <2>2. Downloading(r) /\ Name(r) \in Sources /\ tmp \in [Sources -> Contents \cup {NoFile}]
    BY <2>1, RequestTyped DEF Downloading, TypeInv, TypeOK
  <2>3. CASE Downloading(q)
    <3>1. Name(r) # Name(q)
      BY <1>2, <2>2, <2>3
    <3>2. QED
      BY <2>2, <2>3, <3>1 DEF Act, Downloading, Invoke, Load, OpenTmp, Transfer, Received, Validate, Rename,
         Truncate, Write, RemoveDb, Exit, Crash, files
  <2>4. CASE ~Downloading(q)
    BY <2>4 DEF Act, Downloading, Invoke, Load, OpenTmp, Transfer, Validate, Rename, Truncate,
       Write, RemoveDb, Exit, Crash, files
  <2>5. QED
    BY <2>3, <2>4
<1>5. QED
  BY <1>1, <1>3, <1>4 DEF Downloaded, Downloading

\* A catalog in use is replaced by a file that was validated, or removed.
LEMMA StepUsable ==
  ASSUME TypeInv, DownloadInv, NEW q \in Procs, Act(q), NEW n \in Sources
  PROVE  \/ db'[n] = db[n]
         \/ Rename(q) /\ n = Name(q) /\ db'[n] = "catalog"
         \/ RemoveDb(q) /\ n = Name(q) /\ db'[n] = NoFile
<1>a. db \in [Sources -> Contents \cup {NoFile}]
  BY DEF TypeInv, TypeOK
<1>1. CASE Rename(q)
  BY <1>a, <1>1 DEF Rename, DownloadInv, Downloaded
<1>2. CASE RemoveDb(q)
  BY <1>a, <1>2 DEF RemoveDb
<1>3. CASE UNCHANGED db
  BY <1>3
<1>4. CASE Transfer(q)
  BY <1>3, <1>4 DEF Transfer, Received, DownloadInv, Downloaded
<1>5. QED
  BY <1>1, <1>2, <1>3, <1>4 DEF Act, Invoke, Load, OpenTmp, Validate, Truncate, Write, Exit, Crash, files

\* Both hold at first and are preserved.
LEMMA DownloadInvariant ==
  ASSUME OwnDownloads
  PROVE  Spec => [](TypeInv /\ DownloadInv /\ DbIsCatalog)
<1>1. Init => TypeInv /\ DownloadInv /\ DbIsCatalog
  BY RegisteredAssumption, SentinelAssumption
     DEF Init, TypeInv, TypeOK, Asked, Steps, Contents, DownloadInv, Downloaded, Downloading, DbIsCatalog, Usable
<1>2. ASSUME TypeInv, DownloadInv, DbIsCatalog, [Next]_vars
      PROVE  DownloadInv' /\ DbIsCatalog'
  <2>1. ASSUME NEW q \in Procs, Act(q) PROVE DownloadInv' /\ DbIsCatalog'
    <3>1. \A r \in Procs : Downloaded(r)'
      BY <1>2, <2>1, StepDownloaded, OthersDownloaded
    <3>2. \A n \in Sources : db'[n] \in {db[n], "catalog", NoFile}
      BY <1>2, <2>1, StepUsable
    <3>3. QED
      BY <1>2, <3>1, <3>2 DEF DownloadInv, DbIsCatalog, Usable
  <2>2. CASE UNCHANGED vars
    BY <1>2, <2>2 DEF vars, files, DownloadInv, Downloaded, Downloading, DbIsCatalog, Usable, Name, Command
  <2>3. QED
    BY <1>2, <2>1, <2>2 DEF Next, Act
<1>3. QED
  BY <1>1, <1>2, StepTyped, PTL DEF Spec

\* A <name>.db that is there opens and answers queries, through failed and
\* partial downloads, rejected catalogs and kills, as long as no two processes
\* download the same source.
THEOREM CatalogsStayUsable == ASSUME OwnDownloads PROVE Spec => []DbIsCatalog
  BY DownloadInvariant, PTL

-----------------------------------------------------------------------------
(* One process at a time saves the list. *)

\* No two processes may be told to add or remove a source: sources.list has no
\* lock, so two commands that save it lose each other's changes.
SavesList(q) == \E n \in Sources : <<"add", n>> \in Requests[q] \/ <<"remove", n>> \in Requests[q]
SingleSaver == \A q, r \in Procs : q # r => ~SavesList(q) \/ ~SavesList(r)

\* What a process that is going to save the list knows of it: the list it
\* loaded is still the list, but for the source it was told.
Kept(q) ==
    LET n == Name(q) IN
    /\ pc[q] \in {"truncate", "write", "remove_db"} => Command(q) \in {"add", "remove"}
    /\ Downloading(q) /\ Command(q) = "add" => sources[q] = registry /\ n \notin registry
    /\ pc[q] = "truncate" =>
          IF Command(q) = "add" THEN n \notin registry /\ sources[q] = registry \cup {n}
                                ELSE n \in registry /\ sources[q] = registry \ {n}
    /\ pc[q] = "write" => registry = {} /\ (n \in sources[q] <=> Command(q) = "add")
    /\ pc[q] \in {"truncate", "write"} /\ Command(q) = "add" => Usable(n)
    /\ pc[q] = "remove_db" => Command(q) = "remove" /\ n \notin registry

KeptInv == \A q \in Procs : Kept(q)

\* While one process runs add or remove, the others run update.
LEMMA SaversApart ==
  ASSUME SingleSaver, TypeInv, NEW q \in Procs, NEW r \in Procs \ {q},
         pc[q] # "idle", pc[r] # "idle", Command(q) \in {"add", "remove"}
  PROVE  Command(r) = "update"
<1>1. ASSUME NEW w \in Procs, pc[w] # "idle", Command(w) \in {"add", "remove"} PROVE SavesList(w)
  <2>1. req[w] \in Requests[w] /\ Name(w) \in Sources /\ req[w] \in Request
    BY <1>1, RequestTyped DEF TypeInv, Asked
  <2>2. req[w] = <<Command(w), Name(w)>>
    BY <2>1 DEF Request, Command, Name
  <2>3. QED
    BY <1>1, <2>1, <2>2 DEF SavesList
<1>2. Command(r) \in {"add", "remove", "update"}
  BY RequestTyped
<1>3. QED
  BY <1>1, <1>2 DEF SingleSaver

\* The next step of the process that moves.
LEMMA StepKept ==
  ASSUME TypeInv, DownloadInv, KeptInv, NEW q \in Procs, Act(q)
  PROVE  Kept(q)'
<1>a. /\ pc \in [Procs -> Steps] /\ sources \in [Procs -> SUBSET Sources]
      /\ req \in [Procs -> Request \cup {NoRequest}] /\ db \in [Sources -> Contents \cup {NoFile}]
      /\ Kept(q) /\ Downloaded(q)
  BY DEF TypeInv, TypeOK, KeptInv, DownloadInv
<1> USE <1>a DEF Kept, Downloading, Goto, Command, Name
<1>1. CASE Invoke(q) \/ Exit(q) \/ Crash(q)
  BY <1>1 DEF Invoke, Exit, Crash, Leaves, Results
<1>2. CASE Load(q)
  BY <1>2 DEF Load, files
<1>3. CASE OpenTmp(q)
  BY <1>3 DEF OpenTmp
<1>4. CASE Transfer(q)
  BY <1>4 DEF Transfer
<1>5. CASE Validate(q)
  BY <1>5 DEF Validate
<1>6. CASE Rename(q)
  <2>1. pc[q] = "rename" /\ Name(q) \in Sources /\ tmp[Name(q)] = "catalog"
    BY <1>6, RequestTyped DEF Rename, Downloaded
  <2>2. db'[Name(q)] = "catalog" \/ pc'[q] = "error"
    BY <1>6, <2>1 DEF Rename
  <2>3. QED
    BY <1>6, <2>1, <2>2 DEF Rename, Usable
<1>7. CASE Truncate(q)
  BY <1>7 DEF Truncate, Usable
<1>8. CASE Write(q)
  BY <1>8 DEF Write
<1>9. CASE RemoveDb(q)
  BY <1>9 DEF RemoveDb
<1>10. QED
  BY <1>1, <1>2, <1>3, <1>4, <1>5, <1>6, <1>7, <1>8, <1>9 DEF Act

\* Who changes the list, and to what.
LEMMA ListWrites ==
  ASSUME NEW q \in Procs, Act(q)
  PROVE  UNCHANGED registry \/ Truncate(q) \/ Write(q)
  BY DEF Act, Invoke, Load, OpenTmp, Transfer, Validate, Rename, RemoveDb, Exit, Crash, files

\* The others keep the list they loaded: nobody else saves it.
LEMMA OthersKept ==
  ASSUME SingleSaver, TypeInv, DownloadInv, KeptInv, NEW q \in Procs, Act(q),
         NEW r \in Procs \ {q}
  PROVE  Kept(r)'
<1>1. /\ pc'[r] = pc[r] /\ Name(r)' = Name(r) /\ Command(r)' = Command(r)
      /\ sources'[r] = sources[r] /\ Kept(r)
  BY OnlyOneMoves DEF KeptInv
<1>2. CASE pc[r] \in {"truncate", "write", "remove_db"} \/ (Downloading(r) /\ Command(r) = "add")
  <2>1. Command(r) \in {"add", "remove"} /\ pc[r] # "idle"
    BY <1>1, <1>2 DEF Kept, Downloading
  <2>2. pc[q] = "idle" \/ Command(q) = "update"
    BY <2>1, SaversApart
  <2>3. ~Truncate(q) /\ ~Write(q) /\ ~RemoveDb(q)
    BY <2>2 DEF Truncate, Write, RemoveDb, KeptInv, Kept
  <2>4. UNCHANGED registry
    BY <2>3, ListWrites
  <2>5. Name(r) \in Sources
    BY <2>1, RequestTyped
  <2>6. Usable(Name(r)) => db'[Name(r)] = "catalog"
    BY <2>3, <2>5, StepUsable DEF Usable
  <2>7. QED
    BY <1>1, <2>4, <2>6 DEF Kept, Downloading, Usable
<1>3. CASE ~(pc[r] \in {"truncate", "write", "remove_db"} \/ (Downloading(r) /\ Command(r) = "add"))
  BY <1>1, <1>3 DEF Kept, Downloading
<1>4. QED
  BY <1>2, <1>3

\* In every reachable state the one process that saves the list knows what is in it.
LEMMA KeptInvariant ==
  ASSUME OwnDownloads, SingleSaver
  PROVE  Spec => [](TypeInv /\ DownloadInv /\ DbIsCatalog /\ KeptInv)
<1>1. Init => KeptInv
  BY DEF Init, KeptInv, Kept, Downloading
<1>2. ASSUME TypeInv, DownloadInv, KeptInv, [Next]_vars PROVE KeptInv'
  <2>1. ASSUME NEW q \in Procs, Act(q) PROVE KeptInv'
    <3>1. \A r \in Procs : Kept(r)'
      BY <1>2, <2>1, StepKept, OthersKept
    <3>2. QED
      BY <3>1 DEF KeptInv
  <2>2. CASE UNCHANGED vars
    BY <1>2, <2>2 DEF vars, files, KeptInv, Kept, Downloading, Usable, Name, Command
  <2>3. QED
    BY <1>2, <2>1, <2>2 DEF Next, Act
<1>3. QED
  BY <1>1, <1>2, DownloadInvariant, PTL DEF Spec

-----------------------------------------------------------------------------
(* The commands implement SourceList. *)

UsableCatalogs == {n \in Sources : Usable(n)}
ListInv == TypeInv /\ DownloadInv /\ KeptInv

\* The abstract list is what the one process that is writing will restore.
WriterSaves == ListInv => \A w \in Procs : pc[w] = "write" => Saving /\ List = ListBefore(w)

\* The writer of a single saver is the one that the abstract list is about.
LEMMA WriterList == ASSUME SingleSaver PROVE WriterSaves
<1> SUFFICES ASSUME ListInv, NEW w \in Procs, pc[w] = "write" PROVE Saving /\ List = ListBefore(w)
  BY DEF WriterSaves
<1>1. Saving
  BY DEF Saving
<1>2. ASSUME NEW r \in Procs, pc[r] = "write" PROVE r = w
  BY <1>2, SaversApart DEF ListInv, KeptInv, Kept
<1>3. (CHOOSE q \in Procs : pc[q] = "write") = w
  BY <1>2
<1>4. QED
  BY <1>1, <1>3 DEF List

\* It is so after every step, too.
LEMMA WriterListNext == ASSUME SingleSaver PROVE WriterSaves'
<1>1. WriterSaves
  BY WriterList
<1>2. QED
  BY <1>1, PTL

\* A step that neither saves nor stops a process that saves.
LEMMA ListStands ==
  ASSUME SingleSaver, ListInv, ListInv', NEW q \in Procs, Act(q),
         pc[q] # "write", pc'[q] # "write", UNCHANGED registry
  PROVE  Saving' = Saving /\ List' = List
<1>1. ASSUME NEW r \in Procs \ {q}
      PROVE  /\ pc'[r] = pc[r] /\ ListBefore(r)' = ListBefore(r)
  BY OnlyOneMoves DEF ListInv, ListBefore
<1>2. Saving' = Saving
  BY <1>1 DEF Saving
<1>3. CASE Saving
  <2>1. PICK w \in Procs \ {q} : pc[w] = "write"
    BY <1>3 DEF Saving
  <2>2. List = ListBefore(w)
    BY <2>1, WriterList DEF WriterSaves
  <2>3. List' = ListBefore(w)'
    <3>1. pc'[w] = "write"
      BY <1>1, <2>1
    <3>2. QED
      BY <3>1, WriterListNext DEF WriterSaves
  <2>4. QED
    BY <1>1, <1>2, <2>1, <2>2, <2>3
<1>4. CASE ~Saving
  BY <1>2, <1>4 DEF List
<1>5. QED
  BY <1>3, <1>4

\* Usable catalogs change when a process renames its download or removes the
\* catalog of the source it has removed.
LEMMA CatalogsStand ==
  ASSUME ListInv, NEW q \in Procs, Act(q), ~Rename(q), ~RemoveDb(q)
  PROVE  UsableCatalogs' = UsableCatalogs
  BY StepUsable DEF ListInv, UsableCatalogs, Usable

\* Nobody else saves the list while q does.
LEMMA OnlySaver ==
  ASSUME SingleSaver, ListInv, NEW q \in Procs,
         pc[q] \in {"truncate", "write", "remove_db"}, NEW r \in Procs \ {q}
  PROVE  pc[r] # "write"
  BY SaversApart DEF ListInv, KeptInv, Kept

\* Every step is a step of SourceList, or none.
LEMMA StepListed ==
  ASSUME SingleSaver, ListInv, ListInv', [Next]_vars
  PROVE  [Promise!Next]_(Promise!lvars)
<1>0. ASSUME List' = List, Saving' = Saving, UsableCatalogs' = UsableCatalogs PROVE UNCHANGED Promise!lvars
  BY <1>0 DEF Promise!lvars, UsableCatalogs
<1>a. TypeInv /\ pc \in [Procs -> Steps] /\ \A q \in Procs : Kept(q) /\ Downloaded(q)
  BY DEF ListInv, TypeInv, TypeOK, KeptInv, DownloadInv
<1> USE DEF Goto
<1>1. ASSUME NEW q \in Procs, Act(q) PROVE [Promise!Next]_(Promise!lvars)
  <2>a. Truncate(q) \/ Write(q) \/ Rename(q) \/ RemoveDb(q) \/ Crash(q) =>
           /\ Name(q) \in Sources
           /\ \A r \in Procs \ {q} : pc'[r] = pc[r]
    BY <1>1, <1>a, RequestTyped, OnlyOneMoves DEF Truncate, Write, Rename, RemoveDb, Crash
  <2>1. CASE Truncate(q)
    <3>1. pc[q] = "truncate" /\ pc'[q] = "write" /\ ListBefore(q)' = ListBefore(q)
      BY <1>a, <2>1 DEF Truncate, ListBefore, Command, Name
    <3>2. ListBefore(q) = registry
      BY <1>a, <3>1 DEF Kept, ListBefore
    <3>3. ~Saving /\ List = registry
      BY <3>1, OnlySaver DEF Saving, List
    <3>4. Saving' /\ List' = ListBefore(q)'
      BY <3>1, WriterListNext DEF WriterSaves
    <3>5. UsableCatalogs' = UsableCatalogs
      BY <1>1, <2>1, <3>1, CatalogsStand DEF Rename, RemoveDb
    <3>6. Promise!BeginSave
      BY <3>1, <3>2, <3>3, <3>4, <3>5 DEF Promise!BeginSave, UsableCatalogs
    <3>7. QED
      BY <3>6 DEF Promise!Next
  <2>2. CASE pc[q] = "write"
    <3>1. Write(q) \/ Crash(q)
      BY <1>1, <2>2 DEF Act, Invoke, Load, OpenTmp, Transfer, Validate, Rename, Truncate, RemoveDb,
         Exit, Results
    <3>2. Saving /\ List = ListBefore(q)
      BY <2>2, WriterList DEF WriterSaves
    <3>3. ~Saving' /\ List' = registry'
      <4>1. pc'[q] # "write"
        BY <1>a, <3>1 DEF Write, Crash, Leaves
      <4>2. QED
        BY <2>a, <2>2, <3>1, <4>1, OnlySaver DEF Saving, List
    <3>4. UsableCatalogs' = UsableCatalogs
      BY <1>1, <2>2, CatalogsStand DEF Rename, RemoveDb
    <3>5. CASE Crash(q)
      <4>1. registry' = {}
        BY <1>a, <2>2, <3>5 DEF Crash, Kept, files
      <4>2. Promise!Lose
        BY <3>2, <3>3, <3>4, <4>1 DEF Promise!Lose, Promise!Saved, UsableCatalogs
      <4>3. QED
        BY <4>2 DEF Promise!Next
    <3>6. CASE Write(q)
      <4>1. PICK n \in Sources : n = Name(q)
        BY <2>a, <3>6
      <4>2. registry' = sources[q]
        BY <3>6 DEF Write
      <4>3. CASE Command(q) = "add"
        <5>1. n \in sources[q] /\ n \in UsableCatalogs /\ ListBefore(q) = sources[q] \ {n}
          BY <1>a, <2>2, <4>1, <4>3 DEF Kept, UsableCatalogs, ListBefore
        <5>2. List' = List \cup {n}
          BY <3>2, <3>3, <4>2, <5>1
        <5>3. Promise!Register(n)
          BY <3>2, <3>3, <3>4, <5>1, <5>2 DEF Promise!Register, Promise!Saved, UsableCatalogs
        <5>4. QED
          BY <5>3 DEF Promise!Next
      <4>4. CASE Command(q) # "add"
        <5>1. n \notin sources[q] /\ ListBefore(q) = sources[q] \cup {n}
          BY <1>a, <2>2, <4>1, <4>4 DEF Kept, ListBefore
        <5>2. List' = List \ {n}
          BY <3>2, <3>3, <4>2, <5>1
        <5>3. Promise!Unregister(n)
          BY <3>2, <3>3, <3>4, <5>2 DEF Promise!Unregister, Promise!Saved, UsableCatalogs
        <5>4. QED
          BY <5>3 DEF Promise!Next
      <4>5. QED
        BY <4>3, <4>4
    <3>7. QED
      BY <3>1, <3>5, <3>6
  <2>3. CASE Rename(q)
    <3>1. PICK n \in Sources : n = Name(q)
      BY <2>a, <2>3
    <3>2. pc[q] = "rename" /\ pc'[q] # "write" /\ UNCHANGED registry
      BY <1>a, <2>3 DEF Rename
    <3>3. Saving' = Saving /\ List' = List
      BY <1>1, <3>2, ListStands
    <3>4. UsableCatalogs' \in {UsableCatalogs, UsableCatalogs \cup {n}}
      <4>1. \A m \in Sources : db'[m] = db[m] \/ (m = n /\ db'[m] = "catalog")
        BY <1>1, <2>3, <3>1, <3>2, <1>a, StepUsable DEF ListInv, RemoveDb
      <4>2. CASE db'[n] = "catalog"
        BY <4>1, <4>2 DEF UsableCatalogs, Usable
      <4>3. CASE db'[n] = db[n]
        BY <4>1, <4>3 DEF UsableCatalogs, Usable
      <4>4. QED
        BY <4>1, <4>2, <4>3
    <3>5. CASE UsableCatalogs' = UsableCatalogs
      BY <1>0, <3>3, <3>5
    <3>6. CASE UsableCatalogs' = UsableCatalogs \cup {n}
      <4>1. Promise!Refresh(n)
        BY <3>3, <3>6 DEF Promise!Refresh, UsableCatalogs
      <4>2. QED
        BY <4>1 DEF Promise!Next
    <3>7. QED
      BY <3>4, <3>5, <3>6
  <2>4. CASE RemoveDb(q)
    <3>1. PICK n \in Sources : n = Name(q)
      BY <2>a, <2>4
    <3>2. pc[q] = "remove_db" /\ pc'[q] # "write" /\ UNCHANGED registry
      BY <1>a, <2>4 DEF RemoveDb
    <3>3. Saving' = Saving /\ List' = List
      BY <1>1, <3>2, ListStands
    <3>4. n \notin List
      BY <1>a, <3>1, <3>2, OnlySaver DEF Saving, List, Kept
    <3>5. UsableCatalogs' = UsableCatalogs \ {n}
      <4>1. db' = [db EXCEPT ![n] = NoFile] /\ db \in [Sources -> Contents \cup {NoFile}]
        BY <1>a, <2>4, <3>1 DEF RemoveDb, TypeInv, TypeOK
      <4>2. NoFile # "catalog"
        BY SentinelAssumption DEF Contents
      <4>3. QED
        BY <4>1, <4>2 DEF UsableCatalogs, Usable
    <3>6. Promise!Discard(n)
      BY <3>3, <3>4, <3>5 DEF Promise!Discard, UsableCatalogs
    <3>7. QED
      BY <3>6 DEF Promise!Next
  <2>5. CASE pc[q] # "write" /\ ~Truncate(q) /\ ~Rename(q) /\ ~RemoveDb(q)
    <3>1. pc'[q] # "write" /\ UNCHANGED registry
      BY <1>1, <1>a, <2>5 DEF Act, Invoke, Load, OpenTmp, Transfer, Validate, Write, Exit, Crash,
         Leaves, files
    <3>2. QED
      BY <1>0, <1>1, <2>5, <3>1, ListStands, CatalogsStand
  <2>6. QED
    BY <2>1, <2>2, <2>3, <2>4, <2>5
<1>2. CASE UNCHANGED vars
  BY <1>0, <1>2 DEF vars, files, List, ListBefore, Saving, UsableCatalogs, Usable, Name, Command
<1>3. QED
  BY <1>1, <1>2 DEF Next, Act

\* With one process at a time that saves the list, and one that downloads a
\* source, the commands implement SourceList: the list changes one source at a
\* time or is lost in a kill, a source is registered with its catalog on disk,
\* and no catalog of a registered source is discarded.
THEOREM SourcesImplemented ==
  ASSUME OwnDownloads, SingleSaver
  PROVE  Spec => SourcesPromise
<1>1. Init => Promise!Init
  <2>1. SUFFICES ASSUME Init PROVE Promise!Init
    OBVIOUS
  <2>2. Saving = FALSE /\ List = Registered
    BY <2>1 DEF Init, Saving, List
  <2>3. Registered \subseteq {n \in Sources : Usable(n)}
    BY <2>1, RegisteredAssumption DEF Init, Usable
  <2>4. QED
    BY <2>2, <2>3 DEF Promise!Init
<1>2. TypeInv /\ DownloadInv /\ KeptInv /\ (TypeInv /\ DownloadInv /\ KeptInv)' /\ [Next]_vars
      => [Promise!Next]_(Promise!lvars)
  BY StepListed DEF ListInv
<1>3. QED
  BY <1>1, <1>2, KeptInvariant, PTL DEF Spec, SourcesPromise, Promise!Spec
=============================================================================
