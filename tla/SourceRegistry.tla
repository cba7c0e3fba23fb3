--------------------------- MODULE SourceRegistry ---------------------------
(***************************************************************************)
(* The registry of remote catalogs and the three commands that change it.  *)
(*                                                                         *)
(*   registry   ~/.winget/sources/sources.list, which no lock protects     *)
(*   db, tmp    ~/.winget/sources/<name>.db and <name>.db.tmp              *)
(*                                                                         *)
(* A process that opened <name>.db.tmp keeps writing to the same inode     *)
(* after another process has renamed or removed it: `out` says under which *)
(* name the file a process writes is to be found by now.                   *)
(*                                                                         *)
(* Names that end in _Bug are seeded faults: each is the definition after  *)
(* it with a plausible mistake, kept to show that some property notices.   *)
(***************************************************************************)
CONSTANTS
    Procs,       \* invocations of `winget source ...` that may overlap
    Sources,     \* source names
    Requests,    \* [Procs -> SUBSET Request]: what each of them may be asked
    Registered,  \* the sources registered before the first of these commands
    Faults,      \* what may go wrong: "crash", "network", "garbage"
    NoFile, NoRequest

Request == {"add", "remove", "update"} \X Sources

\* A file that is being written, a catalog SQLiteIndex opens, anything else.
Contents == {"partial", "catalog", "garbage"}

ASSUME RequestsAssumption == Requests \in [Procs -> SUBSET Request]
ASSUME RegisteredAssumption == Registered \subseteq Sources
ASSUME SentinelAssumption == NoFile \notin Contents /\ NoRequest \notin Request
ASSUME FaultsAssumption == Faults \subseteq {"crash", "network", "garbage"}

VARIABLES registry, db, tmp,   \* the files
          pc, req, sources, out         \* the processes: locals `sources`, `out`

files == <<registry, db, tmp>>
vars == <<registry, db, tmp, pc, req, sources, out>>

Results == {"ok", "exists", "not_found", "failed", "rejected", "error"}
Steps == {"idle", "load", "open", "transfer", "validate", "rename",
          "truncate", "write", "remove_db"} \cup Results

TypeOK ==
    /\ registry \in SUBSET Sources
    /\ db \in [Sources -> Contents \cup {NoFile}]
    /\ tmp \in [Sources -> Contents \cup {NoFile}]
    /\ pc \in [Procs -> Steps]
    /\ req \in [Procs -> Request \cup {NoRequest}]
    /\ sources \in [Procs -> SUBSET Sources]
    /\ out \in [Procs -> {"closed", "tmp", "db", "unlinked"}]

Init ==
    /\ registry = Registered
    /\ tmp = [n \in Sources |-> NoFile]
    /\ db = [n \in Sources |-> IF n \in Registered THEN "catalog" ELSE NoFile]
    /\ pc = [q \in Procs |-> "idle"]
    /\ req = [q \in Procs |-> NoRequest]
    /\ sources = [q \in Procs |-> {}]
    /\ out = [q \in Procs |-> "closed"]

Command(q) == req[q][1]
Name(q) == req[q][2]
Goto(q, step) == pc' = [pc EXCEPT ![q] = step]

\* Where the open files of the other processes are once q has renamed or
\* removed something of its source: to[w] for a file that was found at w.
Follow(q, to) ==
    [r \in Procs |-> IF r # q /\ out[r] \in DOMAIN to /\ Name(r) = Name(q)
                     THEN to[out[r]] ELSE out[r]]

\* The process ends; its open file is closed with it.
Leaves(q) ==
    /\ Goto(q, "idle")
    /\ req' = [req EXCEPT ![q] = NoRequest]
    /\ sources' = [sources EXCEPT ![q] = {}]
    /\ out' = [out EXCEPT ![q] = "closed"]

-----------------------------------------------------------------------------

Invoke(q) ==
    /\ pc[q] = "idle"
    /\ \E r \in Requests[q] : req' = [req EXCEPT ![q] = r]
    /\ Goto(q, "load")
    /\ UNCHANGED <<files, sources, out>>

\* LoadSources, and the early return of each command.  The list the process
\* will save is fixed here.
Load(q) ==
    LET known == Name(q) \in registry
    IN  /\ pc[q] = "load"
        /\ \/ /\ Command(q) = "add"
              /\ Goto(q, IF known THEN "exists" ELSE "open")
              /\ sources' = [sources EXCEPT ![q] = registry]
           \/ /\ Command(q) = "remove"
              /\ Goto(q, IF known THEN "truncate" ELSE "not_found")
              /\ sources' = [sources EXCEPT ![q] = registry \ {Name(q)}]
           \/ /\ Command(q) = "update"
              /\ Goto(q, IF known THEN "open" ELSE "not_found")
              /\ UNCHANGED sources
        /\ UNCHANGED <<files, req, out>>

\* DownloadReal opens <name>.db.tmp: a new file, or the existing one emptied.
OpenTmp(q) ==
    /\ pc[q] = "open"
    /\ tmp' = [tmp EXCEPT ![Name(q)] = "partial"]
    /\ out' = [out EXCEPT ![q] = "tmp"]
    /\ Goto(q, "transfer")
    /\ UNCHANGED <<registry, db, req, sources>>

\* The body has arrived, in whatever file the process has open.  While another
\* process writes to the same one, the file may be a mixture of the two.
Received(q, c) ==
    LET n == Name(q)
        shared == \E r \in Procs \ {q} : out[r] = out[q] /\ Name(r) = n
    IN  \E d \in {c} \cup (IF shared THEN {"partial"} ELSE {}) :
            /\ tmp' = IF out[q] = "tmp" THEN [tmp EXCEPT ![n] = d] ELSE tmp
            /\ db' = IF out[q] = "db" THEN [db EXCEPT ![n] = d] ELSE db

\* The transfer succeeds, with a catalog or with something else, or fails, and
\* then the name <name>.db.tmp is removed.
Transfer(q) ==
    /\ pc[q] = "transfer"
    /\ \/ /\ \E c \in {"catalog"} \cup (Faults \cap {"garbage"}) : Received(q, c)
          /\ Goto(q, "validate")
          /\ out' = [out EXCEPT ![q] = "closed"]
       \/ /\ "network" \in Faults
          /\ tmp' = [tmp EXCEPT ![Name(q)] = NoFile]
          /\ Goto(q, "failed")
          /\ out' = [Follow(q, [tmp |-> "unlinked"]) EXCEPT ![q] = "closed"]
          /\ UNCHANGED db
    /\ UNCHANGED <<registry, req, sources>>

Validate_Bug(q) ==     \* whatever arrived is accepted
    /\ pc[q] = "validate"
    /\ Goto(q, "rename")
    /\ UNCHANGED <<files, req, sources, out>>

\* ValidateCatalog on the path <name>.db.tmp, whatever it names by now.
Validate(q) ==
    LET n == Name(q)
    IN  /\ pc[q] = "validate"
        /\ IF tmp[n] = "catalog"
           THEN Goto(q, "rename") /\ UNCHANGED <<tmp, out>>
           ELSE /\ Goto(q, "rejected")
                /\ tmp' = [tmp EXCEPT ![n] = NoFile]
                /\ out' = Follow(q, [tmp |-> "unlinked"])
        /\ UNCHANGED <<registry, db, req, sources>>

Rename_Bug(q) ==     \* the entry is saved as the bare name
    LET n == Name(q)
    IN  /\ pc[q] = "rename" /\ tmp[n] # NoFile
        /\ db' = [db EXCEPT ![n] = tmp[n]]
        /\ tmp' = [tmp EXCEPT ![n] = NoFile]
        /\ sources' = [sources EXCEPT ![q] = {n}]
        /\ Goto(q, IF Command(q) = "add" THEN "truncate" ELSE "ok")
        /\ UNCHANGED <<registry, req, out>>

\* rename(tmp, db) throws when the file is gone.  `add` then appends its entry
\* to the list it loaded at the start.
Rename(q) ==
    LET n == Name(q)
    IN  /\ pc[q] = "rename"
        /\ \/ /\ tmp[n] = NoFile
              /\ Goto(q, "error")
              /\ UNCHANGED <<db, tmp, sources, out>>
           \/ /\ tmp[n] # NoFile
              /\ db' = [db EXCEPT ![n] = tmp[n]]
              /\ tmp' = [tmp EXCEPT ![n] = NoFile]
              /\ out' = Follow(q, [tmp |-> "db", db |-> "unlinked"])
              /\ \/ /\ Command(q) = "add"
                    /\ sources' = [sources EXCEPT ![q] = @ \cup {n}]
                    /\ Goto(q, "truncate")
                 \/ /\ Command(q) = "update"
                    /\ Goto(q, "ok") /\ UNCHANGED sources
        /\ UNCHANGED <<registry, req>>

\* SaveSources: ofstream(trunc) empties sources.list ...
Truncate(q) ==
    /\ pc[q] = "truncate"
    /\ registry' = {}
    /\ Goto(q, "write")
    /\ UNCHANGED <<db, tmp, req, sources, out>>

Write_Bug(q) ==     \* no newline between the entries: they become one
    /\ pc[q] = "write"
    /\ registry' = {sources[q]}
    /\ Goto(q, IF Command(q) = "remove" THEN "remove_db" ELSE "ok")
    /\ UNCHANGED <<db, tmp, req, sources, out>>

\* ... and its destructor writes the lines.
Write(q) ==
    /\ pc[q] = "write"
    /\ registry' = sources[q]
    /\ Goto(q, IF Command(q) = "remove" THEN "remove_db" ELSE "ok")
    /\ UNCHANGED <<db, tmp, req, sources, out>>

RemoveDb(q) ==
    /\ pc[q] = "remove_db"
    /\ db' = [db EXCEPT ![Name(q)] = NoFile]
    /\ out' = Follow(q, [db |-> "unlinked"])
    /\ Goto(q, "ok")
    /\ UNCHANGED <<registry, tmp, req, sources>>

Exit(q) == pc[q] \in Results /\ Leaves(q) /\ UNCHANGED files

Crash(q) ==
    /\ "crash" \in Faults
    /\ pc[q] \notin Results \cup {"idle"}
    /\ Leaves(q)
    /\ UNCHANGED files

Next ==
    \E q \in Procs :
        \/ Invoke(q) \/ Load(q) \/ OpenTmp(q) \/ Transfer(q) \/ Validate(q)
        \/ Rename(q) \/ Truncate(q) \/ Write(q) \/ RemoveDb(q)
        \/ Exit(q) \/ Crash(q)

Spec == Init /\ [][Next]_vars

-----------------------------------------------------------------------------

Usable(n) == db[n] = "catalog"

\* <name>.db is only ever replaced by a file that has been confirmed to open
\* and answer queries, so it never holds anything else.
DbIsCatalog == \A n \in Sources : db[n] # NoFile => Usable(n)

\* While one process rewrites the list, the list is still what it was.
ListBefore(q) == IF Command(q) = "add" THEN sources[q] \ {Name(q)}
                 ELSE sources[q] \cup {Name(q)}
Saving == \E q \in Procs : pc[q] = "write"
List == IF Saving THEN ListBefore(CHOOSE q \in Procs : pc[q] = "write") ELSE registry

Promise == INSTANCE SourceList
              WITH registered <- List, saving <- Saving,
                   usable <- {n \in Sources : Usable(n)}

\* With one process at a time saving the list, `source add | remove | update`
\* register no source without a usable catalog, forget none they were not
\* told to, and leave every registered source's catalog usable through failed
\* downloads, rejected catalogs and kills.
SourcesPromise == Promise!Spec
=============================================================================
