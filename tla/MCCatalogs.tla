----------------------------- MODULE MCCatalogs -----------------------------
(* Instances of Catalogs for TLC. *)
EXTENDS Catalogs, TLC

CONSTANTS p1, p2, pu, s1, s2, f1, f2, f3, newest, older, other, urls

R(n, v) == [id |-> n, version |-> v]

\* The user indexes the releases of p2, the second one also under the name of the
\* first, and a release of p1 that has only a Windows installer.
NamesOfFiles ==
    [r \in Releases |->
        CASE r = R(p2, 1) -> {f1} [] r = R(p2, 2) -> {f1, f2} [] r = R(p1, 3) -> {f3} [] OTHER -> {}]

\* Two packages whose manifests have the same name, in different directories.
OneName == [r \in Releases |-> IF r.id = pu THEN {} ELSE {f1}]

\* s1 replaces its manifest of a package in place, s2 keeps two files of p1.
PathsOf ==
    [s \in Sources |-> [r \in Releases |->
        CASE r.id = p1 -> IF s = s1 \/ r.version = 2 THEN newest ELSE older
          [] r.id = p2 -> other
          [] r.id = pu -> urls]]

\* s1 has the second release of p1, and may go back to the first one; s2 has the first
\* one, and may add the second.
WillPublish == s1 :> {R(p1, 1), R(p1, 2)} @@ s2 :> {R(p1, 2)}
First ==
    [s \in Sources |-> [p \in Paths |->
        CASE s = s1 /\ p = newest -> R(p1, 2) [] s = s2 /\ p = older -> R(p1, 1) [] OTHER -> NoFile]]
WithInstaller == Releases \ {R(p1, 3)}
Order == <<s2, s1>>

\* The first release of p1 was installed from s1 before s1 replaced it.
Installed == [n \in Ids |-> IF n = p1 THEN [version |-> 1, source |-> s1] ELSE NoRecord]
Brought == {[id |-> p1, pinned |-> FALSE], [id |-> p2, pinned |-> TRUE]}
=============================================================================
