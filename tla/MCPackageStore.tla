--------------------------- MODULE MCPackageStore ---------------------------
(* Instances of PackageStore for TLC. *)
EXTENDS PackageStore, TLC

CONSTANTS p1, p2,          \* two invocations of winget
          A, Z, U, M,      \* a Portable package, a Zip package, url:<alias>, a moniker
          x, y, z,         \* command names
          v1, v2           \* releases

Manifest(n, v, b, a) == [id |-> n, version |-> v, backend |-> b, alias |-> a]

\* A Portable package with two releases and a Zip package with one, each with a
\* command name of its own.
TwoPackageOffers ==
    [n \in Names |-> IF n = A THEN {Manifest(A, v, "portable", x) : v \in Versions}
                     ELSE IF n = Z THEN {Manifest(Z, v1, "zip", y)}
                     ELSE {}]

\* Two releases of both, and one command name, x, for both.
SharedOffers ==
    [n \in Names |-> IF n = A THEN {Manifest(A, v, "portable", x) : v \in Versions}
                     ELSE IF n = Z THEN {Manifest(Z, v, "zip", x) : v \in Versions}
                     ELSE {}]

\* The moniker M finds A.
MonikerOffers ==
    [n \in Names |-> {Manifest(A, v, "portable", x) : v \in Versions}]

\* Release v1 of A is a Zip, release v2 a Portable.
SwitchOffers ==
    [n \in Names |-> {Manifest(A, v1, "zip", x), Manifest(A, v2, "portable", x)}]

NoUrls == {}
UrlOfZ == {Manifest(U, v1, "portable", z)}

EitherProc == Permutations(Procs)
=============================================================================
