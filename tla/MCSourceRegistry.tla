-------------------------- MODULE MCSourceRegistry --------------------------
(* Instances of SourceRegistry for TLC. *)
EXTENDS SourceRegistry

CONSTANTS p1, p2, s1, s2, s3

\* p1 is the user's shell, p2 refreshes s3 in the background.
OneSaver ==
    [q \in Procs |-> IF q = p1
                     THEN {"add", "remove", "update"} \X {s1, s2} \cup {<<"remove", s3>>}
                     ELSE {<<"update", s3>>}]

\* Both refresh the same source.
BothUpdate == [q \in Procs |-> {<<"update", s1>>}]
=============================================================================
