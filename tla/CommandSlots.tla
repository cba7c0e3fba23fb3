---------------------------- MODULE CommandSlots ----------------------------
(***************************************************************************)
(* What winget-termux keeps to at the names under $PREFIX/bin: a name that *)
(* a stranger's command occupies is left alone, and a name changes hands   *)
(* only while a command works on a package that wants it.  Packages that   *)
(* want the same name take it from each other: IsOurManagedSymlink asks    *)
(* whether a symlink is winget-termux's, not whose.  PackageStore, with    *)
(* its files, its downloads and its crashes, is shown to implement this.   *)
(***************************************************************************)
CONSTANTS Packages, Names,
          Wants,           \* [Packages -> SUBSET Names]
          Free, Stranger   \* two different values that are no packages

VARIABLES slot,   \* who owns each command name
          busy    \* the packages a command is working on

svars == <<slot, busy>>

Init ==
    /\ slot \in [Names -> {Free, Stranger}]
    /\ busy = {}

Begin(p) == p \notin busy /\ busy' = busy \cup {p} /\ UNCHANGED slot
End(p)   == p \in busy /\ busy' = busy \ {p} /\ UNCHANGED slot

\* A free name becomes a package's, and a package's name becomes free: in both
\* cases only while a package that wants the name is worked on.
Claim(a, p) ==
    /\ p \in busy /\ a \in Wants[p]
    /\ slot[a] = Free
    /\ slot' = [slot EXCEPT ![a] = p]
    /\ UNCHANGED busy

Release(a, p) ==
    /\ p \in busy /\ a \in Wants[p]
    /\ slot[a] \in Packages
    /\ slot' = [slot EXCEPT ![a] = Free]
    /\ UNCHANGED busy

Next ==
    \E p \in Packages :
        \/ Begin(p) \/ End(p)
        \/ \E a \in Names : Claim(a, p) \/ Release(a, p)

Spec == Init /\ [][Next]_svars
=============================================================================
