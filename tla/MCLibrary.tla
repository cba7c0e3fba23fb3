----------------------------- MODULE MCLibrary -----------------------------
(***************************************************************************)
(* An instance for TLC of the parts that winget-termux replaces in the     *)
(* library of winget-cli and that share no state: sign-in with a device    *)
(* code, the search of a catalog, and the texts of msiexec arguments and   *)
(* of UTF-8.  A behaviour is about one subject; the others stand still.    *)
(***************************************************************************)
EXTENDS DeviceCodeFlow, SearchResults, Texts

CONSTANTS Subjects, MaxPieces

-----------------------------------------------------------------------------
(* A catalog *)

Fact(i, f, v) == [item |-> i, field |-> f, value |-> v]
By(f, t, v) == [field |-> f, type |-> t, value |-> v]

\* Three manifests of two packages, one with two tags that match, and a pair of
\* words that only the newer schemas look for.
CatalogFacts ==
    {Fact(2, "name", << <<"b">> >>),
     Fact(1, "tag", << <<"A", "b">> >>), Fact(1, "tag", << <<"a">> >>), Fact(3, "tag", << <<"a">> >>),
     Fact(2, "normalizedNameAndPublisher", << <<"A", "b">>, <<"A">> >>)}

PackageOfManifest == <<"p", "p", "q">>

Asked ==
    {By("name", "exact", << <<"b">> >>), By("tag", "startsWith", << <<"a">> >>),
     By("normalizedNameAndPublisher", "substring", << <<"b">>, <<"a">> >>)}

OldAndNew == {<<1, 0>>, <<1, 2>>, <<2, 0>>}

-----------------------------------------------------------------------------
(* Texts *)

\* The pieces of each kind of text: arguments with properties, values to be
\* quoted, arguments with options, and wide strings.
PiecesOfKind ==
    [properties |-> {<<" ">>, <<Quote>>, <<"=">>, <<"patch">>},
     values |-> {<<" ">>, <<Quote>>, <<Escaped>>, <<Backslash>>, <<"x">>},
     options |-> {<<"/", "quiet", " ">>, <<"-", "passive", " ">>, <<"/", "q", "+", " ">>,
                  <<"/", "q", "n", "-", " ">>, <<"/", "log", " ">>, <<"/", "l", "w", "!", " ">>,
                  <<"patch", "=", " ">>, <<"x", "=", "x">>, <<"x", " ">>, <<"/", " ">>},
     units |-> {<<n>> : n \in {0, 127, 128, 2047, 2048, 4095, 4096, 55296, 65535}}]

MostPieces ==
    [properties |-> MaxPieces + 3, values |-> MaxPieces + 1, options |-> MaxPieces, units |-> 3]

-----------------------------------------------------------------------------

LibraryInit ==
    /\ subject \in Subjects
    /\ text = [size |-> 0, content |-> <<>>]
    /\ Init
    /\ IF subject = "search" THEN SearchInit
       ELSE /\ schema = <<1, 0>> /\ facts = {} /\ rows = {} /\ sortOrdinal = 0
            /\ phase = "off" /\ searches = <<>> /\ filters = <<>> /\ result = NoResult

LibraryNext ==
    \/ Grow /\ UNCHANGED <<vars, table>>
    \/ subject = "device" /\ Next /\ UNCHANGED <<texts, table>>
    \/ subject = "search" /\ SearchNext /\ UNCHANGED <<texts, vars>>

all == <<texts, vars, table>>

\* The fairness of DeviceCodeFlow, for the behaviours that are about it.
LibrarySpec ==
    /\ LibraryInit /\ [][LibraryNext]_all
    /\ WF_all(subject = "device" /\ Program /\ UNCHANGED <<texts, table>>)
    /\ WF_all(subject = "device" /\ Tick /\ UNCHANGED <<texts, table>>)
=============================================================================
