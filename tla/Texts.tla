------------------------------- MODULE Texts -------------------------------
(***************************************************************************)
(* The texts that MsiArguments and Utf8 are about: a text grows piece by   *)
(* piece from nothing, so that every text of the pieces occurs.  What it   *)
(* is, arguments, a value to be quoted or a wide string, is decided first. *)
(***************************************************************************)
EXTENDS MsiArguments, Utf8

CONSTANTS
    Kinds,      \* of "properties", "values", "options" and "units"
    Pieces,     \* the pieces of each kind
    Most        \* how many pieces a text of each kind has at most

\* A wide string holds units, any other text characters and words.
Signs(kind) == IF kind = "units" THEN Units ELSE STRING

ASSUME PiecesAssumption == \A kind \in Kinds : Pieces[kind] \subseteq Seq(Signs(kind))

VARIABLES subject, text

texts == <<subject, text>>

TextsInit ==
    /\ subject \in Kinds
    /\ text = [size |-> 0, content |-> <<>>]

Grow ==
    /\ subject \in Kinds
    /\ text.size < Most[subject]
    /\ \E piece \in Pieces[subject] :
          text' = [size |-> text.size + 1, content |-> text.content \o piece]
    /\ UNCHANGED subject

TextsSpec == TextsInit /\ [][Grow]_texts

-----------------------------------------------------------------------------
(* Properties, each for its kind of text *)

\* The tokens of msiexec arguments are all of the text.
TokensCoverInput == subject = "properties" => TokensCover(text.content)

\* What is handed on to msiexec is what was looked through for blocked properties.
PropertiesSurvive ==
    subject \in {"properties", "options"} => SurvivesHandingOn(text.content)

\* A property is accepted if and only if it follows the documented grammar.
PropertiesFollowGrammar == subject = "properties" => FollowsGrammar(text.content)

\* A quoted value is read back.
QuotingRoundTrips == subject = "values" => ReadsBack(text.content)

\* The token behind a log option is its file, and the last option counts.
OptionsHaveTheirPlace == subject = "options" => PlaceDecides(text.content)

\* Text in the basic plane survives the way to UTF-8 and back.
Utf8RoundTrips == subject = "units" => ConvertsBack(text.content)
=============================================================================
