---------------------------- MODULE MsiArguments ----------------------------
(***************************************************************************)
(* The parser of msiexec arguments (ParseMSIArguments): a text is cut into *)
(* tokens, long options are replaced by short ones, and token after token  *)
(* becomes a log option, a UI level, or a property that is handed on to    *)
(* msiexec in a text of its own.                                           *)
(*                                                                         *)
(* A text is a sequence of characters.  Letters stand for either case, and *)
(* a word the parser knows (quiet, patch, ...) counts as one letter; it is *)
(* no letter the parser knows.  A parser that throws, or returns nullopt   *)
(* for a property, yields a result that is not `ok`.                       *)
(***************************************************************************)
EXTENDS Integers, FiniteSets, Sequences, SequencesExt

White == {" ", "tab"}
Quote == "double quote"
Escaped == "back quote"
Backslash == "backslash"
NotAlphaNumeric ==
    White \cup {Quote, Escaped, Backslash, "=", "/", "-", "+", "!", "*", "%", "."}

Valid(v) == [ok |-> TRUE, value |-> v]
Invalid == [ok |-> FALSE, value |-> <<>>]

\* The smallest of a set of positions.
First(positions) == CHOOSE p \in positions : \A q \in positions : p <= q

-----------------------------------------------------------------------------
(* Tokens *)

IsSwitch(token) == token[1] \in {"-", "/"}

\* A token that starts with a quote ends behind the next one; any other ends in
\* front of the first blank that is not between quotes.
GetNextToken_Bug(arguments, start) ==       \* the closing quote is not moved past
    LET s == First({p \in start..Len(arguments) : arguments[p] \notin White})
        separators ==
            IF arguments[s] = Quote
            THEN {p \in s + 1..Len(arguments) : arguments[p] = Quote}
            ELSE {p \in s + 1..Len(arguments) :
                     /\ arguments[p] \in White
                     /\ Cardinality({q \in s..p : arguments[q] = Quote}) % 2 = 0}
    IN  [from |-> s, next |-> First(separators \cup {Len(arguments) + 1})]

GetNextToken(arguments, start) ==
    LET s == First({p \in start..Len(arguments) : arguments[p] \notin White})
        separators ==
            IF arguments[s] = Quote
            THEN {p + 1 : p \in {q \in s + 1..Len(arguments) : arguments[q] = Quote}}
            ELSE {p \in s + 1..Len(arguments) :
                     /\ arguments[p] \in White
                     /\ Cardinality({q \in s..p : arguments[q] = Quote}) % 2 = 0}
    IN  [from |-> s, next |-> First(separators \cup {Len(arguments) + 1})]

TokenizeMsiArguments(arguments) ==
    LET tokens[start \in 1..Len(arguments) + 1] ==
            IF \A p \in start..Len(arguments) : arguments[p] \in White THEN <<>>
            ELSE LET t == GetNextToken(arguments, start)
                 IN  <<SubSeq(arguments, t.from, t.next - 1)>> \o tokens[t.next]
    IN  tokens[1]

Replacements ==
    [quiet         |-> << <<"/", "q", "n">> >>,
     passive       |-> << <<"/", "q", "b", "!", "-">>, <<"rebootprompt", "=", "s">> >>,
     norestart     |-> << <<"reboot", "=", "reallysuppress">> >>,
     forcerestart  |-> << <<"reboot", "=", "force">> >>,
     promptrestart |-> << <<"rebootprompt", "=", Quote, Quote>> >>,
     log           |-> << <<"/", "l", "*">> >>]

\* Every switch, also one that will turn out to be the argument of /l.
ReplaceLongOptions(tokens) ==
    FlattenSeq([i \in 1..Len(tokens) |->
        IF IsSwitch(tokens[i]) /\ Len(tokens[i]) = 2 /\ tokens[i][2] \in DOMAIN Replacements
        THEN Replacements[tokens[i][2]]
        ELSE <<tokens[i]>>])

-----------------------------------------------------------------------------
(* Values and properties *)

\* Between the quotes a back quote stands for a quote, and a backslash and a back
\* quote for a back quote.
ParseValue_Bug(valueToken) ==       \* the escape is not looked at
    IF valueToken = <<>> \/ valueToken[1] # Quote THEN Valid(valueToken)
    ELSE LET closed == Len(valueToken) > 1 /\ Last(valueToken) = Quote
             body == SubSeq(valueToken, 2, Len(valueToken) - (IF closed THEN 1 ELSE 0))
         IN  IF Contains(body, Quote) THEN Invalid
             ELSE Valid([i \in DOMAIN body |-> IF body[i] = Escaped THEN Quote ELSE body[i]])

ParseValue(valueToken) ==
    IF valueToken = <<>> \/ valueToken[1] # Quote THEN Valid(valueToken)
    ELSE LET closed == Len(valueToken) > 1 /\ Last(valueToken) = Quote
             body == SubSeq(valueToken, 2, Len(valueToken) - (IF closed THEN 1 ELSE 0))
             unescaped[i \in 1..Len(body) + 2] ==
                 IF i > Len(body) THEN <<>>
                 ELSE IF body[i] = Backslash /\ i < Len(body) /\ body[i + 1] = Escaped
                 THEN <<Escaped>> \o unescaped[i + 2]
                 ELSE <<IF body[i] = Escaped THEN Quote ELSE body[i]>> \o unescaped[i + 1]
         IN  IF Contains(body, Quote) THEN Invalid ELSE Valid(unescaped[1])

\* The scan of a property's value: blanks are for quoted values only, and so are
\* quotes, in pairs.  (A value that starts without a quote may hold some.)
ValueIsAccepted_Bug(value) ==       \* the second of a pair is not skipped
    \/ value = <<>>
    \/ value[1] # Quote /\ \A i \in DOMAIN value : value[i] \notin White
    \/ /\ value[1] = Quote /\ Len(value) > 1 /\ Last(value) = Quote
       /\ \A i \in 2..Len(value) - 1 : value[i] = Quote => i + 1 < Len(value) /\ value[i + 1] = Quote

ValueIsAccepted(value) ==
    LET end == Len(value) - 1
        paired[i \in 2..Len(value) + 2] ==
            \/ i > end
            \/ value[i] # Quote /\ paired[i + 1]
            \/ value[i] = Quote /\ i < end /\ value[i + 1] = Quote /\ paired[i + 2]
    IN  \/ value = <<>>
        \/ value[1] # Quote /\ \A i \in DOMAIN value : value[i] \notin White
        \/ value[1] = Quote /\ Len(value) > 1 /\ Last(value) = Quote /\ paired[2]

ParsePropertyToken(token) ==
    LET ends == {p \in DOMAIN token : token[p] \in White \cup {"="}}
        sep == First(ends)
        value == SubSeq(token, sep + 1, Len(token))
    IN  IF /\ token[1] = "%" \/ token[1] \notin NotAlphaNumeric
           /\ ends # {} /\ token[sep] = "="
           /\ ValueIsAccepted(value)
        THEN Valid([name |-> SubSeq(token, 1, sep - 1), value |-> value])
        ELSE Invalid

-----------------------------------------------------------------------------
(* Options *)

LogModes == {"m", "e", "w", "u", "i", "o", "a", "r", "p", "c", "v", "x"}
LogAttributes == {"+", "!"}

\* `logMode` and `logFile` are what ParseValue makes of the modifier and of the
\* token behind the option.
ParseLogOption(logMode, logFile, parsed) ==
    LET chosen == ToSet(logMode) \cap (LogModes \cup {"*"})
    IN  IF (\A i \in DOMAIN logFile : logFile[i] \in White)
              \/ ~(ToSet(logMode) \subseteq LogModes \cup LogAttributes \cup {"*"})
        THEN Invalid
        ELSE Valid([parsed EXCEPT
                        !.logMode = IF chosen = {} THEN {"default"} ELSE chosen,
                        !.logAttributes = ToSet(logMode) \cap LogAttributes,
                        !.logFile = logFile])

UILevels == "f" :> "full" @@ "r" :> "reduced" @@ "b" :> "basic" @@ "n" :> "none" @@ "+" :> "none"

\* A modifier behind the first that is none of + - ! is not looked at.
ParseQuietOption(modifier, parsed) ==
    LET m == IF modifier = <<>> THEN <<"n">> ELSE modifier
        base == UILevels[m[1]]
        extras == ToSet(Tail(m)) \cap {"+", "-", "!"}
    IN  IF m[1] \notin DOMAIN UILevels \/ (extras \cap {"-", "!"} # {} /\ base # "basic")
        THEN Invalid
        ELSE Valid([parsed EXCEPT !.uiLevel =
                        {base} \cup extras
                        \cup (IF m[1] = "+" THEN {"+"} ELSE {})
                        \cup (IF base = "none" THEN {"uac"} ELSE {})])

-----------------------------------------------------------------------------
(* The arguments *)

NothingParsed ==
    [properties |-> <<>>, parsedProperties |-> <<>>,
     logMode |-> {}, logAttributes |-> {}, logFile |-> <<>>, uiLevel |-> {}]

\* What is left of the tokens, and the arguments parsed so far.
At(tokens, parsed) == [tokens |-> tokens, parsed |-> parsed]

ConsumeNextToken_Bug(tokens, parsed) ==     \* hands the property on without its quotes
    LET token == Head(tokens)
        rest == Tail(tokens)
        property == ParsePropertyToken(token)
    IN  IF IsSwitch(token) \/ ~property.ok THEN At(rest, Invalid)
        ELSE At(rest, Valid([parsed EXCEPT
                    !.properties = @ \o <<" ">> \o SelectSeq(token, LAMBDA c : c # Quote),
                    !.parsedProperties = Append(@, property.value)]))

ConsumeNextToken_Bug2(tokens, parsed) ==    \* leaves the file of a log option in place
    LET token == Head(tokens)
        rest == Tail(tokens)
        property == ParsePropertyToken(token)
        modifier == ParseValue(SubSeq(token, 3, Len(token)))
    IN  IF ~IsSwitch(token)
        THEN At(rest, IF property.ok
                      THEN Valid([parsed EXCEPT
                                      !.properties = @ \o <<" ">> \o token,
                                      !.parsedProperties = Append(@, property.value)])
                      ELSE Invalid)
        ELSE IF Len(token) = 1 \/ ~modifier.ok THEN At(rest, Invalid)
        ELSE IF token[2] = "q" THEN At(rest, ParseQuietOption(modifier.value, parsed))
        ELSE IF token[2] = "l" /\ rest # <<>>
        THEN At(rest, ParseLogOption(modifier.value, Head(rest), parsed))
        ELSE At(rest, Invalid)

ConsumeNextToken(tokens, parsed) ==
    LET token == Head(tokens)
        rest == Tail(tokens)
        property == ParsePropertyToken(token)
        modifier == ParseValue(SubSeq(token, 3, Len(token)))
    IN  IF ~IsSwitch(token)
        THEN At(rest, IF property.ok
                      THEN Valid([parsed EXCEPT
                                      !.properties = @ \o <<" ">> \o token,
                                      !.parsedProperties = Append(@, property.value)])
                      ELSE Invalid)
        ELSE IF Len(token) = 1 \/ ~modifier.ok THEN At(rest, Invalid)
        ELSE IF token[2] = "q" THEN At(rest, ParseQuietOption(modifier.value, parsed))
        ELSE IF token[2] = "l" /\ rest # <<>> /\ ParseValue(Head(rest)).ok
        THEN At(Tail(rest), ParseLogOption(modifier.value, ParseValue(Head(rest)).value, parsed))
        ELSE At(rest, Invalid)

ParseMSIArguments(arguments) ==
    LET tokens == ReplaceLongOptions(TokenizeMsiArguments(arguments))
        after[n \in 0..Len(tokens)] ==
            IF n = 0 THEN At(tokens, Valid(NothingParsed))
            ELSE IF after[n - 1].tokens = <<>> \/ ~after[n - 1].parsed.ok THEN after[n - 1]
            ELSE ConsumeNextToken(after[n - 1].tokens, after[n - 1].parsed.value)
    IN  after[Len(tokens)].parsed

BlockedNames == {"transforms", "patch", "msinewinstance", "adminproperties"}

\* The first one, as a sequence of at most one name.
GetFirstBlockedProperty(parsed) ==
    LET names == [i \in DOMAIN parsed.parsedProperties |-> parsed.parsedProperties[i].name]
        blocked == {i \in DOMAIN names : Len(names[i]) = 1 /\ names[i][1] \in BlockedNames}
    IN  IF blocked = {} THEN <<>> ELSE <<names[First(blocked)]>>

-----------------------------------------------------------------------------
(* Properties *)

WithoutBlanks(text) ==
    FlattenSeq([i \in DOMAIN text |-> IF text[i] \in White THEN <<>> ELSE <<text[i]>>])

\* Cutting into tokens loses nothing and joins nothing: without blanks the tokens
\* are the text, a blank is inside a token only between its quotes, and a token
\* is over only at a blank, at its closing quote or at the end.
TokensCover(text) ==
    LET tokens == TokenizeMsiArguments(text)
        Quotes(t) == Cardinality({i \in DOMAIN t : t[i] = Quote})
    IN  /\ WithoutBlanks(FlattenSeq(tokens)) = WithoutBlanks(text)
        /\ \A n \in DOMAIN tokens :
              LET t == tokens[n]
              IN  /\ t # <<>> /\ t[1] \notin White
                  /\ \A i \in DOMAIN t : t[i] \in White => Quotes(SubSeq(t, 1, i)) % 2 = 1
                  /\ t[1] = Quote => Quotes(t) <= 2
                  /\ Quotes(t) % 2 = 1 => n = Len(tokens)

\* msiexec, which cuts the text of the properties into tokens once more, finds
\* exactly the properties that were parsed, so those that were looked through for
\* a blocked one.
SurvivesHandingOn(text) ==
    LET parsed == ParseMSIArguments(text).value
        found == TokenizeMsiArguments(parsed.properties)
    IN  ParseMSIArguments(text).ok =>
            /\ Len(found) = Len(parsed.parsedProperties)
            /\ \A i \in DOMAIN found :
                  /\ ParsePropertyToken(found[i]) = Valid(parsed.parsedProperties[i])
                  /\ found[i][1] \in BlockedNames /\ found[i][2] = "=" =>
                        GetFirstBlockedProperty(parsed) # <<>>

\* A value with any characters can be written as a quoted token, and is read back.
QuotedForm(value) ==
    <<Quote>>
    \o FlattenSeq([i \in DOMAIN value |->
           IF value[i] = Quote THEN <<Escaped>>
           ELSE IF value[i] = Escaped THEN <<Backslash, Escaped>> ELSE <<value[i]>>])
    \o <<Quote>>

\* Except a backslash in front of a quote: it would escape the quote's own sign.
HasQuotedForm(value) ==
    \A i \in 1..Len(value) - 1 : ~(value[i] = Backslash /\ value[i + 1] = Quote)

ReadsBack(value) ==
    HasQuotedForm(value) =>
        /\ TokenizeMsiArguments(QuotedForm(value)) = <<QuotedForm(value)>>
        /\ ParseValue(QuotedForm(value)) = Valid(value)

\* The grammar of properties as the comments of ParsePropertyToken state it: the
\* value is empty, or unquoted and without blanks, or quoted with every quote
\* inside paired with its neighbour.
IsProperty(token) ==
    \E n \in 2..Len(token) :
        LET value == SubSeq(token, n + 1, Len(token))
            inside == 2..Len(value) - 1
            \* a run of quotes between the outer ones, with nothing of it left out
            Run(i, j) == /\ \A k \in i..j : value[k] = Quote
                         /\ i > 2 => value[i - 1] # Quote
                         /\ j < Len(value) - 1 => value[j + 1] # Quote
        IN  /\ token[1] = "%" \/ token[1] \notin NotAlphaNumeric
            /\ token[n] = "="
            /\ \A i \in 1..n - 1 : token[i] \notin White \cup {"="}
            /\ \/ value = <<>>
               \/ value[1] # Quote /\ ToSet(value) \cap White = {}
               \/ /\ Len(value) >= 2 /\ value[1] = Quote /\ Last(value) = Quote
                  /\ \A i, j \in inside : i <= j /\ Run(i, j) => (j - i + 1) % 2 = 0

\* A token that is not a property for the grammar is refused, any other is not.
FollowsGrammar(text) ==
    \A i \in DOMAIN TokenizeMsiArguments(text) :
        LET token == TokenizeMsiArguments(text)[i]
        IN  ParsePropertyToken(token).ok <=> IsProperty(token)

\* The place of a token decides what it is: the one behind a log option is its
\* file, whatever it looks like; of the others the switches are options and the
\* rest properties; each kind of option counts the last time it is given.
PlaceDecides(text) ==
    LET tokens == ReplaceLongOptions(TokenizeMsiArguments(text))
        parsed == ParseMSIArguments(text).value
        Option(i, o) == IsSwitch(tokens[i]) /\ Len(tokens[i]) > 1 /\ tokens[i][2] = o
        isFile[i \in DOMAIN tokens] == i > 1 /\ Option(i - 1, "l") /\ ~isFile[i - 1]
        files == {i \in DOMAIN tokens : isFile[i]}
        quiet == {i \in DOMAIN tokens \ files : Option(i, "q")}
        properties == {i \in DOMAIN tokens \ files : ~IsSwitch(tokens[i])}
        Latest(places) == CHOOSE i \in places : \A j \in places : j <= i
    IN  ParseMSIArguments(text).ok =>
            /\ \A i \in DOMAIN tokens : i \in files \cup quiet \cup properties \/ Option(i, "l")
            /\ Len(parsed.parsedProperties) = Cardinality(properties)
            /\ files = {} <=> parsed.logMode = {}
            /\ files # {} => Valid(parsed.logFile) = ParseValue(tokens[Latest(files)])
            /\ parsed.uiLevel =
                   IF quiet = {} THEN {}
                   ELSE LET t == tokens[Latest(quiet)]
                        IN  ParseQuietOption(ParseValue(SubSeq(t, 3, Len(t))).value,
                                             NothingParsed).value.uiLevel
=============================================================================
