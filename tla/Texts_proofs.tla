----------------------------- MODULE Texts_proofs -----------------------------
(***************************************************************************)
(* Proofs about Texts: what its invariants say holds of every text.        *)
(*                                                                         *)
(* The argument: a text is cut from its start on, and each piece that is   *)
(* cut off, a token, an escaped sign, a pair of quotes, leaves a shorter   *)
(* text (NextToken, UnescapedIs, EvenStep); so a statement about the text  *)
(* from a place on follows from the one about the text behind the piece.   *)
(* The parser is followed round by round (RoundGoesOn): what was handed on *)
(* stays the same tokens as what was looked through (KeptByRounds), and    *)
(* those are cut off again as they were (Retokenized), because none but    *)
(* the last has an open quote; and the tokens behind it have their places  *)
(* (PlacedByRounds).                                                       *)
(* The theorems on the specification follow from those on texts, because   *)
(* a text that grows stays a text of signs.                                *)
(***************************************************************************)
EXTENDS Texts, Utf8_proofs, FiniteSetTheorems

\* The smallest of some positions.
LEMMA FirstIs ==
    ASSUME NEW positions, positions \subseteq Nat, positions # {}
    PROVE  First(positions) \in positions /\ \A q \in positions : First(positions) <= q
<1>1. \E p \in positions : \A q \in positions : p <= q
  BY SmallestExists
<1> QED
  BY <1>1 DEF First

-----------------------------------------------------------------------------
(* Tokens *)

Blank(args, start) == \A p \in start..Len(args) : args[p] \in White
QuotesIn(args, first, last) == Cardinality({q \in first..last : args[q] = Quote})

\* Where a token ends: behind its closing quote, or in front of a blank that is
\* not between quotes, or at the end of the text.
EndsQuoted(args, from, next) ==
    /\ \A p \in from + 1..next - 2 : args[p] # Quote
    /\ next = Len(args) + 1 \/ (next - 1 \in from + 1..Len(args) /\ args[next - 1] = Quote)

EndsPlain(args, from, next) ==
    /\ \A p \in from + 1..next - 1 : args[p] \in White => QuotesIn(args, from, p) % 2 # 0
    /\ next = Len(args) + 1 \/ (args[next] \in White /\ QuotesIn(args, from, next) % 2 = 0)

\* A token is behind blanks, is not empty, and ends where EndsQuoted or EndsPlain says.
LEMMA NextToken ==
    ASSUME NEW S, NEW args \in Seq(S), NEW start \in 1..Len(args) + 1, ~Blank(args, start),
           NEW t, t = GetNextToken(args, start)
    PROVE  /\ t.from \in start..Len(args) /\ args[t.from] \notin White
           /\ \A p \in start..t.from - 1 : args[p] \in White
           /\ t.next \in t.from + 1..Len(args) + 1
           /\ args[t.from] = Quote => EndsQuoted(args, t.from, t.next)
           /\ args[t.from] # Quote => EndsPlain(args, t.from, t.next)
<1> DEFINE n == Len(args)
           signs == {p \in start..n : args[p] \notin White}
           s == First(signs)
           quoted == {p + 1 : p \in {q \in s + 1..n : args[q] = Quote}}
           plain == {p \in s + 1..n : args[p] \in White /\ QuotesIn(args, s, p) % 2 = 0}
           next == First((IF args[s] = Quote THEN quoted ELSE plain) \cup {n + 1})
<1>0. n \in Nat /\ start \in Nat /\ 1 <= start
  OBVIOUS
<1>1. t.from = s /\ t.next = next
  BY DEF GetNextToken, QuotesIn
<1>2. s \in signs /\ \A p \in signs : s <= p
  <2>1. signs # {}
    BY DEF Blank
  <2>2. signs \subseteq Nat
    BY <1>0
  <2> HIDE DEF signs
  <2> QED
    BY <2>1, <2>2, FirstIs
<1> HIDE DEF n
<1>3. s \in start..n /\ s \in Nat /\ args[s] \notin White /\ \A p \in start..s - 1 : args[p] \in White
  <2>1. s \in start..n /\ s \in Nat /\ args[s] \notin White
    BY <1>0, <1>2
  <2>2. ASSUME NEW p \in start..s - 1, args[p] \notin White PROVE FALSE
    <3>1. p \in signs /\ ~(s <= p)
      BY <1>0, <2>1, <2>2
    <3> QED
      BY <1>2, <3>1
  <2> QED
    BY <2>1, <2>2
<1> HIDE DEF s
<1>4. CASE args[s] = Quote
  <2> DEFINE ends == quoted \cup {n + 1}
  <2>1. next = First(ends)
    BY <1>4
  <2>2. ends \subseteq s + 1..n + 1 /\ ends \subseteq Nat /\ n + 1 \in ends
    BY <1>0, <1>3
  <2>3. next \in ends /\ \A q \in ends : next <= q
    <3> HIDE DEF ends, next
    <3> QED
      BY <2>1, <2>2, FirstIs
  <2>4. next \in s + 1..n + 1 /\ next \in Nat
    BY <2>2, <2>3
  <2>5. ASSUME NEW p \in s + 1..next - 2, args[p] = Quote PROVE FALSE
    <3> HIDE DEF next
    <3>1. p \in s + 1..n
      BY <1>0, <1>3, <2>4
    <3>2. p + 1 \in ends /\ ~(next <= p + 1)
      BY <1>0, <1>3, <2>4, <2>5, <3>1
    <3> QED
      BY <2>3, <3>2
  <2>6. next = n + 1 \/ (next - 1 \in s + 1..n /\ args[next - 1] = Quote)
    <3> HIDE DEF next
    <3>1. CASE next \in quoted
      BY <1>0, <1>3, <3>1
    <3> QED
      BY <2>3, <3>1
  <2>7. EndsQuoted(args, s, next)
    <3> HIDE DEF next
    <3> QED
      BY <2>5, <2>6 DEF EndsQuoted, n
  <2> HIDE DEF next
  <2> QED
    BY <1>1, <1>3, <1>4, <2>4, <2>7 DEF n
<1>5. CASE args[s] # Quote
  <2> DEFINE ends == plain \cup {n + 1}
  <2>1. next = First(ends)
    BY <1>5
  <2>2. ends \subseteq s + 1..n + 1 /\ ends \subseteq Nat /\ n + 1 \in ends
    BY <1>0, <1>3
  <2>3. next \in ends /\ \A q \in ends : next <= q
    <3> HIDE DEF ends, next
    <3> QED
      BY <2>1, <2>2, FirstIs
  <2>4. next \in s + 1..n + 1 /\ next \in Nat
    BY <2>2, <2>3
  <2>5. ASSUME NEW p \in s + 1..next - 1, args[p] \in White, QuotesIn(args, s, p) % 2 = 0 PROVE FALSE
    <3> HIDE DEF next
    <3>1. p \in ends /\ ~(next <= p)
      BY <1>0, <1>3, <2>4, <2>5
    <3> QED
      BY <2>3, <3>1
  <2>6. next = n + 1 \/ (args[next] \in White /\ QuotesIn(args, s, next) % 2 = 0)
    <3> HIDE DEF next
    <3> QED
      BY <2>3
  <2>7. EndsPlain(args, s, next)
    <3> HIDE DEF next
    <3> QED
      BY <2>5, <2>6 DEF EndsPlain, n
  <2> HIDE DEF next
  <2> QED
    BY <1>1, <1>3, <1>5, <2>4, <2>7 DEF n
<1> QED
  BY <1>4, <1>5

\* The tokens from each place of a text on.
AreTokens(tokens, args) ==
    \A start \in 1..Len(args) + 1 :
        tokens[start] =
            IF Blank(args, start) THEN <<>>
            ELSE LET t == GetNextToken(args, start)
                 IN  Then(<<SubSeq(args, t.from, t.next - 1)>>, tokens[t.next])

\* TokenizeMsiArguments gives the tokens from the first place on.
LEMMA TokensUnfold ==
    ASSUME NEW S, NEW args \in Seq(S)
    PROVE  \E tokens : AreTokens(tokens, args) /\ TokenizeMsiArguments(args) = tokens[1]
<1> DEFINE Token(start) == SubSeq(args, GetNextToken(args, start).from, GetNextToken(args, start).next - 1)
           tokens[start \in 1..Len(args) + 1] ==
               IF \A p \in start..Len(args) : args[p] \in White THEN <<>>
               ELSE <<Token(start)>> \o tokens[GetNextToken(args, start).next]
<1>1. TokenizeMsiArguments(args) = tokens[1]
  BY DEF TokenizeMsiArguments
<1>2. tokens = [start \in 1..Len(args) + 1 |->
                   IF \A p \in start..Len(args) : args[p] \in White THEN <<>>
                   ELSE <<Token(start)>> \o tokens[GetNextToken(args, start).next]]
  <2> DEFINE m == Len(args) + 1
             stop == {start \in 1..m : Blank(args, start)}
             next == [start \in 1..m |-> GetNextToken(args, start).next]
             head == [start \in 1..m |-> <<Token(start)>>]
  <2>1. m \in Nat
    OBVIOUS
  <2>2. Onward(m, stop, next)
    <3> SUFFICES ASSUME NEW i \in 1..m, i \notin stop PROVE next[i] \in i + 1..m
      BY DEF Onward
    <3> DEFINE t == GetNextToken(args, i)
    <3>1. ~Blank(args, i)
      OBVIOUS
    <3>2. t.from \in i..Len(args) /\ t.next \in t.from + 1..Len(args) + 1
      <4> HIDE DEF t
      <4> QED
        BY <3>1, NextToken DEF t
    <3>3. next[i] = t.next
      OBVIOUS
    <3> HIDE DEF t, next
    <3> QED
      BY <3>2, <3>3
  <2>3. \A i \in 1..m : i \in stop <=> \A p \in i..Len(args) : args[p] \in White
    BY DEF Blank
  <2>4. \A i \in 1..m : next[i] = GetNextToken(args, i).next /\ head[i] = <<Token(i)>>
    OBVIOUS
  <2> HIDE DEF stop, next, head, Token, m
  <2>5. PICK g : IsCut(g, m, stop, head, next)
    BY <2>1, <2>2, CutsExist
  <2>6. g = [start \in 1..m |->
                IF \A p \in start..Len(args) : args[p] \in White THEN <<>>
                ELSE <<Token(start)>> \o g[GetNextToken(args, start).next]]
    BY <2>3, <2>4, <2>5, Zenon DEF IsCut
  <2>7. \E h : h = [start \in 1..Len(args) + 1 |->
                IF \A p \in start..Len(args) : args[p] \in White THEN <<>>
                ELSE <<Token(start)>> \o h[GetNextToken(args, start).next]]
    BY <2>6, Zenon DEF m
  <2> QED
    BY <2>7, Zenon
<1> HIDE DEF tokens
<1>3. AreTokens(tokens, args)
  BY <1>2, Zenon DEF AreTokens, Blank, Then
<1> QED
  BY <1>1, <1>3

-----------------------------------------------------------------------------
(* What is left of a text without its blanks *)

\* What is left of a text without its blanks is put together as the text is.
LEMMA StrippedThen ==
    ASSUME NEW S, NEW a \in Seq(S), NEW b \in Seq(S)
    PROVE  WithoutBlanks(Then(a, b)) = Then(WithoutBlanks(a), WithoutBlanks(b))
<1> DEFINE Strip(x) == IF x \in White THEN <<>> ELSE <<x>>
           B == Seq(S)
           strip(t) == [i \in DOMAIN t |-> Strip(t[i])]
           c == Then(a, b)
           m == Len(a)
           n == Len(b)
<1>1. \A t : WithoutBlanks(t) = FlattenSeq(strip(t))
  BY DEF WithoutBlanks
<1>2. \A x \in S : Strip(x) \in B
  OBVIOUS
<1>3. c \in Seq(S) /\ Len(c) = m + n /\ m \in Nat /\ n \in Nat
  <2>1. Len(a) \in Nat /\ Len(b) \in Nat
    OBVIOUS
  <2>2. Then(a, b) \in Seq(S) /\ Len(Then(a, b)) = Len(a) + Len(b)
    BY ThenIs
  <2> QED
    BY <2>1, <2>2
<1>4. \A i \in 1..m : c[i] = a[i]
  BY ThenFirst
<1>5. \A i \in m + 1..m + n : c[i] = b[i - m]
  BY ThenSecond
<1> HIDE DEF Strip, B, c
<1>6. ASSUME NEW t \in Seq(S)
      PROVE  strip(t) \in Seq(B) /\ Len(strip(t)) = Len(t) /\ \A i \in 1..Len(t) : strip(t)[i] = Strip(t[i])
  <2>1. Len(t) \in Nat /\ DOMAIN t = 1..Len(t) /\ \A i \in 1..Len(t) : t[i] \in S
    OBVIOUS
  <2>2. \A i \in 1..Len(t) : Strip(t[i]) \in B
    BY <1>2, <2>1
  <2> QED
    BY <2>1, <2>2
<1> DEFINE sa == strip(a)
           sb == strip(b)
           sc == strip(c)
<1>7. /\ sa \in Seq(B) /\ Len(sa) = m /\ \A i \in 1..m : sa[i] = Strip(a[i])
      /\ sb \in Seq(B) /\ Len(sb) = n /\ \A i \in 1..n : sb[i] = Strip(b[i])
      /\ sc \in Seq(B) /\ Len(sc) = m + n /\ \A i \in 1..m + n : sc[i] = Strip(c[i])
  BY <1>3, <1>6
<1> HIDE DEF sa, sb, sc, m, n
<1>8. sc = Then(sa, sb)
  <2> DEFINE d == Then(sa, sb)
  <2>1. d \in Seq(B) /\ Len(d) = m + n
    BY <1>7, ThenIs
  <2>2. \A i \in 1..m : d[i] = sa[i]
    BY <1>7, ThenFirst
  <2>3. \A i \in m + 1..m + n : d[i] = sb[i - m]
    BY <1>7, ThenSecond
  <2> HIDE DEF d
  <2>4. ASSUME NEW i \in 1..m + n PROVE sc[i] = d[i]
    <3>1. CASE i \in 1..m
      BY <1>4, <1>7, <2>2, <3>1
    <3>2. CASE i \in m + 1..m + n
      <4>1. i - m \in 1..n
        BY <1>3, <3>2
      <4> QED
        BY <1>5, <1>7, <2>3, <2>4, <3>2, <4>1
    <3> QED
      BY <1>3, <3>1, <3>2
  <2> QED
    BY <1>7, <2>1, <2>4, SeqEqual DEF d
<1>9. FlattenSeq(Then(sa, sb)) = Then(FlattenSeq(sa), FlattenSeq(sb))
  BY <1>7, FlattenThen DEF B
<1> QED
  BY <1>1, <1>8, <1>9 DEF sa, sb, sc, c

\* What is left is a text.
LEMMA StrippedIs ==
    ASSUME NEW S, NEW a \in Seq(S)
    PROVE  WithoutBlanks(a) \in Seq(S)
<1> DEFINE s == [i \in DOMAIN a |-> IF a[i] \in White THEN <<>> ELSE <<a[i]>>]
           B == Seq(S)
<1>1. DOMAIN a = 1..Len(a) /\ Len(a) \in Nat /\ \A i \in 1..Len(a) : a[i] \in S
  OBVIOUS
<1>2. \A x \in S : <<x>> \in B
  OBVIOUS
<1>3. <<>> \in B
  OBVIOUS
<1> HIDE DEF B
<1>4. s \in Seq(B)
  BY <1>1, <1>2, <1>3
<1> HIDE DEF s
<1> QED
  BY <1>4, Flattened DEF WithoutBlanks, s, B

\* Nothing is left of blanks.
LEMMA StrippedBlank ==
    ASSUME NEW S, NEW a \in Seq(S), \A i \in 1..Len(a) : a[i] \in White
    PROVE  WithoutBlanks(a) = <<>>
<1> DEFINE s == [i \in DOMAIN a |-> IF a[i] \in White THEN <<>> ELSE <<a[i]>>]
<1>1. DOMAIN a = 1..Len(a) /\ Len(a) \in Nat
  OBVIOUS
<1>2. s \in Seq({<<>>})
  BY <1>1
<1> HIDE DEF s
<1> QED
  BY <1>2, FlattenEmpty DEF WithoutBlanks, s

-----------------------------------------------------------------------------
(* The quotes of a token *)

QuotesOf(t) == Cardinality({i \in DOMAIN t : t[i] = Quote})

\* The quotes of a part are those of the text in its range.
LEMMA QuotesOfPart ==
    ASSUME NEW S, NEW args \in Seq(S), NEW f \in 1..Len(args), NEW l \in f..Len(args)
    PROVE  QuotesOf(SubSeq(args, f, l)) = QuotesIn(args, f, l)
<1> DEFINE t == SubSeq(args, f, l)
           P == {q \in f..l : args[q] = Quote}
           T == {i \in DOMAIN t : t[i] = Quote}
           shift == [q \in P |-> q - f + 1]
<1>0. f \in Nat /\ l \in Nat /\ f <= l /\ 1 <= f
  OBVIOUS
<1>1. DOMAIN t = 1..l - f + 1 /\ \A i \in 1..l - f + 1 : t[i] = args[f + i - 1]
  OBVIOUS
<1> HIDE DEF t
<1>2. \A q \in P : q \in f..l /\ q - f + 1 \in 1..l - f + 1 /\ f + (q - f + 1) - 1 = q
  BY <1>0
<1>3. \A i \in T : i \in 1..l - f + 1 /\ f + i - 1 \in f..l /\ (f + i - 1) - f + 1 = i
  BY <1>0, <1>1
<1>4. \A q \in P : shift[q] \in T
  BY <1>1, <1>2
<1>5. \A q, r \in P : shift[q] = shift[r] => q = r
  BY <1>0, <1>2
<1>6. ASSUME NEW i \in T PROVE \E q \in P : shift[q] = i
  <2>1. f + i - 1 \in P
    BY <1>1, <1>3
  <2> QED
    BY <1>3, <2>1
<1>7. shift \in Bijection(P, T)
  <2>1. shift \in [P -> T]
    BY <1>4
  <2> HIDE DEF shift, P, T
  <2> QED
    BY <1>5, <1>6, <2>1, Zenon DEF Bijection, Injection, Surjection, IsInjective
<1>8. IsFiniteSet(P)
  <2>1. IsFiniteSet(f..l)
    BY <1>0, FS_Interval
  <2> QED
    BY <2>1, FS_Subset
<1> HIDE DEF P, T, shift
<1>9. Cardinality(T) = Cardinality(P)
  BY <1>7, <1>8, FS_Bijection DEF ExistsBijection
<1> QED
  BY <1>9 DEF QuotesOf, QuotesIn, P, T, t

\* What TokensCover says of a token.
IsWhole(t) ==
    /\ t # <<>> /\ t[1] \notin White
    /\ \A i \in DOMAIN t : t[i] \in White => QuotesOf(SubSeq(t, 1, i)) % 2 = 1
    /\ t[1] = Quote => QuotesOf(t) <= 2

\* A quote with none behind it.
LEMMA OneQuote ==
    ASSUME NEW args, NEW f \in Nat, NEW l \in Nat, f <= l, args[f] = Quote,
           \A p \in f + 1..l : args[p] # Quote
    PROVE  QuotesIn(args, f, l) = 1
<1>1. {q \in f..l : args[q] = Quote} = {f}
  OBVIOUS
<1> QED
  BY <1>1, FS_Singleton DEF QuotesIn

\* Two quotes with none between them.
LEMMA TwoQuotes ==
    ASSUME NEW args, NEW f \in Nat, NEW l \in Nat, f < l, args[f] = Quote, args[l] = Quote,
           \A p \in f + 1..l - 1 : args[p] # Quote
    PROVE  QuotesIn(args, f, l) = 2
<1>1. {q \in f..l : args[q] = Quote} = {f} \cup {l}
  <2>1. \A q \in f..l : q = f \/ q = l \/ q \in f + 1..l - 1
    OBVIOUS
  <2> QED
    BY <2>1
<1>2. IsFiniteSet({f}) /\ Cardinality({f}) = 1 /\ l \notin {f}
  <2>1. l \notin {f}
    OBVIOUS
  <2>2. IsFiniteSet({f}) /\ Cardinality({f}) = 1
    BY FS_Singleton, Zenon
  <2> QED
    BY <2>1, <2>2
<1>3. Cardinality({f} \cup {l}) = 2
  BY <1>2, FS_AddElement
<1> QED
  BY <1>1, <1>3 DEF QuotesIn

\* So is every token, and one with an open quote is the last.
LEMMA TokenIsWhole ==
    ASSUME NEW S, NEW args \in Seq(S), NEW start \in 1..Len(args) + 1, ~Blank(args, start),
           NEW t, t = GetNextToken(args, start)
    PROVE  /\ SubSeq(args, t.from, t.next - 1) \in Seq(S)
           /\ IsWhole(SubSeq(args, t.from, t.next - 1))
           /\ QuotesOf(SubSeq(args, t.from, t.next - 1)) % 2 = 1 => t.next = Len(args) + 1
<1> DEFINE n == Len(args)
           f == t.from
           l == t.next - 1
           token == SubSeq(args, f, l)
<1>1. /\ f \in start..n /\ args[f] \notin White
      /\ t.next \in f + 1..n + 1
      /\ args[f] = Quote => EndsQuoted(args, f, t.next)
      /\ args[f] # Quote => EndsPlain(args, f, t.next)
  <2> HIDE DEF n
  <2> QED
    BY NextToken DEF n
<1>2. n \in Nat /\ start \in Nat /\ 1 <= start
  OBVIOUS
<1> HIDE DEF f, n
<1>3. f \in 1..n /\ f \in Nat /\ l \in f..n /\ l \in Nat /\ t.next = l + 1 /\ t.next \in Nat
  BY <1>1, <1>2
<1> HIDE DEF l
<1>4. /\ token \in Seq(S) /\ Len(token) = l - f + 1
      /\ \A i \in 1..l - f + 1 : token[i] = args[f + i - 1]
  BY <1>3 DEF n
<1>5. token # <<>> /\ token[1] = args[f]
  <2>1. 1 \in 1..l - f + 1 /\ f + 1 - 1 = f /\ l - f + 1 # 0
    BY <1>3
  <2>2. Len(token) # 0 /\ token[1] = args[f]
    BY <1>4, <2>1
  <2> HIDE DEF token
  <2>3. Len(<<>>) = 0
    OBVIOUS
  <2> QED
    BY <2>2, <2>3
<1>6. ASSUME NEW i \in DOMAIN token
      PROVE  /\ f + i - 1 \in f..l /\ token[i] = args[f + i - 1]
             /\ QuotesOf(SubSeq(token, 1, i)) = QuotesIn(args, f, f + i - 1)
  <2>1. i \in 1..l - f + 1
    BY <1>4
  <2>2. f + i - 1 \in f..l /\ token[i] = args[f + i - 1]
    BY <1>3, <1>4, <2>1
  <2>3. SubSeq(token, 1, i) = SubSeq(args, f, f + i - 1)
    <3>1. f \in 1..Len(args) /\ l \in 1..Len(args) /\ 1 \in 1..l - f + 1
      BY <1>3 DEF n
    <3>2. SubSeq(token, 1, i) = SubSeq(args, f + 1 - 1, f + i - 1)
      BY <2>1, <3>1, SubSeqOfSubSeq
    <3>3. f + 1 - 1 = f
      BY <1>3
    <3> QED
      BY <3>2, <3>3
  <2>4. f + i - 1 \in f..Len(args) /\ f \in 1..Len(args)
    BY <1>3, <2>2 DEF n
  <2> HIDE DEF token
  <2>5. QuotesOf(SubSeq(args, f, f + i - 1)) = QuotesIn(args, f, f + i - 1)
    BY <2>4, QuotesOfPart
  <2> QED
    BY <2>2, <2>3, <2>5
<1>7. QuotesOf(token) = QuotesIn(args, f, l)
  BY <1>3, QuotesOfPart DEF n
<1> HIDE DEF token
<1> DEFINE goal == IsWhole(token) /\ (QuotesOf(token) % 2 = 1 => t.next = n + 1)
<1>8. ASSUME args[f] = Quote PROVE goal
  <2>1. /\ \A p \in f + 1..l - 1 : args[p] # Quote
        /\ l = n \/ (l \in f + 1..n /\ args[l] = Quote)
    <3>1. EndsQuoted(args, f, t.next) /\ t.next - 2 = l - 1 /\ t.next - 1 = l
      BY <1>1, <1>3, <1>8
    <3>2. t.next = n + 1 <=> l = n
      BY <1>2, <1>3
    <3> QED
      BY <3>1, <3>2 DEF EndsQuoted, n
  <2>2. CASE l > f /\ args[l] = Quote
    <3>1. QuotesOf(token) = 2
      BY <1>3, <1>7, <1>8, <2>1, <2>2, TwoQuotes
    <3>2. ASSUME NEW i \in DOMAIN token, token[i] \in White
          PROVE  QuotesOf(SubSeq(token, 1, i)) % 2 = 1
      <4>1. f + i - 1 \in f..l /\ args[f + i - 1] \in White
        BY <1>6, <3>2
      <4>2. f + i - 1 # l
        BY <2>2, <4>1 DEF White, Quote
      <4>3. f + i - 1 \in Nat /\ f <= f + i - 1 /\ \A p \in f + 1..f + i - 1 : p \in f + 1..l - 1
        BY <1>3, <4>1, <4>2
      <4>4. QuotesIn(args, f, f + i - 1) = 1
        BY <1>3, <1>8, <2>1, <4>3, OneQuote
      <4> QED
        BY <1>6, <4>4
    <3>3. QuotesOf(token) <= 2 /\ ~(QuotesOf(token) % 2 = 1)
      BY <3>1
    <3>4. IsWhole(token)
      BY <1>1, <1>5, <3>2, <3>3 DEF IsWhole
    <3> QED
      BY <3>3, <3>4
  <2>3. CASE ~(l > f /\ args[l] = Quote)
    <3>1. l = n /\ \A p \in f + 1..l : args[p] # Quote
      <4>1. \A p \in f + 1..l : p = l \/ p \in f + 1..l - 1
        BY <1>3
      <4> QED
        BY <1>2, <1>3, <2>1, <2>3, <4>1
    <3>2. QuotesOf(token) = 1
      BY <1>3, <1>7, <1>8, <3>1, OneQuote
    <3>3. ASSUME NEW i \in DOMAIN token, token[i] \in White
          PROVE  QuotesOf(SubSeq(token, 1, i)) % 2 = 1
      <4>1. f + i - 1 \in f..l
        BY <1>6
      <4>2. f + i - 1 \in Nat /\ f <= f + i - 1 /\ \A p \in f + 1..f + i - 1 : p \in f + 1..l
        BY <1>3, <4>1
      <4>3. QuotesIn(args, f, f + i - 1) = 1
        BY <1>3, <1>8, <3>1, <4>2, OneQuote
      <4> QED
        BY <1>6, <4>3
    <3>4. QuotesOf(token) <= 2
      BY <3>2
    <3>5. IsWhole(token)
      BY <1>1, <1>5, <3>3, <3>4 DEF IsWhole
    <3> QED
      BY <1>3, <3>1, <3>5
  <2> QED
    BY <2>2, <2>3
<1>9. ASSUME args[f] # Quote PROVE goal
  <2>1. /\ \A p \in f + 1..l : args[p] \in White => QuotesIn(args, f, p) % 2 # 0
        /\ t.next = n + 1 \/ (args[t.next] \in White /\ QuotesIn(args, f, t.next) % 2 = 0)
    BY <1>1, <1>3, <1>9 DEF EndsPlain, n
  <2>2. ASSUME NEW p \in f..n PROVE QuotesIn(args, f, p) \in Nat
    <3>1. IsFiniteSet(f..p)
      BY <1>3, <2>2, FS_Interval
    <3>2. IsFiniteSet({q \in f..p : args[q] = Quote})
      BY <3>1, FS_Subset
    <3> QED
      BY <3>2, FS_CardinalityType DEF QuotesIn
  <2>3. ASSUME NEW i \in DOMAIN token, token[i] \in White
        PROVE  QuotesOf(SubSeq(token, 1, i)) % 2 = 1
    <3>1. f + i - 1 \in f..l /\ args[f + i - 1] \in White
      BY <1>6, <2>3
    <3>2. f + i - 1 # f
      BY <1>1, <3>1
    <3> DEFINE k == QuotesIn(args, f, f + i - 1)
    <3>3. k \in Nat /\ k % 2 # 0
      <4>1. f + i - 1 \in f + 1..l /\ f + i - 1 \in f..n
        <5> DEFINE p == f + i - 1
        <5>1. p \in f..l /\ p # f
          BY <3>1, <3>2
        <5> HIDE DEF p, k, goal
        <5>2. p \in f + 1..l /\ p \in f..n
          BY <1>2, <1>3, <5>1
        <5> QED
          BY <5>2 DEF p
      <4>2. QuotesIn(args, f, f + i - 1) % 2 # 0
        BY <2>1, <3>1, <4>1
      <4>3. QuotesIn(args, f, f + i - 1) \in Nat
        BY <2>2, <4>1
      <4> QED
        BY <4>2, <4>3
    <3> HIDE DEF k
    <3>4. k % 2 = 1
      BY <3>3
    <3> QED
      BY <1>6, <3>4 DEF k
  <2>4. ASSUME QuotesOf(token) % 2 = 1, t.next # n + 1 PROVE FALSE
    <3>1. args[l + 1] # Quote /\ QuotesIn(args, f, l + 1) % 2 = 0
      BY <1>3, <2>1, <2>4 DEF White, Quote
    <3>2. {q \in f..l + 1 : args[q] = Quote} = {q \in f..l : args[q] = Quote}
      BY <1>3, <3>1
    <3>3. QuotesIn(args, f, l + 1) = QuotesIn(args, f, l)
      BY <3>2 DEF QuotesIn
    <3>4. QuotesIn(args, f, l) % 2 = 1 /\ QuotesIn(args, f, l) % 2 = 0
      BY <1>7, <2>4, <3>1, <3>3
    <3> QED
      BY <3>4
  <2>5. IsWhole(token)
    BY <1>1, <1>5, <1>9, <2>3 DEF IsWhole
  <2> QED
    BY <2>4, <2>5
<1>10. goal
  BY <1>8, <1>9
<1> HIDE DEF goal
<1>11. SubSeq(args, t.from, t.next - 1) = token
  BY DEF token, l, f
<1> QED
  BY <1>4, <1>10, <1>11, Zenon DEF goal, n

-----------------------------------------------------------------------------
(* All of a text *)

\* What TokensCover says of the tokens from a place of a text on.
Covers(tokens, args, start) ==
    /\ \A n \in DOMAIN tokens :
          IsWhole(tokens[n]) /\ (QuotesOf(tokens[n]) % 2 = 1 => n = Len(tokens))
    /\ WithoutBlanks(FlattenSeq(tokens)) = WithoutBlanks(SubSeq(args, start, Len(args)))

\* The tokens from each place on cover the text from there on.
LEMMA TokensCoverFrom ==
    ASSUME NEW S, NEW args \in Seq(S), NEW tokens, AreTokens(tokens, args)
    PROVE  \A start \in 1..Len(args) + 1 :
               tokens[start] \in Seq(Seq(S)) /\ Covers(tokens[start], args, start)
<1> DEFINE n == Len(args)
           B == Seq(S)
           good == {i \in 1..n + 1 : tokens[i] \in Seq(B) /\ Covers(tokens[i], args, i)}
<1>0. n \in Nat
  OBVIOUS
<1>1. ASSUME NEW start \in 1..n + 1, \A j \in start + 1..n + 1 : j \in good PROVE start \in good
  <2>0. start \in Nat /\ start >= 1
    OBVIOUS
  <2> HIDE DEF n
  <2> DEFINE part == SubSeq(args, start, n)
  <2>1. part \in B /\ Len(part) = (IF start <= n THEN n - start + 1 ELSE 0)
        /\ \A i \in 1..n - start + 1 : part[i] = args[start + i - 1]
    BY <1>0, <2>0 DEF n
  <2>2. CASE Blank(args, start)
    <3>1. tokens[start] = <<>>
      BY <2>2, Zenon DEF AreTokens, n
    <3>2. \A i \in 1..Len(part) : part[i] \in White
      <4> SUFFICES ASSUME NEW i \in 1..Len(part) PROVE part[i] \in White
        OBVIOUS
      <4> HIDE DEF part
      <4>1. i \in 1..n - start + 1 /\ start + i - 1 \in start..n
        BY <1>0, <2>0, <2>1
      <4> QED
        BY <2>1, <2>2, <4>1 DEF Blank, n
    <3> HIDE DEF part
    <3>3. WithoutBlanks(part) = <<>>
      BY <2>1, <3>2, StrippedBlank DEF B
    <3>4. WithoutBlanks(FlattenSeq(<<>>)) = <<>>
      <4>1. FlattenSeq(<<>>) = <<>>
        BY DEF FlattenSeq
      <4>2. <<>> \in Seq(S) /\ \A i \in 1..Len(<<>>) : <<>>[i] \in White
        OBVIOUS
      <4> QED
        BY <4>1, <4>2, StrippedBlank
    <3>5. Covers(<<>>, args, start)
      BY <3>3, <3>4 DEF Covers, part, n
    <3>6. <<>> \in Seq(B)
      OBVIOUS
    <3> HIDE DEF B
    <3> QED
      BY <3>1, <3>5, <3>6
  <2>3. CASE ~Blank(args, start)
    <3> DEFINE t == GetNextToken(args, start)
               from == t.from
               next == t.next
               token == SubSeq(args, from, next - 1)
               rest == tokens[next]
    <3>1. tokens[start] = Then(<<token>>, rest)
      BY <2>3, Zenon DEF AreTokens, n
    <3>2. /\ from \in start..n /\ next \in from + 1..n + 1
          /\ \A p \in start..from - 1 : args[p] \in White
      <4> HIDE DEF t
      <4> QED
        BY <2>3, NextToken DEF n, t
    <3>3. /\ token \in B /\ IsWhole(token) /\ (QuotesOf(token) % 2 = 1 => next = n + 1)
      <4> HIDE DEF t
      <4> QED
        BY <2>3, TokenIsWhole DEF n, t
    <3> HIDE DEF t, from, next, token
    <3>4. from \in 1..n /\ next \in start + 1..n + 1 /\ from \in Nat /\ next \in Nat /\ next - 1 \in from..n
      BY <1>0, <2>0, <3>2
    <3>5. next \in good
      <4> HIDE DEF good
      <4> QED
        BY <1>1, <3>4
    <3>6. rest \in Seq(B) /\ Covers(rest, args, next)
      BY <3>5
    <3>7. next = n + 1 => rest = <<>>
      <4>1. ASSUME next = n + 1 PROVE rest = <<>>
        <5>1. Blank(args, next)
          <6>1. next..Len(args) = {}
            BY <1>0, <4>1 DEF n
          <6> QED
            BY <6>1 DEF Blank
        <5>2. next \in 1..Len(args) + 1
          BY <2>0, <3>4 DEF n
        <5> QED
          BY <5>1, <5>2, Zenon DEF AreTokens
      <4> QED
        BY <4>1
    <3> HIDE DEF rest
    <3>8. /\ Then(<<token>>, rest) \in Seq(B) /\ Len(Then(<<token>>, rest)) = 1 + Len(rest)
          /\ Then(<<token>>, rest)[1] = token
          /\ \A i \in 2..1 + Len(rest) : Then(<<token>>, rest)[i] = rest[i - 1]
          /\ <<token>> \in Seq(B) /\ Len(rest) \in Nat
      <4>1. <<token>> \in Seq(B) /\ Len(<<token>>) = 1 /\ <<token>>[1] = token /\ 1 \in 1..Len(<<token>>)
        BY <3>3
      <4>2. Len(rest) \in Nat
        BY <3>6
      <4> DEFINE one == <<token>>
      <4> HIDE DEF one
      <4>3. one \in Seq(B) /\ Len(one) = 1 /\ one[1] = token /\ 1 \in 1..Len(one)
        BY <4>1 DEF one
      <4>4. Then(one, rest) \in Seq(B) /\ Len(Then(one, rest)) = Len(one) + Len(rest)
        BY <3>6, <4>3, ThenIs
      <4>5. Then(one, rest)[1] = one[1]
        <5>1. \A k \in 1..Len(one) : Then(one, rest)[k] = one[k]
          BY <3>6, <4>3, ThenFirst
        <5> QED
          BY <4>3, <5>1
      <4>6. \A m \in Len(one) + 1..Len(one) + Len(rest) : Then(one, rest)[m] = rest[m - Len(one)]
        BY <3>6, <4>3, ThenSecond
      <4>7. \A m \in 2..1 + Len(rest) : Then(one, rest)[m] = rest[m - 1]
        BY <4>3, <4>6
      <4> QED
        BY <4>2, <4>3, <4>4, <4>5, <4>7 DEF one
    <3> DEFINE all == Then(<<token>>, rest)
    <3> HIDE DEF all
    <3>9. /\ all \in Seq(B) /\ Len(all) = 1 + Len(rest) /\ all[1] = token
          /\ DOMAIN all = 1..1 + Len(rest)
          /\ \A i \in 2..1 + Len(rest) : all[i] = rest[i - 1]
      <4>1. /\ all \in Seq(B) /\ Len(all) = 1 + Len(rest) /\ all[1] = token
            /\ \A i \in 2..1 + Len(rest) : all[i] = rest[i - 1]
        BY <3>8 DEF all
      <4> QED
        BY <4>1, LenProperties
    <3>10. ASSUME NEW i \in DOMAIN all
           PROVE  IsWhole(all[i]) /\ (QuotesOf(all[i]) % 2 = 1 => i = Len(all))
      <4>1. CASE i = 1
        <5>1. ASSUME QuotesOf(token) % 2 = 1 PROVE Len(all) = 1
          <6>1. rest = <<>>
            BY <3>3, <3>7, <5>1
          <6> QED
            BY <3>9, <6>1
        <5> QED
          BY <3>3, <3>9, <4>1, <5>1
      <4>2. CASE i # 1
        <5>1. i \in 2..1 + Len(rest) /\ i - 1 \in DOMAIN rest
          <6>1. DOMAIN rest = 1..Len(rest)
            BY <3>6
          <6>2. Len(rest) \in Nat /\ DOMAIN all = 1..1 + Len(rest)
            BY <3>8, <3>9
          <6>3. i \in 2..1 + Len(rest)
            BY <4>2, <6>2
          <6> HIDE DEF good, B
          <6>4. i - 1 \in 1..Len(rest)
            BY <6>2, <6>3
          <6> QED
            BY <6>1, <6>3, <6>4
        <5>2. IsWhole(rest[i - 1]) /\ (QuotesOf(rest[i - 1]) % 2 = 1 => i - 1 = Len(rest))
          BY <3>6, <5>1 DEF Covers
        <5>3. i - 1 = Len(rest) => i = Len(all)
          BY <3>8, <3>9, <5>1
        <5> QED
          BY <3>9, <5>1, <5>2, <5>3
      <4> QED
        BY <4>1, <4>2
    <3>11. WithoutBlanks(FlattenSeq(all)) = WithoutBlanks(part)
      <4> DEFINE blanks == SubSeq(args, start, from - 1)
                 behind == SubSeq(args, next, n)
                 joined == FlattenSeq(rest)
      <4>1. FlattenSeq(all) = Then(token, joined)
        <5>1. FlattenSeq(all) = Then(FlattenSeq(<<token>>), joined)
          BY <3>6, <3>8, FlattenThen DEF all, B
        <5>2. FlattenSeq(<<token>>) = token
          <6> DEFINE one == <<token>>
          <6>1. one # <<>> /\ Len(one) = 1 /\ one[1] = token
            OBVIOUS
          <6>2. one \in Seq(Seq(S))
            BY <3>8 DEF B
          <6> HIDE DEF one
          <6>3. PICK g : Joins(g, one) /\ FlattenSeq(one) = g[1]
            BY <6>1, <6>2, FlattenJoins
          <6>4. g[1] = one[1]
            BY <6>1, <6>3 DEF Joins
          <6> QED
            BY <6>1, <6>3, <6>4 DEF one
        <5> QED
          BY <5>1, <5>2
      <4>2. joined \in Seq(S)
        BY <3>6, Flattened DEF B
      <4>3. WithoutBlanks(Then(token, joined)) = Then(WithoutBlanks(token), WithoutBlanks(joined))
        BY <3>3, <4>2, StrippedThen DEF B
      <4>4. WithoutBlanks(joined) = WithoutBlanks(behind)
        BY <3>6 DEF Covers, n
      <4>5. part = Then(blanks, Then(token, behind))
        <5>1. SubSeq(args, from, next - 1) \o SubSeq(args, (next - 1) + 1, n) = SubSeq(args, from, n)
          <6>1. from \in 1..Len(args) + 1 /\ next - 1 \in from - 1..Len(args) /\ n \in next - 1..Len(args)
            BY <1>0, <3>4 DEF n
          <6> QED
            BY <6>1, ConcatAdjacentSubSeq
        <5>2. SubSeq(args, start, from - 1) \o SubSeq(args, (from - 1) + 1, n) = SubSeq(args, start, n)
          <6>1. start \in 1..Len(args) + 1 /\ from - 1 \in start - 1..Len(args) /\ n \in from - 1..Len(args)
            BY <1>0, <2>0, <3>2, <3>4 DEF n
          <6> QED
            BY <6>1, ConcatAdjacentSubSeq
        <5>3. (next - 1) + 1 = next /\ (from - 1) + 1 = from
          BY <3>4
        <5> QED
          BY <5>1, <5>2, <5>3, Zenon DEF Then, token
      <4>6. blanks \in Seq(S) /\ behind \in Seq(S) /\ \A i \in 1..Len(blanks) : blanks[i] \in White
        <5>1. \A i \in start..from - 1 : args[i] \in S
          BY <1>0, <2>0, <3>2 DEF n
        <5>2. \A i \in next..n : args[i] \in S
          BY <1>0, <3>4 DEF n
        <5>3. behind \in Seq(S)
          BY <1>0, <3>4, <5>2
        <5>4. /\ blanks \in Seq(S) /\ Len(blanks) = (IF start <= from - 1 THEN (from - 1) - start + 1 ELSE 0)
              /\ \A i \in 1..(from - 1) - start + 1 : blanks[i] = args[start + i - 1]
          <6>1. start \in Int /\ from - 1 \in Int
            BY <2>0, <3>4
          <6> QED
            BY <5>1, <6>1, SubSeqProperties
        <5> HIDE DEF blanks, behind
        <5>5. ASSUME NEW i \in 1..Len(blanks) PROVE blanks[i] \in White
          <6>1. i \in 1..(from - 1) - start + 1 /\ start + i - 1 \in start..from - 1
            BY <2>0, <3>4, <5>4
          <6> QED
            BY <3>2, <5>4, <6>1
        <5> QED
          BY <5>3, <5>4, <5>5
      <4> HIDE DEF blanks, behind, joined, part
      <4>7. WithoutBlanks(part) = Then(WithoutBlanks(blanks), WithoutBlanks(Then(token, behind)))
        <5>1. Then(token, behind) \in Seq(S)
          BY <3>3, <4>6, ThenIs DEF B
        <5> QED
          BY <4>5, <4>6, <5>1, StrippedThen
      <4>8. WithoutBlanks(Then(token, behind)) = Then(WithoutBlanks(token), WithoutBlanks(behind))
        BY <3>3, <4>6, StrippedThen DEF B
      <4>9. WithoutBlanks(blanks) = <<>>
        BY <4>6, StrippedBlank
      <4>10. Then(<<>>, WithoutBlanks(Then(token, behind))) = WithoutBlanks(Then(token, behind))
        <5>1. Then(token, behind) \in Seq(S)
          BY <3>3, <4>6, ThenIs DEF B
        <5>2. WithoutBlanks(Then(token, behind)) \in Seq(S)
          BY <5>1, StrippedIs
        <5> QED
          BY <5>2, ThenEmpty
      <4> QED
        BY <4>1, <4>3, <4>4, <4>7, <4>8, <4>9, <4>10
    <3>12. Covers(all, args, start)
      BY <3>10, <3>11 DEF Covers, part, n
    <3>13. tokens[start] = all
      BY <3>1 DEF all
    <3> QED
      BY <3>9, <3>12, <3>13
  <2> QED
    BY <2>2, <2>3
<1>2. \A i \in 1..n + 1 : i \in good
  <2> HIDE DEF good, n
  <2>1. n + 1 \in Nat
    BY <1>0
  <2> QED
    BY <1>1, <2>1, Backwards
<1> QED
  BY <1>2

\* Cutting a text into tokens loses nothing and joins nothing.
THEOREM EveryTextIsCovered ==
    ASSUME NEW S, NEW args \in Seq(S)
    PROVE  TokensCover(args)
<1> DEFINE tokens == TokenizeMsiArguments(args)
<1>1. tokens \in Seq(Seq(S)) /\ Covers(tokens, args, 1)
  <2>1. PICK g : AreTokens(g, args) /\ tokens = g[1]
    BY TokensUnfold
  <2>2. 1 \in 1..Len(args) + 1
    OBVIOUS
  <2> HIDE DEF tokens
  <2> QED
    BY <2>1, <2>2, TokensCoverFrom
<1> HIDE DEF tokens
<1>2. SubSeq(args, 1, Len(args)) = args
  BY SubSeqFull
<1>3. WithoutBlanks(FlattenSeq(tokens)) = WithoutBlanks(args)
  BY <1>1, <1>2 DEF Covers
<1>4. \A n \in DOMAIN tokens : IsWhole(tokens[n]) /\ (QuotesOf(tokens[n]) % 2 = 1 => n = Len(tokens))
  BY <1>1 DEF Covers
<1> QED
  BY <1>3, <1>4, Zenon DEF TokensCover, IsWhole, QuotesOf, tokens

-----------------------------------------------------------------------------
(* Properties *)

\* The runs of quotes between the outer quotes of a value, from a place on.
RunFrom(value, i, a, b) ==
    /\ a <= b /\ \A k \in a..b : value[k] = Quote
    /\ a > i => value[a - 1] # Quote
    /\ b < Len(value) - 1 => value[b + 1] # Quote

EvenFrom(value, i) ==
    \A a, b \in i..Len(value) - 1 : RunFrom(value, i, a, b) => (b - a + 1) % 2 = 0

\* How ParsePropertyToken goes through them.
PairsUp(value, i, behind1, behind2) ==
    \/ i > Len(value) - 1
    \/ value[i] # Quote /\ behind1
    \/ value[i] = Quote /\ i < Len(value) - 1 /\ value[i + 1] = Quote /\ behind2

\* The runs from a place on are even if and only if the scan pairs them up.
LEMMA EvenStep ==
    ASSUME NEW S, NEW value \in Seq(S), NEW i \in 2..Len(value) + 2
    PROVE  EvenFrom(value, i) <=> PairsUp(value, i, EvenFrom(value, i + 1), EvenFrom(value, i + 2))
<1> DEFINE end == Len(value) - 1
<1>0. end \in Int /\ i \in Nat /\ i >= 2
  OBVIOUS
<1> HIDE DEF end
<1>1. CASE i > end
  BY <1>0, <1>1 DEF EvenFrom, PairsUp, end
<1>2. CASE i <= end /\ value[i] # Quote
  <2>1. ASSUME EvenFrom(value, i) PROVE EvenFrom(value, i + 1)
    <3> SUFFICES ASSUME NEW a \in i + 1..end, NEW b \in i + 1..end, RunFrom(value, i + 1, a, b)
                 PROVE  (b - a + 1) % 2 = 0
      BY DEF EvenFrom, end
    <3>1. a \in i..end /\ b \in i..end
      BY <1>0
    <3>2. a = i + 1 => a - 1 = i
      BY <1>0
    <3>3. a > i => a > i + 1 \/ a = i + 1
      BY <1>0
    <3>4. RunFrom(value, i, a, b)
      BY <1>2, <3>2, <3>3 DEF RunFrom
    <3> QED
      BY <2>1, <3>1, <3>4 DEF EvenFrom, end
  <2>2. ASSUME EvenFrom(value, i + 1) PROVE EvenFrom(value, i)
    <3> SUFFICES ASSUME NEW a \in i..end, NEW b \in i..end, RunFrom(value, i, a, b)
                 PROVE  (b - a + 1) % 2 = 0
      BY DEF EvenFrom, end
    <3>1. a # i
      BY <1>0, <1>2 DEF RunFrom
    <3>2. a \in i + 1..end /\ b \in i + 1..end /\ a > i
      BY <1>0, <3>1 DEF RunFrom
    <3>3. RunFrom(value, i + 1, a, b)
      BY <3>2 DEF RunFrom
    <3> QED
      BY <2>2, <3>2, <3>3 DEF EvenFrom, end
  <2> QED
    BY <1>0, <1>2, <2>1, <2>2 DEF PairsUp, end
<1>3. CASE i <= end /\ value[i] = Quote /\ ~(i < end /\ value[i + 1] = Quote)
  <2>1. RunFrom(value, i, i, i) /\ i \in i..end
    <3>1. i < end => value[i + 1] # Quote
      BY <1>3
    <3> QED
      BY <1>0, <1>3, <3>1 DEF RunFrom, end
  <2>2. (i - i + 1) % 2 # 0
    BY <1>0
  <2>3. ~EvenFrom(value, i)
    BY <2>1, <2>2 DEF EvenFrom, end
  <2> QED
    BY <1>0, <1>3, <2>3 DEF PairsUp, end
<1>4. CASE i < end /\ value[i] = Quote /\ value[i + 1] = Quote
  <2>1. ASSUME EvenFrom(value, i) PROVE EvenFrom(value, i + 2)
    <3> SUFFICES ASSUME NEW a \in i + 2..end, NEW b \in i + 2..end, RunFrom(value, i + 2, a, b)
                 PROVE  (b - a + 1) % 2 = 0
      BY DEF EvenFrom, end
    <3>1. CASE a = i + 2
      <4>1. \A k \in i..b : k = i \/ k = i + 1 \/ k \in a..b
        BY <1>0, <3>1
      <4>2. RunFrom(value, i, i, b)
        BY <1>0, <1>4, <4>1 DEF RunFrom
      <4>3. i \in i..end /\ b \in i..end
        BY <1>0
      <4>4. (b - i + 1) % 2 = 0
        BY <2>1, <4>2, <4>3 DEF EvenFrom, end
      <4> QED
        BY <1>0, <3>1, <4>4
    <3>2. CASE a # i + 2
      <4>1. a > i + 2 /\ a \in i..end /\ b \in i..end
        BY <1>0, <3>2
      <4>2. RunFrom(value, i, a, b)
        BY <4>1 DEF RunFrom
      <4> QED
        BY <2>1, <4>1, <4>2 DEF EvenFrom, end
    <3> QED
      BY <3>1, <3>2
  <2>2. ASSUME EvenFrom(value, i + 2) PROVE EvenFrom(value, i)
    <3> SUFFICES ASSUME NEW a \in i..end, NEW b \in i..end, RunFrom(value, i, a, b)
                 PROVE  (b - a + 1) % 2 = 0
      BY DEF EvenFrom, end
    <3>1. CASE a = i
      <4>1. b # i
        BY <1>0, <1>4, <3>1 DEF RunFrom, end
      <4>2. CASE b = i + 1
        BY <1>0, <3>1, <4>2
      <4>3. CASE b # i + 1
        <5>1. i + 2 \in i + 2..end /\ b \in i + 2..end
          BY <1>0, <4>1, <4>3
        <5>2. RunFrom(value, i + 2, i + 2, b)
          <6>1. \A k \in i + 2..b : k \in a..b
            BY <1>0, <3>1
          <6> QED
            BY <1>0, <5>1, <6>1 DEF RunFrom
        <5>3. (b - (i + 2) + 1) % 2 = 0
          BY <2>2, <5>1, <5>2 DEF EvenFrom, end
        <5> QED
          BY <1>0, <3>1, <5>3
      <4> QED
        BY <4>2, <4>3
    <3>2. CASE a # i
      <4>1. value[a - 1] # Quote /\ a > i
        BY <1>0, <3>2 DEF RunFrom
      <4>2. a # i + 1 /\ a # i + 2
        <5>1. (i + 1) - 1 = i /\ (i + 2) - 1 = i + 1
          BY <1>0
        <5> QED
          BY <1>4, <4>1, <5>1
      <4>3. a \in i + 2..end /\ b \in i + 2..end /\ a > i + 2
        BY <1>0, <4>1, <4>2 DEF RunFrom
      <4>4. RunFrom(value, i + 2, a, b)
        BY <4>1 DEF RunFrom
      <4> QED
        BY <2>2, <4>3, <4>4 DEF EvenFrom, end
    <3> QED
      BY <3>1, <3>2
  <2> QED
    BY <1>0, <1>4, <2>1, <2>2 DEF PairsUp, end
<1> QED
  BY <1>0, <1>1, <1>2, <1>3, <1>4

\* The scan of ParsePropertyToken, as ValueIsAccepted goes through it.
PairedFrom(value, paired) ==
    paired = [i \in 2..Len(value) + 2 |->
                 \/ i > Len(value) - 1
                 \/ value[i] # Quote /\ paired[i + 1]
                 \/ value[i] = Quote /\ i < Len(value) - 1 /\ value[i + 1] = Quote /\ paired[i + 2]]

\* There is such a scan, and the quotes it goes through are those in pairs.
LEMMA ScanExists ==
    ASSUME NEW S, NEW value \in Seq(S)
    PROVE  \E paired : PairedFrom(value, paired)
<1> DEFINE even == [i \in 2..Len(value) + 2 |-> EvenFrom(value, i)]
<1>0. Len(value) \in Nat
  OBVIOUS
<1>1. ASSUME NEW i \in 2..Len(value) + 2
      PROVE  EvenFrom(value, i) = PairsUp(value, i, even[i + 1], even[i + 2])
  <2>1. EvenFrom(value, i) = PairsUp(value, i, EvenFrom(value, i + 1), EvenFrom(value, i + 2))
    <3>1. EvenFrom(value, i) <=> PairsUp(value, i, EvenFrom(value, i + 1), EvenFrom(value, i + 2))
      BY EvenStep
    <3> QED
      BY <3>1, Zenon DEF EvenFrom, PairsUp
  <2>2. CASE i > Len(value) - 1
    BY <2>1, <2>2, Zenon DEF PairsUp, EvenFrom
  <2>3. CASE i <= Len(value) - 1
    <3>1. i + 1 \in 2..Len(value) + 2 /\ i + 2 \in 2..Len(value) + 2
      BY <1>0, <2>3
    <3>2. even[i + 1] = EvenFrom(value, i + 1) /\ even[i + 2] = EvenFrom(value, i + 2)
      BY <3>1
    <3> HIDE DEF even
    <3> QED
      BY <2>1, <3>2, Zenon
  <2> QED
    BY <1>0, <2>2, <2>3
<1>2. even = [i \in 2..Len(value) + 2 |-> PairsUp(value, i, even[i + 1], even[i + 2])]
  BY <1>1, Zenon
<1>3. even = [i \in 2..Len(value) + 2 |->
                 \/ i > Len(value) - 1
                 \/ value[i] # Quote /\ even[i + 1]
                 \/ value[i] = Quote /\ i < Len(value) - 1 /\ value[i + 1] = Quote /\ even[i + 2]]
  BY <1>2, Zenon DEF PairsUp
<1> QED
  BY <1>3, Zenon DEF PairedFrom

\* The scan goes through if and only if the runs are even.
LEMMA ScanIs ==
    ASSUME NEW S, NEW value \in Seq(S), NEW paired, PairedFrom(value, paired)
    PROVE  \A i \in 2..Len(value) + 2 : paired[i] <=> EvenFrom(value, i)
<1> DEFINE n == Len(value) + 2
           good == {i \in 1..n : i = 1 \/ (paired[i] <=> EvenFrom(value, i))}
<1>0. Len(value) \in Nat /\ n \in Nat
  OBVIOUS
<1>1. \A i \in 2..n : paired[i] <=> PairsUp(value, i, paired[i + 1], paired[i + 2])
  BY Zenon DEF PairedFrom, PairsUp
<1>2. ASSUME NEW i \in 1..n, \A j \in i + 1..n : j \in good PROVE i \in good
  <2>1. CASE i = 1
    BY <2>1
  <2>2. CASE i # 1
    <3>0. i \in 2..n
      BY <1>0, <2>2
    <3>1. EvenFrom(value, i) <=> PairsUp(value, i, EvenFrom(value, i + 1), EvenFrom(value, i + 2))
      BY <3>0, EvenStep
    <3>2. CASE i > Len(value) - 1
      BY <1>1, <3>0, <3>1, <3>2 DEF PairsUp
    <3>3. CASE i <= Len(value) - 1
      <4>1. i + 1 \in i + 1..n /\ i + 2 \in i + 1..n /\ i + 1 # 1 /\ i + 2 # 1
        BY <1>0, <3>3
      <4>2. i + 1 \in good /\ i + 2 \in good
        <5> HIDE DEF good, n
        <5> QED
          BY <1>2, <4>1
      <4>3. /\ paired[i + 1] <=> EvenFrom(value, i + 1)
            /\ paired[i + 2] <=> EvenFrom(value, i + 2)
        BY <4>1, <4>2
      <4> QED
        BY <1>1, <3>0, <3>1, <4>3 DEF PairsUp
    <3> QED
      BY <1>0, <3>0, <3>2, <3>3
  <2> QED
    BY <2>1, <2>2
<1>3. \A i \in 1..n : i \in good
  <2> HIDE DEF good, n
  <2> QED
    BY <1>0, <1>2, Backwards
<1> QED
  BY <1>0, <1>3

\* What a value may be for the scan.
LEMMA AcceptedIs ==
    ASSUME NEW S, NEW value \in Seq(S)
    PROVE  ValueIsAccepted(value) <=>
               \/ value = <<>>
               \/ value[1] # Quote /\ \A i \in DOMAIN value : value[i] \notin White
               \/ value[1] = Quote /\ Len(value) > 1 /\ Last(value) = Quote /\ EvenFrom(value, 2)
<1> DEFINE end == Len(value) - 1
           paired[i \in 2..Len(value) + 2] ==
              \/ i > end
              \/ value[i] # Quote /\ paired[i + 1]
              \/ value[i] = Quote /\ i < end /\ value[i + 1] = Quote /\ paired[i + 2]
<1>1. ValueIsAccepted(value) <=>
               \/ value = <<>>
               \/ value[1] # Quote /\ \A i \in DOMAIN value : value[i] \notin White
               \/ value[1] = Quote /\ Len(value) > 1 /\ Last(value) = Quote /\ paired[2]
  BY DEF ValueIsAccepted
<1>2. PairedFrom(value, paired)
  <2>1. \E h : h = [i \in 2..Len(value) + 2 |->
              \/ i > end
              \/ value[i] # Quote /\ h[i + 1]
              \/ value[i] = Quote /\ i < end /\ value[i + 1] = Quote /\ h[i + 2]]
    <3>1. PICK h : PairedFrom(value, h)
      BY ScanExists
    <3> QED
      BY <3>1, Zenon DEF PairedFrom
  <2> QED
    BY <2>1, Zenon DEF PairedFrom
<1> HIDE DEF paired
<1>3. 2 \in 2..Len(value) + 2
  OBVIOUS
<1>4. paired[2] <=> EvenFrom(value, 2)
  BY <1>2, <1>3, ScanIs
<1> QED
  BY <1>1, <1>4

\* The first sign that can end a name, and what is behind it.
EndsName(token, n) ==
    /\ n \in DOMAIN token /\ token[n] = "="
    /\ \A i \in 1..n - 1 : token[i] \notin White \cup {"="}

StartsName(token) == token[1] = "%" \/ token[1] \notin NotAlphaNumeric

\* The grammar's words for a value.
IsValue(value) ==
    LET inside == 2..Len(value) - 1
        Run(i, j) == /\ \A k \in i..j : value[k] = Quote
                     /\ i > 2 => value[i - 1] # Quote
                     /\ j < Len(value) - 1 => value[j + 1] # Quote
    IN  \/ value = <<>>
        \/ value[1] # Quote /\ ToSet(value) \cap White = {}
        \/ /\ Len(value) >= 2 /\ value[1] = Quote /\ Last(value) = Quote
           /\ \A i, j \in inside : i <= j /\ Run(i, j) => (j - i + 1) % 2 = 0

\* They are what the scan accepts.
LEMMA GrammarOfValue ==
    ASSUME NEW S, NEW value \in Seq(S)
    PROVE  ValueIsAccepted(value) <=> IsValue(value)
<1> DEFINE Run(i, j) == /\ \A k \in i..j : value[k] = Quote
                        /\ i > 2 => value[i - 1] # Quote
                        /\ j < Len(value) - 1 => value[j + 1] # Quote
<1>1. (\A i \in DOMAIN value : value[i] \notin White) <=> ToSet(value) \cap White = {}
  BY Zenon DEF ToSet
<1>2. Len(value) > 1 <=> Len(value) >= 2
  OBVIOUS
<1>3. EvenFrom(value, 2) <=>
          \A i, j \in 2..Len(value) - 1 : i <= j /\ Run(i, j) => (j - i + 1) % 2 = 0
  BY Zenon DEF EvenFrom, RunFrom
<1> QED
  BY <1>1, <1>2, <1>3, AcceptedIs, Zenon DEF IsValue

\* A token that is not empty is taken for a property as the grammar says.
LEMMA GrammarOfToken ==
    ASSUME NEW S, NEW token \in Seq(S), token # <<>>
    PROVE  ParsePropertyToken(token).ok <=> IsProperty(token)
<1> DEFINE ends == {p \in DOMAIN token : token[p] \in White \cup {"="}}
           sep == First(ends)
           Value(n) == SubSeq(token, n + 1, Len(token))
<1>0. Len(token) \in Nat /\ Len(token) >= 1 /\ DOMAIN token = 1..Len(token)
  OBVIOUS
<1>1. ParsePropertyToken(token).ok <=>
          StartsName(token) /\ ends # {} /\ token[sep] = "=" /\ ValueIsAccepted(Value(sep))
  <2> DEFINE fits == StartsName(token) /\ ends # {} /\ token[sep] = "=" /\ ValueIsAccepted(Value(sep))
             name == [name |-> SubSeq(token, 1, sep - 1), value |-> Value(sep)]
  <2>1. ParsePropertyToken(token) = IF fits THEN Valid(name) ELSE Invalid
    BY DEF ParsePropertyToken, StartsName
  <2> HIDE DEF fits, name
  <2>2. ParsePropertyToken(token).ok <=> fits
    BY <2>1 DEF Valid, Invalid
  <2> QED
    BY <2>2 DEF fits
<1>2. ASSUME NEW n \in 2..Len(token)
      PROVE  Value(n) \in Seq(S)
  BY <1>0
<1>3. IsProperty(token) <=>
          \E n \in 2..Len(token) : StartsName(token) /\ EndsName(token, n) /\ ValueIsAccepted(Value(n))
  <2>1. IsProperty(token) <=>
          \E n \in 2..Len(token) :
              /\ token[1] = "%" \/ token[1] \notin NotAlphaNumeric
              /\ token[n] = "="
              /\ \A i \in 1..n - 1 : token[i] \notin White \cup {"="}
              /\ IsValue(Value(n))
    BY Zenon DEF IsProperty, IsValue
  <2>2. \A n \in 2..Len(token) : ValueIsAccepted(Value(n)) <=> IsValue(Value(n))
    BY <1>2, GrammarOfValue
  <2> HIDE DEF Value
  <2>3. \A n \in 2..Len(token) : n \in DOMAIN token
    BY <1>0
  <2> QED
    BY <2>1, <2>2, <2>3, Zenon DEF StartsName, EndsName
<1>4. ASSUME StartsName(token), ends # {}, token[sep] = "="
      PROVE  sep \in 2..Len(token) /\ EndsName(token, sep)
  <2>1. ends \subseteq Nat
    BY <1>0
  <2>2. sep \in ends /\ \A q \in ends : sep <= q
    <3> HIDE DEF ends, sep
    <3> QED
      BY <2>1, <1>4, FirstIs DEF sep
  <2>3. sep \in 1..Len(token)
    BY <1>0, <2>2
  <2> HIDE DEF sep
  <2>4. sep # 1
    BY <1>4 DEF StartsName, NotAlphaNumeric
  <2>5. ASSUME NEW i \in 1..sep - 1 PROVE token[i] \notin White \cup {"="}
    <3>1. i \in DOMAIN token /\ ~(sep <= i)
      BY <1>0, <2>3
    <3> QED
      BY <2>2, <3>1
  <2> QED
    BY <1>0, <1>4, <2>3, <2>4, <2>5 DEF EndsName
<1>5. ASSUME NEW n \in 2..Len(token), EndsName(token, n)
      PROVE  ends # {} /\ sep = n
  <2>1. ends \subseteq Nat /\ n \in ends
    BY <1>0, <1>5 DEF EndsName
  <2>2. sep \in ends /\ \A q \in ends : sep <= q
    <3> HIDE DEF ends, sep
    <3> QED
      BY <2>1, FirstIs DEF sep
  <2>3. sep \in 1..Len(token) /\ token[sep] \in White \cup {"="} /\ sep <= n
    BY <1>0, <2>1, <2>2
  <2> HIDE DEF sep
  <2>4. ~(sep \in 1..n - 1)
    BY <1>5, <2>3 DEF EndsName
  <2> QED
    BY <2>1, <2>3, <2>4
<1> HIDE DEF ends, sep, Value
<1>6. ASSUME ParsePropertyToken(token).ok PROVE IsProperty(token)
  BY <1>1, <1>3, <1>4, <1>6
<1>7. ASSUME IsProperty(token) PROVE ParsePropertyToken(token).ok
  <2>1. PICK n \in 2..Len(token) : StartsName(token) /\ EndsName(token, n) /\ ValueIsAccepted(Value(n))
    BY <1>3, <1>7
  <2>2. ends # {} /\ sep = n /\ token[n] = "="
    BY <1>5, <2>1 DEF EndsName
  <2> QED
    BY <1>1, <2>1, <2>2
<1> QED
  BY <1>6, <1>7

\* A token is taken for a property if and only if the grammar says so.
THEOREM EveryTokenFollowsGrammar ==
    ASSUME NEW S, NEW args \in Seq(S)
    PROVE  FollowsGrammar(args)
<1> DEFINE tokens == TokenizeMsiArguments(args)
<1>1. tokens \in Seq(Seq(S)) /\ Covers(tokens, args, 1)
  <2>1. PICK g : AreTokens(g, args) /\ tokens = g[1]
    BY TokensUnfold
  <2>2. 1 \in 1..Len(args) + 1
    OBVIOUS
  <2> HIDE DEF tokens
  <2> QED
    BY <2>1, <2>2, TokensCoverFrom
<1> HIDE DEF tokens
<1>2. ASSUME NEW i \in DOMAIN tokens
      PROVE  ParsePropertyToken(tokens[i]).ok <=> IsProperty(tokens[i])
  <2> DEFINE token == tokens[i]
             B == Seq(S)
  <2>1. token # <<>>
    BY <1>1 DEF Covers, IsWhole
  <2>2. token \in B
    <3>1. DOMAIN tokens = 1..Len(tokens) /\ tokens \in Seq(B)
      BY <1>1
    <3> HIDE DEF B
    <3> QED
      BY <3>1, ElementOfSeq
  <2> HIDE DEF token
  <2>3. ParsePropertyToken(token).ok <=> IsProperty(token)
    BY <2>1, <2>2, GrammarOfToken
  <2> QED
    BY <2>3 DEF token
<1> QED
  BY <1>2 DEF FollowsGrammar, tokens

-----------------------------------------------------------------------------
(* Quoted values *)

Block(c) == IF c = Quote THEN <<Escaped>> ELSE IF c = Escaped THEN <<Backslash, Escaped>> ELSE <<c>>

\* What is inside the quotes.
Inside(value) == FlattenSeq([i \in DOMAIN value |-> Block(value[i])])

\* The signs of the quoted form are different, and none is blank.
LEMMA SignsDiffer ==
    /\ Quote # Escaped /\ Quote # Backslash /\ Escaped # Backslash
    /\ Quote \notin White /\ Escaped \notin White /\ Backslash \notin White
BY DEF Quote, Escaped, Backslash, White

\* Signs other than a quote, the escapes among them.
Others(S) == (S \ {Quote}) \cup {Escaped, Backslash}

\* Each character becomes one sign or two.
LEMMA BlockIs ==
    ASSUME NEW S, NEW c \in S
    PROVE  Block(c) \in Seq(Others(S)) /\ Len(Block(c)) \in 1..2
<1>1. CASE c = Quote
  <2>1. Block(c) = <<Escaped>> /\ Escaped \in Others(S)
    BY <1>1 DEF Block, Others
  <2> QED
    BY <2>1
<1>2. CASE c # Quote /\ c = Escaped
  <2>1. Block(c) = <<Backslash, Escaped>> /\ Escaped \in Others(S) /\ Backslash \in Others(S)
    BY <1>2 DEF Block, Others
  <2> QED
    BY <2>1
<1>3. CASE c # Quote /\ c # Escaped
  <2>1. Block(c) = <<c>> /\ c \in Others(S)
    BY <1>3 DEF Block, Others
  <2> QED
    BY <2>1
<1> QED
  BY <1>1, <1>2, <1>3

\* The characters one by one.
LEMMA BlocksOf ==
    ASSUME NEW S, NEW value \in Seq(S), NEW s, s = [i \in DOMAIN value |-> Block(value[i])]
    PROVE  /\ s \in Seq(Seq(Others(S))) /\ Len(s) = Len(value)
           /\ \A i \in 1..Len(value) : s[i] = Block(value[i]) /\ value[i] \in S
<1> DEFINE n == Len(value)
           T == Seq(Others(S))
<1>1. n \in Nat /\ DOMAIN value = 1..n /\ \A i \in 1..n : value[i] \in S
  OBVIOUS
<1>2. \A i \in 1..n : Block(value[i]) \in T
  BY <1>1, BlockIs
<1> HIDE DEF n, T
<1>3. s \in Seq(T) /\ Len(s) = n /\ \A i \in 1..n : s[i] = Block(value[i])
  BY <1>1, <1>2
<1> QED
  BY <1>1, <1>3 DEF n, T

\* Between the two quotes of a quoted form there is no other quote.
LEMMA QuotedFormIs ==
    ASSUME NEW S, NEW value \in Seq(S)
    PROVE  LET t == QuotedForm(value)
               b == Inside(value)
           IN  /\ b \in Seq(Others(S))
               /\ t \in Seq(Others(S) \cup {Quote}) /\ Len(t) = Len(b) + 2
               /\ t[1] = Quote /\ t[Len(b) + 2] = Quote
               /\ \A k \in 1..Len(b) : t[k + 1] = b[k] /\ b[k] # Quote
<1> DEFINE b == Inside(value)
           t == QuotedForm(value)
           T == Others(S) \cup {Quote}
           q == <<Quote>>
           f == Then(q, b)
<1>1. b \in Seq(Others(S))
  <2> DEFINE s == [i \in DOMAIN value |-> Block(value[i])]
  <2>1. s \in Seq(Seq(Others(S)))
    BY BlocksOf
  <2> HIDE DEF s
  <2> QED
    BY <2>1, Flattened DEF Inside, s
<1>2. t = Then(f, q)
  BY DEF QuotedForm, Inside, Block, Then
<1> HIDE DEF b, t
<1>3. b \in Seq(T) /\ \A k \in 1..Len(b) : b[k] # Quote
  <2>1. \A k \in 1..Len(b) : b[k] \in Others(S)
    BY <1>1
  <2>2. Quote \notin Others(S) /\ Others(S) \subseteq T
    BY SignsDiffer DEF Others
  <2> HIDE DEF T
  <2>3. b \in Seq(T)
    BY <1>1, <2>2, SeqMonotonic
  <2> QED
    BY <2>1, <2>2, <2>3
<1>4. q \in Seq(T) /\ Len(q) = 1 /\ q[1] = Quote
  OBVIOUS
<1>5. Len(b) \in Nat
  BY <1>1
<1> HIDE DEF q, T
<1>6. f \in Seq(T) /\ Len(f) = Len(b) + 1
  <2>1. f \in Seq(T) /\ Len(f) = Len(q) + Len(b)
    BY <1>3, <1>4, ThenIs, Zenon
  <2> QED
    BY <1>4, <1>5, <2>1
<1>7. f[1] = Quote
  <2>1. 1 \in 1..Len(q)
    BY <1>4
  <2>2. f[1] = q[1]
    BY <1>3, <1>4, <2>1, ThenFirst, Zenon
  <2> QED
    BY <1>4, <2>2
<1>8. ASSUME NEW k \in 1..Len(b) PROVE f[k + 1] = b[k]
  <2>1. k + 1 \in Len(q) + 1..Len(q) + Len(b) /\ (k + 1) - Len(q) = k
    BY <1>4, <1>5
  <2>2. f[k + 1] = b[(k + 1) - Len(q)]
    BY <1>3, <1>4, <2>1, ThenSecond
  <2> QED
    BY <2>1, <2>2
<1> HIDE DEF f
<1>9. t \in Seq(T) /\ Len(t) = Len(b) + 2
  <2>1. t \in Seq(T) /\ Len(t) = Len(f) + Len(q)
    BY <1>2, <1>4, <1>6, ThenIs, Zenon
  <2> QED
    BY <1>4, <1>5, <1>6, <2>1
<1>10. ASSUME NEW k \in 1..Len(b) + 1 PROVE t[k] = f[k]
  <2>1. k \in 1..Len(f)
    BY <1>6
  <2> QED
    BY <1>2, <1>4, <1>6, <2>1, ThenFirst
<1>11. t[Len(b) + 2] = Quote
  <2>1. Len(b) + 2 \in Len(f) + 1..Len(f) + Len(q) /\ (Len(b) + 2) - Len(f) = 1
    BY <1>4, <1>5, <1>6
  <2>2. t[Len(b) + 2] = q[(Len(b) + 2) - Len(f)]
    BY <1>2, <1>4, <1>6, <2>1, ThenSecond
  <2> QED
    BY <1>4, <2>1, <2>2
<1>12. t[1] = Quote /\ \A k \in 1..Len(b) : t[k + 1] = b[k]
  BY <1>5, <1>7, <1>8, <1>10
<1> QED
  BY <1>1, <1>3, <1>9, <1>11, <1>12 DEF t, b, T

\* A quoted form is one token.
LEMMA QuotedIsOneToken ==
    ASSUME NEW S, NEW value \in Seq(S)
    PROVE  TokenizeMsiArguments(QuotedForm(value)) = <<QuotedForm(value)>>
<1> DEFINE t == QuotedForm(value)
           b == Inside(value)
           n == Len(t)
           token == GetNextToken(t, 1)
<1>1. /\ t \in Seq(Others(S) \cup {Quote}) /\ n = Len(b) + 2 /\ Len(b) \in Nat /\ t[1] = Quote /\ t[n] = Quote
      /\ \A k \in 1..Len(b) : t[k + 1] # Quote
  <2>1. b \in Seq(Others(S))
    BY QuotedFormIs
  <2>2. /\ t \in Seq(Others(S) \cup {Quote}) /\ n = Len(b) + 2 /\ t[1] = Quote /\ t[Len(b) + 2] = Quote
        /\ \A k \in 1..Len(b) : t[k + 1] = b[k] /\ b[k] # Quote
    BY QuotedFormIs, Zenon
  <2> HIDE DEF t, b, n
  <2>3. Len(b) \in Nat
    BY <2>1
  <2>4. t[n] = Quote
    BY <2>2
  <2>5. \A k \in 1..Len(b) : t[k + 1] # Quote
    BY <2>2
  <2> QED
    BY <2>2, <2>3, <2>4, <2>5
<1> HIDE DEF t, b
<1>2. PICK tokens : AreTokens(tokens, t) /\ TokenizeMsiArguments(t) = tokens[1]
  BY <1>1, TokensUnfold
<1>3. ~Blank(t, 1)
  <2>1. 1 \in 1..Len(t)
    BY <1>1
  <2> QED
    BY <1>1, <2>1, SignsDiffer DEF Blank
<1> HIDE DEF n
<1>4. /\ token.from \in 1..n
      /\ \A p \in 1..token.from - 1 : t[p] \in White
      /\ token.next \in token.from + 1..n + 1
      /\ t[token.from] = Quote => EndsQuoted(t, token.from, token.next)
  <2>1. 1 \in 1..Len(t) + 1
    BY <1>1 DEF n
  <2> HIDE DEF token
  <2> QED
    BY <1>1, <1>3, <2>1, NextToken DEF n, token
<1> HIDE DEF token
<1>5. token.from = 1
  <2>1. CASE token.from # 1
    <3>1. 1 \in 1..token.from - 1
      BY <1>4, <2>1
    <3> QED
      BY <1>1, <1>4, <3>1, SignsDiffer
  <2> QED
    BY <2>1
<1>6. token.next = n + 1
  <2>1. EndsQuoted(t, 1, token.next)
    BY <1>1, <1>4, <1>5
  <2>2. CASE token.next # n + 1
    <3>1. token.next - 1 \in 2..n /\ t[token.next - 1] = Quote
      BY <2>1, <2>2 DEF EndsQuoted, n
    <3> DEFINE last == token.next
    <3>2. last \in 2..n + 1 /\ last # n + 1 /\ last - 1 \in 2..n
      BY <1>4, <1>5, <2>2, <3>1
    <3> HIDE DEF last
    <3>3. last - 2 \in 1..Len(b) /\ (last - 2) + 1 = last - 1
      BY <1>1, <3>2
    <3> QED
      BY <1>1, <3>1, <3>3 DEF last
  <2> QED
    BY <2>2
<1>7. tokens[1] = Then(<<SubSeq(t, 1, n)>>, tokens[n + 1])
  <2>1. 1 \in 1..Len(t) + 1 /\ token.next - 1 = n
    BY <1>1, <1>6 DEF n
  <2>2. tokens[1] = Then(<<SubSeq(t, token.from, token.next - 1)>>, tokens[token.next])
    BY <1>2, <1>3, <2>1 DEF AreTokens, token
  <2> QED
    BY <1>5, <1>6, <2>1, <2>2
<1>8. tokens[n + 1] = <<>>
  <2>1. Blank(t, n + 1) /\ n + 1 \in 1..Len(t) + 1
    BY <1>1 DEF Blank, n
  <2> QED
    BY <1>2, <2>1 DEF AreTokens
<1>9. SubSeq(t, 1, n) = t
  BY <1>1, SubSeqFull DEF n
<1>10. Then(<<t>>, <<>>) = <<t>>
  <2>1. <<t>> \in Seq({t})
    OBVIOUS
  <2> QED
    BY <2>1, ConcatEmptySeq DEF Then
<1> QED
  BY <1>2, <1>7, <1>8, <1>9, <1>10 DEF t

\* How ParseValue reads what is inside the quotes.
IsEscaped(body, i) == body[i] = Backslash /\ i < Len(body) /\ body[i + 1] = Escaped
SignAt(body, i) == IF IsEscaped(body, i) THEN Escaped ELSE IF body[i] = Escaped THEN Quote ELSE body[i]
SignEnds(body, i) == IF IsEscaped(body, i) THEN i + 2 ELSE i + 1

AreUnescaped(u, body) ==
    \A i \in 1..Len(body) + 2 :
        u[i] = IF i > Len(body) THEN <<>> ELSE Then(<<SignAt(body, i)>>, u[SignEnds(body, i)])

\* There is such a reading of a quoted token, and ParseValue gives its first.
LEMMA UnescapedIs ==
    ASSUME NEW S, NEW token \in Seq(S), NEW body \in Seq(S), Len(token) = Len(body) + 2,
           token[1] = Quote, token[Len(token)] = Quote,
           \A k \in 1..Len(body) : token[k + 1] = body[k] /\ body[k] # Quote
    PROVE  \E u : AreUnescaped(u, body) /\ ParseValue(token) = Valid(u[1])
<1> DEFINE inner == SubSeq(token, 2, Len(token) - 1)
           unescaped[i \in 1..Len(inner) + 2] ==
               IF i > Len(inner) THEN <<>>
               ELSE IF inner[i] = Backslash /\ i < Len(inner) /\ inner[i + 1] = Escaped
               THEN <<Escaped>> \o unescaped[i + 2]
               ELSE <<IF inner[i] = Escaped THEN Quote ELSE inner[i]>> \o unescaped[i + 1]
<1>0. Len(body) \in Nat /\ Len(token) \in Nat /\ Len(token) > 1 /\ token # <<>>
  OBVIOUS
<1>1. inner = body
  <2> DEFINE n == Len(token)
  <2>1. n \in Nat /\ n = Len(body) + 2 /\ \A k \in 2..n - 1 : token[k] \in S
    BY <1>0
  <2> HIDE DEF n
  <2>2. 2 \in Int /\ n - 1 \in Int
    BY <2>1
  <2> DEFINE p == SubSeq(token, 2, n - 1)
  <2>3. /\ p \in Seq(S) /\ Len(p) = IF 2 <= n - 1 THEN n - 1 - 2 + 1 ELSE 0
        /\ \A i \in 1..n - 1 - 2 + 1 : p[i] = token[2 + i - 1]
    BY <2>1, <2>2, SubSeqProperties
  <2> HIDE DEF p
  <2>4. Len(p) = Len(body)
    BY <1>0, <2>1, <2>3
  <2>5. \A i \in 1..Len(body) : p[i] = body[i]
    <3> TAKE i \in 1..Len(body)
    <3>1. i \in 1..n - 1 - 2 + 1 /\ 2 + i - 1 = i + 1
      BY <1>0, <2>1
    <3> QED
      BY <2>3, <3>1
  <2>6. p = body
    BY <2>3, <2>4, <2>5, SeqEqual
  <2> QED
    BY <2>6 DEF p, n
<1>2. ~Contains(body, Quote)
  BY DEF Contains
<1>3. ParseValue(token) = Valid(unescaped[1])
  <2> DEFINE closed == Len(token) > 1 /\ Last(token) = Quote
  <2>1. closed /\ Len(token) - (IF closed THEN 1 ELSE 0) = Len(token) - 1
    BY <1>0 DEF Last
  <2>2. ~(token = <<>> \/ token[1] # Quote)
    BY <1>0
  <2> QED
    BY <1>1, <1>2, <2>1, <2>2 DEF ParseValue
<1>4. unescaped = [i \in 1..Len(inner) + 2 |->
                      IF i > Len(inner) THEN <<>>
                      ELSE IF inner[i] = Backslash /\ i < Len(inner) /\ inner[i + 1] = Escaped
                      THEN <<Escaped>> \o unescaped[i + 2]
                      ELSE <<IF inner[i] = Escaped THEN Quote ELSE inner[i]>> \o unescaped[i + 1]]
  <2> HIDE DEF inner
  <2> DEFINE m == Len(inner) + 2
             stop == {i \in 1..m : i > Len(inner)}
             head == [i \in 1..m |-> <<SignAt(inner, i)>>]
             next == [i \in 1..m |-> SignEnds(inner, i)]
             Read(u, i) == IF i > Len(inner) THEN <<>>
                           ELSE IF inner[i] = Backslash /\ i < Len(inner) /\ inner[i + 1] = Escaped
                           THEN <<Escaped>> \o u[i + 2]
                           ELSE <<IF inner[i] = Escaped THEN Quote ELSE inner[i]>> \o u[i + 1]
             Cut(u, i) == IF i \in stop THEN <<>> ELSE head[i] \o u[next[i]]
  <2>1. m \in Nat
    BY <1>0, <1>1
  <2>2. Onward(m, stop, next)
    <3> SUFFICES ASSUME NEW i \in 1..m, i \notin stop PROVE next[i] \in i + 1..m
      BY DEF Onward
    <3>1. i \in 1..Len(inner) /\ Len(inner) \in Nat
      BY <1>0, <1>1
    <3>2. SignEnds(inner, i) \in {i + 1, i + 2}
      BY DEF SignEnds
    <3> QED
      BY <3>1, <3>2
  <2>3. ASSUME NEW u, NEW i \in 1..m PROVE Cut(u, i) = Read(u, i)
    <3>1. head[i] = <<SignAt(inner, i)>> /\ next[i] = SignEnds(inner, i) /\ (i \in stop <=> i > Len(inner))
      OBVIOUS
    <3> HIDE DEF head, next, stop
    <3> QED
      BY <3>1, Zenon DEF SignAt, SignEnds, IsEscaped
  <2> HIDE DEF m, Read
  <2>4. \E g : IsCut(g, m, stop, head, next)
    <3> HIDE DEF stop, head, next
    <3> QED
      BY <2>1, <2>2, CutsExist
  <2>5. PICK g : g = [i \in 1..m |-> Cut(g, i)]
    <3> HIDE DEF stop, head, next
    <3> QED
      BY <2>4, Zenon DEF IsCut
  <2> HIDE DEF Cut
  <2>6. g = [i \in 1..m |-> Read(g, i)]
    BY <2>3, <2>5
  <2>7. \E h : h = [i \in 1..m |-> Read(h, i)]
    BY <2>6
  <2> QED
    BY <2>7, Zenon DEF m, Read
<1> HIDE DEF unescaped, inner
<1>5. AreUnescaped(unescaped, body)
  <2>1. \A i \in 1..Len(body) + 2 :
           unescaped[i] =
               IF i > Len(body) THEN <<>>
               ELSE IF body[i] = Backslash /\ i < Len(body) /\ body[i + 1] = Escaped
               THEN <<Escaped>> \o unescaped[i + 2]
               ELSE <<IF body[i] = Escaped THEN Quote ELSE body[i]>> \o unescaped[i + 1]
    BY <1>1, <1>4, Zenon
  <2> QED
    BY <2>1, Zenon DEF AreUnescaped, Then, SignAt, SignEnds, IsEscaped
<1> QED
  BY <1>3, <1>5

\* The signs of a character.
LEMMA BlockReads ==
    ASSUME NEW c
    PROVE  /\ c = Quote => Len(Block(c)) = 1 /\ Block(c)[1] = Escaped
           /\ c = Escaped => Len(Block(c)) = 2 /\ Block(c)[1] = Backslash /\ Block(c)[2] = Escaped
           /\ c \notin {Quote, Escaped} => Len(Block(c)) = 1 /\ Block(c)[1] = c
<1>1. CASE c = Quote
  <2>1. Block(c) = <<Escaped>>
    BY <1>1 DEF Block
  <2> QED
    BY <1>1, <2>1, SignsDiffer
<1>2. CASE c = Escaped
  <2>1. Block(c) = <<Backslash, Escaped>>
    BY <1>2, SignsDiffer DEF Block
  <2> QED
    BY <1>2, <2>1, SignsDiffer
<1>3. CASE c \notin {Quote, Escaped}
  <2>1. Block(c) = <<c>>
    BY <1>3 DEF Block
  <2> QED
    BY <1>3, <2>1
<1> QED
  BY <1>1, <1>2, <1>3

\* The signs of all characters are read as the characters.
LEMMA InsideReads ==
    ASSUME NEW S, NEW value \in Seq(S), HasQuotedForm(value), NEW u, AreUnescaped(u, Inside(value))
    PROVE  u[1] = value
<1> DEFINE n == Len(value)
           s == [i \in DOMAIN value |-> Block(value[i])]
           body == Inside(value)
           size == Len(body)
<1>0. /\ n \in Nat /\ s \in Seq(Seq(Others(S))) /\ Len(s) = n
      /\ \A i \in 1..n : value[i] \in S /\ s[i] = Block(value[i]) /\ Len(s[i]) \in 1..2
  <2>1. /\ s \in Seq(Seq(Others(S))) /\ Len(s) = n
        /\ \A i \in 1..n : s[i] = Block(value[i]) /\ value[i] \in S
    BY BlocksOf
  <2>2. n \in Nat
    OBVIOUS
  <2> HIDE DEF s, n
  <2> QED
    BY <2>1, <2>2, BlockIs
<1> HIDE DEF s
<1>1. body \in Seq(Others(S)) /\ size \in Nat
  BY <1>0, Flattened DEF Inside, s
<1>2. PICK off : Offsets(s, off) /\ Placed(body, s, n, off)
  BY <1>0, Flattened DEF Inside, s
<1> HIDE DEF body, size, n
<1>3. /\ off[0] = 0 /\ off[n] = size /\ \A i \in 1..n : off[i] = off[i - 1] + Len(s[i])
      /\ \A i \in 0..n : off[i] \in Nat /\ off[i] <= size
  <2>1. off[n] = size
    BY <1>2 DEF Placed, size
  <2> QED
    BY <1>0, <1>2, <2>1, OffsetsGrow DEF Offsets
<1>4. \A i \in 1..size + 2 :
         u[i] = IF i > size THEN <<>> ELSE Then(<<SignAt(body, i)>>, u[SignEnds(body, i)])
  BY DEF AreUnescaped, body, size
<1> DEFINE place == [i \in 1..n + 1 |-> off[i - 1] + 1]
<1>5. ASSUME NEW i \in 1..n
      PROVE  /\ place[i] \in 1..size /\ place[i + 1] = place[i] + Len(s[i]) /\ place[i] \in Nat
             /\ place[i + 1] \in 1..size + 1 /\ (i = n => place[i + 1] = size + 1)
             /\ body[place[i]] = Block(value[i])[1]
             /\ Len(s[i]) = 2 => body[place[i] + 1] = Block(value[i])[2]
  <2>1. i \in 1..n + 1 /\ i + 1 \in 1..n + 1 /\ (i + 1) - 1 = i /\ i - 1 \in 0..n /\ i \in 0..n
    BY <1>0
  <2>2. place[i] = off[i - 1] + 1 /\ place[i + 1] = off[i] + 1
    BY <2>1
  <2>3. /\ off[i - 1] \in Nat /\ off[i] \in Nat /\ off[i] <= size /\ off[i] = off[i - 1] + Len(s[i])
        /\ (i = n => off[i] = size)
    BY <1>3, <2>1
  <2>4. Len(s[i]) \in 1..2 /\ s[i] = Block(value[i])
    BY <1>0
  <2>5. Behind(body, off[i - 1], s[i])
    BY <1>2 DEF Placed
  <2>6. body[off[i - 1] + 1] = s[i][1] /\ (Len(s[i]) = 2 => body[off[i - 1] + 2] = s[i][2])
    BY <2>4, <2>5 DEF Behind
  <2> HIDE DEF place
  <2> DEFINE before == off[i - 1]
             end == off[i]
             length == Len(s[i])
  <2>7. /\ before \in Nat /\ end \in Nat /\ end <= size /\ end = before + length /\ length \in 1..2
    BY <2>3, <2>4
  <2>11. /\ place[i] = before + 1 /\ place[i + 1] = end + 1 /\ (i = n => end = size)
         /\ body[before + 1] = Block(value[i])[1] /\ (length = 2 => body[before + 2] = Block(value[i])[2])
    BY <2>2, <2>3, <2>4, <2>6
  <2> HIDE DEF before, end, length
  <2>8. /\ before + 1 \in 1..size /\ end + 1 = before + 1 + length /\ before + 1 \in Nat
        /\ end + 1 \in 1..size + 1 /\ before + 1 + 1 = before + 2
    BY <1>1, <2>7
  <2>9. /\ place[i] \in 1..size /\ place[i + 1] = place[i] + length /\ place[i] \in Nat
        /\ place[i + 1] \in 1..size + 1 /\ (i = n => place[i + 1] = size + 1)
    BY <2>8, <2>11
  <2>10. /\ body[place[i]] = Block(value[i])[1]
         /\ length = 2 => body[place[i] + 1] = Block(value[i])[2]
    BY <2>8, <2>11
  <2> QED
    BY <2>9, <2>10 DEF length
<1>6. place[1] = 1 /\ place[n + 1] = size + 1
  BY <1>0, <1>3
<1> HIDE DEF place
<1>7. ASSUME NEW i \in 1..n
      PROVE  SignAt(body, place[i]) = value[i] /\ SignEnds(body, place[i]) = place[i + 1]
  <2> DEFINE p == place[i]
             c == value[i]
  <2>1. /\ p \in 1..size /\ p \in Nat /\ place[i + 1] = p + Len(s[i]) /\ s[i] = Block(c)
        /\ body[p] = Block(c)[1] /\ (Len(s[i]) = 2 => body[p + 1] = Block(c)[2])
        /\ (i = n => place[i + 1] = size + 1)
    BY <1>0, <1>5
  <2> HIDE DEF p, c
  <2>2. CASE c = Quote
    <3>1. Len(s[i]) = 1 /\ body[p] = Escaped
      BY <2>1, <2>2, BlockReads
    <3>2. ~IsEscaped(body, p)
      BY <3>1, SignsDiffer DEF IsEscaped
    <3> QED
      BY <2>1, <2>2, <3>1, <3>2 DEF SignAt, SignEnds, p, c
  <2>3. CASE c = Escaped
    <3>1. Len(s[i]) = 2 /\ body[p] = Backslash /\ body[p + 1] = Escaped
      BY <2>1, <2>3, BlockReads
    <3>2. p < size
      <4>1. p + 2 \in 1..size + 1
        BY <1>5, <2>1, <3>1
      <4> QED
        BY <1>1, <2>1, <4>1
    <3>3. IsEscaped(body, p)
      BY <3>1, <3>2 DEF IsEscaped, size
    <3> QED
      BY <2>1, <2>3, <3>1, <3>3 DEF SignAt, SignEnds, p, c
  <2>4. CASE c \notin {Quote, Escaped}
    <3>1. Len(s[i]) = 1 /\ body[p] = c
      BY <2>1, <2>4, BlockReads
    <3>2. ~IsEscaped(body, p)
      <4> SUFFICES ASSUME c = Backslash, p < size, body[p + 1] = Escaped PROVE FALSE
        BY <3>1 DEF IsEscaped, size
      <4>1. i # n
        BY <1>1, <2>1, <3>1
      <4>2. i + 1 \in 1..n /\ i \in 1..n - 1
        BY <1>0, <4>1
      <4>3. body[p + 1] = Block(value[i + 1])[1]
        BY <1>5, <2>1, <3>1, <4>2
      <4>4. value[i + 1] # Quote
        BY <4>2 DEF HasQuotedForm, n, c
      <4>5. Block(value[i + 1])[1] # Escaped
        BY <4>4, BlockReads, SignsDiffer
      <4> QED
        BY <4>3, <4>5
    <3> QED
      BY <2>1, <2>4, <3>1, <3>2 DEF SignAt, SignEnds, p, c
  <2> QED
    BY <2>2, <2>3, <2>4
<1> DEFINE good == {i \in 1..n + 1 : u[place[i]] = SubSeq(value, i, n)}
<1>8. ASSUME NEW i \in 1..n + 1, \A j \in i + 1..n + 1 : j \in good PROVE i \in good
  <2>1. CASE i = n + 1
    <3>1. size + 1 \in 1..size + 2 /\ size + 1 > size
      BY <1>1
    <3>2. u[size + 1] = <<>>
      BY <1>4, <3>1, Zenon
    <3>3. SubSeq(value, i, n) = <<>>
      BY <1>0, <2>1, SubSeqEmpty
    <3> QED
      BY <1>6, <2>1, <3>2, <3>3
  <2>2. CASE i # n + 1
    <3>1. i \in 1..n /\ i + 1 \in 1..n + 1
      BY <1>0, <2>2
    <3>2. u[place[i + 1]] = SubSeq(value, i + 1, n)
      <4>1. i + 1 \in good
        <5> HIDE DEF good
        <5> QED
          BY <1>0, <1>8, <3>1
      <4> QED
        BY <4>1
    <3>3. place[i] \in 1..size + 2 /\ ~(place[i] > size)
      BY <1>1, <1>5, <3>1
    <3>4. u[place[i]] = Then(<<SignAt(body, place[i])>>, u[SignEnds(body, place[i])])
      BY <1>4, <3>3, Zenon
    <3>5. u[place[i]] = Then(<<value[i]>>, SubSeq(value, i + 1, n))
      BY <1>7, <3>1, <3>2, <3>4
    <3> QED
      BY <3>1, <3>5, TailOf DEF n
  <2> QED
    BY <2>1, <2>2
<1>9. \A i \in 1..n + 1 : i \in good
  <2> HIDE DEF good
  <2>1. n + 1 \in Nat
    BY <1>0
  <2> QED
    BY <1>8, <2>1, Backwards
<1>10. u[1] = SubSeq(value, 1, n)
  <2>1. 1 \in 1..n + 1
    BY <1>0
  <2> QED
    BY <1>6, <1>9, <2>1
<1> QED
  BY <1>10, SubSeqFull DEF n

\* A value in its quoted form is one token, which is read as the value.
THEOREM EveryValueReadsBack ==
    ASSUME NEW S, NEW value \in Seq(S)
    PROVE  ReadsBack(value)
<1> SUFFICES ASSUME HasQuotedForm(value)
             PROVE  ParseValue(QuotedForm(value)) = Valid(value)
  BY QuotedIsOneToken DEF ReadsBack
<1> DEFINE t == QuotedForm(value)
           b == Inside(value)
           T == Others(S) \cup {Quote}
<1>1. /\ b \in Seq(Others(S)) /\ t \in Seq(T) /\ Len(t) = Len(b) + 2 /\ t[1] = Quote
      /\ t[Len(b) + 2] = Quote /\ \A k \in 1..Len(b) : t[k + 1] = b[k] /\ b[k] # Quote
  BY QuotedFormIs, Zenon
<1> HIDE DEF t, b
<1>2. b \in Seq(T)
  BY <1>1, SeqMonotonic
<1>3. PICK u : AreUnescaped(u, b) /\ ParseValue(t) = Valid(u[1])
  <2> HIDE DEF T
  <2>1. t[Len(t)] = Quote
    BY <1>1
  <2> QED
    BY <1>1, <1>2, <2>1, UnescapedIs
<1>4. u[1] = value
  BY <1>3, InsideReads DEF b
<1> QED
  BY <1>3, <1>4 DEF t

-----------------------------------------------------------------------------
(* Tokens behind blanks *)

\* A token that is cut off again behind a blank: one that is whole and does not
\* start with a quote.
Solid(t) ==
    /\ t # <<>> /\ t[1] \notin White /\ t[1] # Quote
    /\ \A i \in DOMAIN t : t[i] \in White => QuotesOf(SubSeq(t, 1, i)) % 2 = 1

\* The blank that is put between properties.
Space == " "

\* It is a blank and no quote.
LEMMA SpaceIsBlank == Space \in White /\ Space # Quote
BY Zenon DEF Space, White, Quote

\* Tokens, each behind a blank.
Spaced(kept) == FlattenSeq([i \in DOMAIN kept |-> Then(<<Space>>, kept[i])])

\* A function on the first n numbers is a sequence of length n.
LEMMA SeqFromItems ==
    ASSUME NEW B, NEW n \in Nat, NEW s, s = [i \in 1..n |-> s[i]], \A i \in 1..n : s[i] \in B
    PROVE  s \in Seq(B) /\ Len(s) = n
OBVIOUS

\* A token behind its blank is a block of them.
LEMMA SpacedBlock ==
    ASSUME NEW S, Space \in S, NEW t \in Seq(S)
    PROVE  /\ Then(<<Space>>, t) \in Seq(S) /\ Len(Then(<<Space>>, t)) = Len(t) + 1
           /\ Then(<<Space>>, t)[1] = Space
           /\ \A k \in 1..Len(t) : Then(<<Space>>, t)[k + 1] = t[k]
<1> DEFINE one == <<Space>>
<1>1. one \in Seq(S) /\ Len(one) = 1 /\ one[1] = Space
  OBVIOUS
<1>2. Len(t) \in Nat
  OBVIOUS
<1> HIDE DEF one
<1>3. Then(one, t) \in Seq(S) /\ Len(Then(one, t)) = 1 + Len(t)
  BY <1>1, ThenIs
<1>4. Then(one, t)[1] = one[1]
  <2>1. 1 \in 1..Len(one)
    BY <1>1
  <2> QED
    BY <1>1, <2>1, ThenFirst
<1>5. ASSUME NEW k \in 1..Len(t) PROVE Then(one, t)[k + 1] = t[k]
  <2>1. k + 1 \in Len(one) + 1..Len(one) + Len(t) /\ (k + 1) - Len(one) = k
    BY <1>1, <1>2
  <2>2. Then(one, t)[k + 1] = t[(k + 1) - Len(one)]
    BY <1>1, <2>1, ThenSecond
  <2> QED
    BY <2>1, <2>2
<1> QED
  BY <1>1, <1>2, <1>3, <1>4, <1>5 DEF one

\* Token t stands behind the blank at p, and a blank at e or nothing behind it.
Stands(args, t, p, e) ==
    /\ p \in 1..Len(args) /\ args[p] \in White
    /\ e = p + 1 + Len(t) /\ e <= Len(args) + 1
    /\ \A k \in 1..Len(t) : args[p + k] = t[k]
    /\ e # Len(args) + 1 => args[e] \in White /\ QuotesOf(t) % 2 = 0

\* What is cut off from p is t.
Cuts(args, t, p, e) ==
    LET next == GetNextToken(args, p)
    IN  ~Blank(args, p) /\ next.next = e /\ SubSeq(args, next.from, next.next - 1) = t

\* A token behind a blank, with a blank or nothing behind it, is cut off as it was.
LEMMA CutOffAgain ==
    ASSUME NEW S, NEW args \in Seq(S), NEW t \in Seq(S), NEW p, NEW e,
           Solid(t), Stands(args, t, p, e)
    PROVE  Cuts(args, t, p, e)
<1> DEFINE n == Len(args)
           m == Len(t)
           next == GetNextToken(args, p)
           from == next.from
           end == next.next
<1>s. /\ p \in 1..Len(args) /\ args[p] \in White
      /\ e = p + 1 + Len(t) /\ e <= Len(args) + 1
      /\ \A k \in 1..Len(t) : args[p + k] = t[k]
      /\ e # Len(args) + 1 => args[e] \in White /\ QuotesOf(t) % 2 = 0
  BY DEF Stands
<1>0. n \in Nat /\ m \in Nat /\ m # 0 /\ p \in Nat /\ p >= 1 /\ e \in Nat /\ p <= n
  <2>1. t # <<>>
    BY DEF Solid
  <2> QED
    BY <2>1, <1>s
<1>1. args[p + 1] \notin White /\ args[p + 1] # Quote
  <2>1. 1 \in 1..Len(t)
    BY <1>0
  <2> QED
    BY <2>1, <1>s DEF Solid
<1>2. e = p + 1 + m /\ e <= n + 1
  BY <1>s
<1>3. \A k \in 1..m : args[p + k] = t[k]
  BY <1>s
<1>4. ~Blank(args, p)
  <2>1. p + 1 \in p..Len(args)
    BY <1>0, <1>2
  <2> QED
    BY <1>1, <2>1 DEF Blank
<1> HIDE DEF m
<1>5. /\ from \in p..n /\ args[from] \notin White
      /\ \A q \in p..from - 1 : args[q] \in White
      /\ end \in from + 1..n + 1
      /\ args[from] # Quote => EndsPlain(args, from, end)
  <2>1. p \in 1..Len(args) + 1
    BY <1>0
  <2> QED
    BY <1>4, <2>1, NextToken
<1> HIDE DEF from, end, n
<1>6. from = p + 1
  <2>1. from # p
    BY <1>5, <1>s
  <2>2. ~(from > p + 1)
    <3>1. ASSUME from > p + 1 PROVE FALSE
      <4>1. p + 1 \in p..from - 1
        BY <1>0, <1>5, <3>1
      <4> QED
        BY <1>1, <1>5, <4>1
    <3> QED
      BY <3>1
  <2> QED
    BY <1>0, <1>5, <2>1, <2>2
<1>7. /\ end \in p + 2..n + 1 /\ end \in Nat
      /\ \A q \in p + 2..end - 1 : args[q] \in White => QuotesIn(args, p + 1, q) % 2 # 0
      /\ end = n + 1 \/ (args[end] \in White /\ QuotesIn(args, p + 1, end) % 2 = 0)
  <2>1. EndsPlain(args, p + 1, end) /\ (p + 1) + 1 = p + 2
    BY <1>0, <1>1, <1>5, <1>6
  <2>2. end \in p + 2..n + 1 /\ end \in Nat
    <3>1. end \in from + 1..n + 1
      BY <1>5
    <3>2. end \in p + 1 + 1..n + 1
      BY <1>6, <3>1
    <3> QED
      BY <1>0, <3>2
  <2> QED
    BY <2>1, <2>2 DEF EndsPlain, n
<1>8. ASSUME NEW k \in 1..m
      PROVE  /\ SubSeq(args, p + 1, p + k) = SubSeq(t, 1, k)
             /\ QuotesIn(args, p + 1, p + k) = QuotesOf(SubSeq(t, 1, k))
  <2> DEFINE a == SubSeq(args, p + 1, p + k)
             b == SubSeq(t, 1, k)
  <2>0. k \in Nat /\ p + k \in p + 1..n /\ p + 1 \in 1..n
    BY <1>0, <1>2
  <2>1. /\ a \in Seq(S) /\ Len(a) = k
        /\ \A i \in 1..k : a[i] = args[(p + 1) + i - 1]
    <3>1. \A i \in p + 1..p + k : args[i] \in S
      BY <1>0, <2>0 DEF n
    <3>2. /\ a \in Seq(S) /\ Len(a) = (IF p + 1 <= p + k THEN (p + k) - (p + 1) + 1 ELSE 0)
          /\ \A i \in 1..(p + k) - (p + 1) + 1 : a[i] = args[(p + 1) + i - 1]
      <4>1. p + 1 \in Int /\ p + k \in Int
        BY <1>0, <2>0
      <4> QED
        BY <3>1, <4>1, SubSeqProperties
    <3>3. p + 1 <= p + k /\ (p + k) - (p + 1) + 1 = k
      BY <1>0, <2>0
    <3> HIDE DEF a
    <3> QED
      BY <3>2, <3>3
  <2>2. b \in Seq(S) /\ Len(b) = k /\ \A i \in 1..k : b[i] = t[i]
    BY <1>0, <2>0 DEF m
  <2> HIDE DEF a, b
  <2>3. ASSUME NEW i \in 1..k PROVE a[i] = b[i]
    <3>1. (p + 1) + i - 1 = p + i /\ i \in 1..m
      BY <1>0, <2>0
    <3> QED
      BY <1>3, <2>1, <2>2, <3>1
  <2>4. a = b
    BY <2>1, <2>2, <2>3, SeqEqual
  <2>5. QuotesOf(SubSeq(args, p + 1, p + k)) = QuotesIn(args, p + 1, p + k)
    BY <2>0, QuotesOfPart DEF n
  <2> QED
    BY <2>4, <2>5 DEF a, b
<1>9. SubSeq(args, p + 1, p + m) = t /\ QuotesIn(args, p + 1, p + m) = QuotesOf(t)
  <2>1. m \in 1..m
    BY <1>0
  <2>2. SubSeq(t, 1, m) = t
    BY SubSeqFull DEF m
  <2> QED
    BY <1>8, <2>1, <2>2
<1>10. ~(end < e)
  <2> SUFFICES ASSUME end < e PROVE FALSE
    OBVIOUS
  <2> DEFINE k == end - p
  <2>1. k \in 1..m /\ p + k = end /\ end # n + 1
    BY <1>0, <1>2, <1>7
  <2> HIDE DEF k
  <2>2. args[p + k] \in White /\ QuotesIn(args, p + 1, p + k) % 2 = 0
    BY <1>7, <2>1
  <2>3. t[k] \in White /\ QuotesOf(SubSeq(t, 1, k)) % 2 = 0
    BY <1>3, <1>8, <2>1, <2>2
  <2>4. k \in DOMAIN t
    BY <2>1 DEF m
  <2>5. QuotesOf(SubSeq(t, 1, k)) % 2 = 1
    BY <2>3, <2>4 DEF Solid
  <2> QED
    BY <2>3, <2>5
<1>11. ~(end > e)
  <2> SUFFICES ASSUME end > e PROVE FALSE
    OBVIOUS
  <2>1. e \in p + 2..end - 1 /\ e # n + 1 /\ e \in 1..n
    BY <1>0, <1>2, <1>7
  <2>2. args[e] \in White /\ QuotesOf(t) % 2 = 0
    BY <2>1, <1>s DEF n
  <2>3. QuotesIn(args, p + 1, e) % 2 # 0
    BY <1>7, <2>1, <2>2
  <2>4. args[e] # Quote
    BY <2>2, SignsDiffer
  <2>5. {q \in p + 1..e : args[q] = Quote} = {q \in p + 1..p + m : args[q] = Quote}
    BY <1>0, <1>2, <2>4
  <2>6. QuotesIn(args, p + 1, e) = QuotesIn(args, p + 1, p + m)
    BY <2>5 DEF QuotesIn
  <2> QED
    BY <1>9, <2>2, <2>3, <2>6
<1>12. end = e /\ end - 1 = p + m
  BY <1>0, <1>2, <1>7, <1>10, <1>11
<1> QED
  BY <1>4, <1>6, <1>9, <1>12 DEF from, end, Cuts

Separable(kept) ==
    \A i \in 1..Len(kept) : Solid(kept[i]) /\ (i # Len(kept) => QuotesOf(kept[i]) % 2 = 0)

\* Tokens that are put behind blanks are found again, if none but the last has
\* an open quote.
LEMMA Retokenized ==
    ASSUME NEW S, Space \in S, NEW kept \in Seq(Seq(S)),
           Separable(kept)
    PROVE  Spaced(kept) \in Seq(S) /\ TokenizeMsiArguments(Spaced(kept)) = kept
<1> DEFINE B == Seq(S)
           n == Len(kept)
           s == [i \in DOMAIN kept |-> Then(<<Space>>, kept[i])]
           args == Spaced(kept)
           size == Len(args)
<1>0. n \in Nat /\ DOMAIN kept = 1..n /\ \A i \in 1..n : kept[i] \in B /\ Len(kept[i]) \in Nat
  <2> HIDE DEF B
  <2>1. n \in Nat /\ DOMAIN kept = 1..n /\ \A i \in 1..n : kept[i] \in B
    BY ElementOfSeq DEF B
  <2> QED
    BY <2>1, LenProperties DEF B
<1>1. /\ s \in Seq(B) /\ Len(s) = n
      /\ \A i \in 1..n : /\ s[i] = Then(<<Space>>, kept[i]) /\ Len(s[i]) = Len(kept[i]) + 1 /\ s[i][1] = Space
                         /\ \A k \in 1..Len(kept[i]) : s[i][k + 1] = kept[i][k]
  <2>1. \A i \in 1..n : /\ Then(<<Space>>, kept[i]) \in B /\ Len(Then(<<Space>>, kept[i])) = Len(kept[i]) + 1
                        /\ Then(<<Space>>, kept[i])[1] = Space
                        /\ \A k \in 1..Len(kept[i]) : Then(<<Space>>, kept[i])[k + 1] = kept[i][k]
    BY <1>0, SpacedBlock
  <2>a. \A i \in 1..n : Then(<<Space>>, kept[i]) \in B
    BY <2>1
  <2>b. s = [i \in 1..n |-> Then(<<Space>>, kept[i])]
    BY <1>0
  <2> HIDE DEF B, s, n
  <2>2. s \in Seq(B) /\ Len(s) = n /\ \A i \in 1..n : s[i] = Then(<<Space>>, kept[i])
    <3>1. DOMAIN s = 1..n /\ \A i \in 1..n : s[i] = Then(<<Space>>, kept[i])
      BY <2>b
    <3>2. s = [i \in 1..n |-> s[i]]
      BY <2>b
    <3>3. \A i \in 1..n : s[i] \in B
      BY <2>a, <3>1
    <3> QED
      BY <1>0, <3>1, <3>2, <3>3, SeqFromItems
  <2> QED
    BY <2>1, <2>2
<1> HIDE DEF s
<1>2. args \in Seq(S) /\ size \in Nat
  BY <1>1, Flattened DEF Spaced, s
<1>3. PICK off : Offsets(s, off) /\ Placed(args, s, n, off)
  BY <1>1, Flattened DEF Spaced, s
<1> HIDE DEF args, size, n
<1>4. /\ off[0] = 0 /\ off[n] = size /\ \A i \in 1..n : off[i] = off[i - 1] + Len(s[i])
      /\ \A i \in 0..n : off[i] \in Nat /\ off[i] <= size
  <2>1. off[n] = size
    BY <1>3 DEF Placed, size
  <2> QED
    BY <1>1, <1>3, <2>1, OffsetsGrow DEF Offsets
<1> DEFINE place == [i \in 1..n + 1 |-> off[i - 1] + 1]
<1>5. ASSUME NEW i \in 1..n
      PROVE  /\ place[i] \in 1..size /\ place[i] \in Nat /\ args[place[i]] = Space
             /\ place[i + 1] = place[i] + 1 + Len(kept[i]) /\ place[i + 1] \in 1..size + 1
             /\ (i = n => place[i + 1] = size + 1)
             /\ \A k \in 1..Len(kept[i]) : args[place[i] + k] = kept[i][k]
  <2>1. i \in 1..n + 1 /\ i + 1 \in 1..n + 1 /\ (i + 1) - 1 = i /\ i - 1 \in 0..n /\ i \in 0..n
    BY <1>0
  <2>2. place[i] = off[i - 1] + 1 /\ place[i + 1] = off[i] + 1
    BY <2>1
  <2> HIDE DEF place
  <2> DEFINE before == off[i - 1]
             end == off[i]
             length == Len(kept[i])
             block == s[i]
  <2>3. /\ before \in Nat /\ end \in Nat /\ end <= size /\ end = before + Len(block)
        /\ (i = n => end = size)
    BY <1>4, <2>1
  <2>4. /\ Len(block) = length + 1 /\ block[1] = Space /\ length \in Nat
        /\ \A k \in 1..length : block[k + 1] = kept[i][k]
    BY <1>0, <1>1
  <2>5. \A k \in 1..Len(block) : args[before + k] = block[k]
    BY <1>3 DEF Placed, Behind
  <2>6. place[i] = before + 1 /\ place[i + 1] = end + 1
    BY <2>2
  <2> HIDE DEF before, end, length, block
  <2>7. /\ before + 1 \in 1..size /\ before + 1 \in Nat
        /\ end + 1 = before + 1 + 1 + length /\ end + 1 \in 1..size + 1
    BY <1>2, <2>3, <2>4
  <2>8. args[before + 1] = Space
    <3>1. 1 \in 1..Len(block)
      BY <2>4
    <3> QED
      BY <2>4, <2>5, <3>1
  <2>9. ASSUME NEW k \in 1..length PROVE args[before + 1 + k] = kept[i][k]
    <3>1. k + 1 \in 1..Len(block) /\ before + 1 + k = before + (k + 1)
      BY <2>3, <2>4
    <3> QED
      BY <2>4, <2>5, <3>1
  <2>10. i = n => end + 1 = size + 1
    BY <2>3
  <2>11. place[i] \in 1..size /\ place[i] \in Nat /\ args[place[i]] = Space
    BY <2>6, <2>7, <2>8
  <2>12. place[i + 1] = place[i] + 1 + length /\ place[i + 1] \in 1..size + 1 /\ (i = n => place[i + 1] = size + 1)
    BY <2>6, <2>7, <2>10
  <2>13. \A k \in 1..length : args[place[i] + k] = kept[i][k]
    BY <2>6, <2>9
  <2> QED
    BY <2>11, <2>12, <2>13 DEF length
<1>6. place[1] = 1 /\ place[n + 1] = size + 1
  BY <1>0, <1>4
<1> HIDE DEF place
<1>7. PICK tokens : AreTokens(tokens, args) /\ TokenizeMsiArguments(args) = tokens[1]
  BY <1>2, TokensUnfold
<1> DEFINE good == {i \in 1..n + 1 : tokens[place[i]] = SubSeq(kept, i, n)}
<1>8. ASSUME NEW i \in 1..n + 1, \A j \in i + 1..n + 1 : j \in good PROVE i \in good
  <2>1. CASE i = n + 1
    <3>1. size + 1 \in 1..Len(args) + 1 /\ Blank(args, size + 1)
      BY <1>2 DEF Blank, size
    <3>2. tokens[size + 1] = <<>>
      BY <1>7, <3>1, Zenon DEF AreTokens
    <3>3. SubSeq(kept, i, n) = <<>>
      BY <1>0, <2>1, SubSeqEmpty
    <3> QED
      BY <1>6, <2>1, <3>2, <3>3
  <2>2. CASE i # n + 1
    <3>1. i \in 1..n /\ i + 1 \in 1..n + 1 /\ i + 1 \in i + 1..n + 1 /\ i \in Nat
      BY <1>0, <2>2
    <3>2. tokens[place[i + 1]] = SubSeq(kept, i + 1, n)
      <4>1. i + 1 \in good
        <5> HIDE DEF good
        <5> QED
          BY <1>8, <3>1
      <4> QED
        BY <4>1
    <3> DEFINE p == place[i]
               e == place[i + 1]
               t == kept[i]
               cut == GetNextToken(args, p)
    <3>3. /\ p \in 1..size /\ args[p] \in White /\ e = p + 1 + Len(t) /\ e <= size + 1
          /\ \A k \in 1..Len(t) : args[p + k] = t[k]
      BY <1>5, <3>1, SpaceIsBlank
    <3>4. t \in Seq(S) /\ Solid(t)
      BY <1>0, <3>1 DEF n, Separable
    <3>5. e # size + 1 => args[e] \in White /\ QuotesOf(t) % 2 = 0
      <4> SUFFICES ASSUME e # size + 1 PROVE args[e] \in White /\ QuotesOf(t) % 2 = 0
        OBVIOUS
      <4>1. i # n
        BY <1>5, <3>1
      <4>2. i + 1 \in 1..n
        BY <1>0, <3>1, <4>1
      <4>3. args[e] = Space
        BY <1>5, <4>2
      <4> QED
        BY <3>1, <4>1, <4>3, SpaceIsBlank DEF n, Separable
    <3> HIDE DEF p, e, t
    <3>6. ~Blank(args, p) /\ cut.next = e /\ SubSeq(args, cut.from, cut.next - 1) = t
      <4>1. size = Len(args)
        BY DEF size
      <4>2. /\ p \in 1..Len(args) /\ args[p] \in White /\ e = p + 1 + Len(t) /\ e <= Len(args) + 1
            /\ \A k \in 1..Len(t) : args[p + k] = t[k]
        BY <3>3, <4>1
      <4>3. e # Len(args) + 1 => args[e] \in White /\ QuotesOf(t) % 2 = 0
        BY <3>5, <4>1
      <4>4. Stands(args, t, p, e)
        BY <4>2, <4>3 DEF Stands
      <4>5. t \in Seq(S) /\ Solid(t) /\ args \in Seq(S)
        BY <1>2, <3>4
      <4>6. Cuts(args, t, p, e)
        BY <4>4, <4>5, CutOffAgain
      <4> QED
        BY <4>6 DEF Cuts
    <3>7. p \in 1..Len(args) + 1
      BY <1>2, <3>3 DEF size
    <3>8. tokens[p] = Then(<<SubSeq(args, cut.from, cut.next - 1)>>, tokens[cut.next])
      BY <1>7, <3>6, <3>7, Zenon DEF AreTokens
    <3>9. tokens[p] = Then(<<t>>, tokens[e])
      BY <3>6, <3>8
    <3>10. SubSeq(kept, i, n) = Then(<<t>>, SubSeq(kept, i + 1, n))
      BY <3>1, TailOf DEF n, t
    <3> QED
      BY <3>2, <3>9, <3>10 DEF p, e
  <2> QED
    BY <2>1, <2>2
<1>9. \A i \in 1..n + 1 : i \in good
  <2> HIDE DEF good
  <2>1. n + 1 \in Nat
    BY <1>0
  <2> QED
    BY <1>8, <2>1, Backwards
<1>10. tokens[1] = SubSeq(kept, 1, n)
  <2>1. 1 \in 1..n + 1
    BY <1>0
  <2> QED
    BY <1>6, <1>9, <2>1
<1>11. SubSeq(kept, 1, n) = kept
  BY SubSeqFull DEF n
<1> QED
  BY <1>2, <1>7, <1>10, <1>11 DEF args

-----------------------------------------------------------------------------
(* Replaced options *)

\* Of a list of tokens each is whole, and one with an open quote is the last.
Proper(tokens) ==
    \A n \in 1..Len(tokens) :
        IsWhole(tokens[n]) /\ (QuotesOf(tokens[n]) % 2 = 1 => n = Len(tokens))

\* A token without blanks and quotes.
Bare(t) == t # <<>> /\ \A i \in 1..Len(t) : t[i] \notin White /\ t[i] # Quote

\* Such a token is whole and has no open quote.
LEMMA BareIsWhole ==
    ASSUME NEW S, NEW t \in Seq(S), Bare(t)
    PROVE  IsWhole(t) /\ QuotesOf(t) % 2 = 0
<1>0. Len(t) \in Nat /\ DOMAIN t = 1..Len(t) /\ 1 \in 1..Len(t)
  <2>1. t # <<>>
    BY DEF Bare
  <2> QED
    BY <2>1
<1>1. {i \in DOMAIN t : t[i] = Quote} = {}
  BY <1>0 DEF Bare
<1>2. QuotesOf(t) = 0
  BY <1>1, FS_EmptySet DEF QuotesOf
<1>3. \A i \in DOMAIN t : t[i] \notin White
  BY <1>0 DEF Bare
<1>4. t # <<>> /\ t[1] \notin White /\ t[1] # Quote
  BY <1>0 DEF Bare
<1> QED
  BY <1>2, <1>3, <1>4 DEF IsWhole

\* The words of the replacements.
LEMMA WordsAreBare ==
    /\ "/" \notin White /\ "/" # Quote
    /\ "q" \notin White /\ "q" # Quote
    /\ "n" \notin White /\ "n" # Quote
    /\ "b" \notin White /\ "b" # Quote
    /\ "!" \notin White /\ "!" # Quote
    /\ "-" \notin White /\ "-" # Quote
    /\ "=" \notin White /\ "=" # Quote
    /\ "s" \notin White /\ "s" # Quote
    /\ "l" \notin White /\ "l" # Quote
    /\ "*" \notin White /\ "*" # Quote
    /\ "%" \notin White /\ "%" # Quote
    /\ "reboot" \notin White /\ "reboot" # Quote
    /\ "rebootprompt" \notin White /\ "rebootprompt" # Quote
    /\ "reallysuppress" \notin White /\ "reallysuppress" # Quote
    /\ "force" \notin White /\ "force" # Quote
BY Zenon DEF White, Quote

Words == {"/", "q", "n", "b", "!", "-", "=", "s", "l", "*", "reboot", "rebootprompt", "reallysuppress", "force"}

\* The same of them as a set.
LEMMA WordsBare == \A w \in Words : w \notin White /\ w # Quote
BY WordsAreBare, Zenon DEF Words

\* All signs that occur, in a text or in a replacement.
AnySign == STRING \cup Words \cup {Quote, Space}

\* A token that can stand anywhere.
Steady(t) == t \in Seq(AnySign) /\ IsWhole(t) /\ QuotesOf(t) % 2 = 0

\* A token of such words can stand anywhere.
LEMMA WordsAreSteady ==
    ASSUME NEW t \in Seq(Words), t # <<>>
    PROVE  Steady(t)
<1>1. Len(t) \in Nat /\ \A i \in 1..Len(t) : t[i] \in Words
  OBVIOUS
<1>2. \A i \in 1..Len(t) : t[i] \notin White /\ t[i] # Quote
  BY <1>1, WordsBare
<1>3. Bare(t)
  BY <1>2 DEF Bare
<1>4. t \in Seq(AnySign)
  <2>1. Words \subseteq AnySign
    BY DEF AnySign
  <2> QED
    BY <2>1, SeqMonotonic
<1> QED
  BY <1>3, <1>4, BareIsWhole DEF Steady

\* The one replacement with quotes.
LEMMA PromptIsSteady == Steady(<<"rebootprompt", "=", Quote, Quote>>)
<1> DEFINE t == <<"rebootprompt", "=", Quote, Quote>>
<1> DEFINE a == "rebootprompt"
           b == "="
<1>1. a \in AnySign /\ b \in AnySign /\ Quote \in AnySign
  <2>1. a \in Words /\ b \in Words
    BY Zenon DEF Words
  <2> QED
    BY <2>1 DEF AnySign
<1>2. /\ t \in Seq(AnySign) /\ Len(t) = 4 /\ DOMAIN t = 1..4
      /\ t[1] = a /\ t[2] = b /\ t[3] = Quote /\ t[4] = Quote
  <2>1. t = <<a, b, Quote, Quote>>
    OBVIOUS
  <2> HIDE DEF t, a, b
  <2> QED
    BY <1>1, <2>1
<1>3. a \notin White /\ a # Quote /\ b \notin White /\ b # Quote /\ Quote \notin White
  BY WordsAreBare, SignsDiffer, Zenon
<1> HIDE DEF t, a, b
<1>4. {i \in DOMAIN t : t[i] = Quote} = {3} \cup {4}
  <2>1. \A i \in DOMAIN t : i = 1 \/ i = 2 \/ i = 3 \/ i = 4
    BY <1>2
  <2> QED
    BY <1>2, <1>3, <2>1
<1>5. IsFiniteSet({3}) /\ Cardinality({3}) = 1 /\ 4 \notin {3}
  <2>1. 4 \notin {3}
    OBVIOUS
  <2>2. IsFiniteSet({3}) /\ Cardinality({3}) = 1
    BY FS_Singleton, Zenon
  <2> QED
    BY <2>1, <2>2
<1>6. QuotesOf(t) = 2
  <2>1. Cardinality({3} \cup {4}) = 2
    BY <1>5, FS_AddElement
  <2> QED
    BY <1>4, <2>1 DEF QuotesOf
<1>7. \A i \in DOMAIN t : t[i] \notin White
  BY <1>2, <1>3
<1>8. t # <<>> /\ t[1] # Quote /\ t[1] \notin White
  BY <1>2, <1>3
<1>9. IsWhole(t)
  BY <1>7, <1>8 DEF IsWhole
<1>10. QuotesOf(t) % 2 = 0 /\ t \in Seq(AnySign)
  BY <1>2, <1>6
<1> QED
  BY <1>9, <1>10 DEF Steady, t

\* What a long option stands for.
LEMMA ReplacementsAreSteady ==
    ASSUME NEW w \in DOMAIN Replacements
    PROVE  Replacements[w] \in Seq(Seq(AnySign)) /\ \A k \in 1..Len(Replacements[w]) : Steady(Replacements[w][k])
<1> DEFINE qn == <<"/", "q", "n">>
           qb == <<"/", "q", "b", "!", "-">>
           ps == <<"rebootprompt", "=", "s">>
           rs == <<"reboot", "=", "reallysuppress">>
           rf == <<"reboot", "=", "force">>
           rp == <<"rebootprompt", "=", Quote, Quote>>
           log == <<"/", "l", "*">>
<1>1. Steady(qn) /\ Steady(qb) /\ Steady(ps) /\ Steady(rs) /\ Steady(rf) /\ Steady(log)
  <2>1. /\ qn \in Seq(Words) /\ qn # <<>> /\ qb \in Seq(Words) /\ qb # <<>>
        /\ ps \in Seq(Words) /\ ps # <<>> /\ rs \in Seq(Words) /\ rs # <<>>
        /\ rf \in Seq(Words) /\ rf # <<>> /\ log \in Seq(Words) /\ log # <<>>
    BY DEF Words
  <2> HIDE DEF qn, qb, ps, rs, rf, log
  <2> QED
    BY <2>1, WordsAreSteady
<1>2. Steady(rp)
  BY PromptIsSteady
<1>3. \/ w = "quiet" /\ Replacements[w] = <<qn>>
      \/ w = "passive" /\ Replacements[w] = <<qb, ps>>
      \/ w = "norestart" /\ Replacements[w] = <<rs>>
      \/ w = "forcerestart" /\ Replacements[w] = <<rf>>
      \/ w = "promptrestart" /\ Replacements[w] = <<rp>>
      \/ w = "log" /\ Replacements[w] = <<log>>
  <2> HIDE DEF qn, qb, ps, rs, rf, rp, log
  <2>1. Replacements =
            [quiet |-> <<qn>>, passive |-> <<qb, ps>>, norestart |-> <<rs>>,
             forcerestart |-> <<rf>>, promptrestart |-> <<rp>>, log |-> <<log>>]
    BY Zenon DEF Replacements, qn, qb, ps, rs, rf, rp, log
  <2> QED
    BY <2>1
<1> HIDE DEF qn, qb, ps, rs, rf, rp, log
<1> DEFINE r == Replacements[w]
           T == {t \in Seq(AnySign) : Steady(t)}
<1>4. qn \in T /\ qb \in T /\ ps \in T /\ rs \in T /\ rf \in T /\ rp \in T /\ log \in T
  BY <1>1, <1>2 DEF Steady
<1>5. \E a, b \in T : r = <<a>> \/ r = <<a, b>>
  <2> HIDE DEF T
  <2> QED
    BY <1>3, <1>4, Zenon
<1>5a. r \in Seq(T) /\ Len(r) \in Nat /\ \A k \in 1..Len(r) : r[k] \in T
  <2>1. PICK a \in T, b \in T : r = <<a>> \/ r = <<a, b>>
    BY <1>5
  <2> HIDE DEF r, T
  <2>2. CASE r = <<a>>
    BY <2>2
  <2>3. CASE r = <<a, b>>
    BY <2>3
  <2> QED
    BY <2>1, <2>2, <2>3
<1>6. Len(r) \in Nat /\ \A k \in 1..Len(r) : r[k] \in T
  BY <1>5a
<1>7. r \in Seq(Seq(AnySign))
  <2>1. T \subseteq Seq(AnySign)
    OBVIOUS
  <2> HIDE DEF r, T
  <2> QED
    BY <1>5a, <2>1, SeqMonotonic
<1> QED
  BY <1>6, <1>7

\* Each place of a text in blocks is in one of them.
LEMMA InABlock ==
    ASSUME NEW S, NEW s \in Seq(Seq(S)), NEW off, Offsets(s, off), NEW k \in 1..off[Len(s)]
    PROVE  \E i \in 1..Len(s) : k \in off[i - 1] + 1..off[i]
<1> DEFINE n == Len(s)
           T == {i \in 0..n : k <= off[i]}
<1>0. /\ n \in Nat /\ off[0] = 0 /\ k \in Nat /\ k >= 1 /\ k <= off[n]
      /\ \A i \in 0..n : off[i] \in Nat
  <2>1. n \in Nat /\ off[0] = 0 /\ off \in [0..n -> Nat]
    BY DEF Offsets
  <2> QED
    BY <2>1
<1> HIDE DEF n
<1>1. T \subseteq Nat /\ T # {}
  <2>1. n \in 0..n
    BY <1>0
  <2>2. n \in T
    BY <1>0, <2>1
  <2>3. T \subseteq 0..n /\ 0..n \subseteq Nat
    OBVIOUS
  <2> HIDE DEF T
  <2> QED
    BY <2>2, <2>3
<1>2. PICK i \in T : \A j \in T : i <= j
  <2> HIDE DEF T
  <2> QED
    BY <1>1, SmallestExists
<1>3. i \in 1..n
  BY <1>0
<1>4. i - 1 \notin T /\ i - 1 \in 0..n
  BY <1>0, <1>2, <1>3
<1>5. k \in off[i - 1] + 1..off[i]
  BY <1>0, <1>3, <1>4
<1> QED
  BY <1>3, <1>5 DEF n

\* What becomes of a token that may be a long option.
Replacing(t) == IsSwitch(t) /\ Len(t) = 2 /\ t[2] \in DOMAIN Replacements
Replaced(t) == IF Replacing(t) THEN Replacements[t[2]] ELSE <<t>>

\* Each of these is whole, and one with an open quote is the token itself.
LEMMA ReplacedToken ==
    ASSUME NEW t \in Seq(AnySign), IsWhole(t)
    PROVE  /\ Replaced(t) \in Seq(Seq(AnySign))
           /\ \A k \in 1..Len(Replaced(t)) :
                 /\ IsWhole(Replaced(t)[k])
                 /\ QuotesOf(Replaced(t)[k]) % 2 = 1 => Replaced(t) = <<t>>
<1>1. CASE Replacing(t)
  <2> DEFINE r == Replacements[t[2]]
  <2>1. Replaced(t) = r /\ t[2] \in DOMAIN Replacements
    BY <1>1 DEF Replaced, Replacing
  <2>2. r \in Seq(Seq(AnySign)) /\ \A k \in 1..Len(r) : Steady(r[k])
    BY <2>1, ReplacementsAreSteady
  <2> HIDE DEF r
  <2>3. \A k \in 1..Len(r) : IsWhole(r[k]) /\ QuotesOf(r[k]) % 2 # 1
    BY <2>2 DEF Steady
  <2> QED
    BY <2>1, <2>2, <2>3
<1>2. CASE ~Replacing(t)
  <2> DEFINE r == <<t>>
             B == Seq(AnySign)
  <2>1. Replaced(t) = r
    BY <1>2 DEF Replaced
  <2>2. r \in Seq(B) /\ Len(r) = 1 /\ r[1] = t
    <3>1. t \in B
      OBVIOUS
    <3> HIDE DEF B
    <3> QED
      BY <3>1
  <2> HIDE DEF r
  <2>3. \A k \in 1..Len(r) : IsWhole(r[k])
    <3>1. \A k \in 1..Len(r) : k = 1
      BY <2>2
    <3> QED
      BY <2>2, <3>1
  <2> QED
    BY <2>1, <2>2, <2>3 DEF r
<1> QED
  BY <1>1, <1>2

\* The tokens with the long options replaced are still whole, and none but the
\* last has an open quote.
LEMMA ReplacedAreProper ==
    ASSUME NEW tokens \in Seq(Seq(AnySign)), Proper(tokens)
    PROVE  ReplaceLongOptions(tokens) \in Seq(Seq(AnySign)) /\ Proper(ReplaceLongOptions(tokens))
<1> DEFINE B == Seq(AnySign)
           C == Seq(B)
           n == Len(tokens)
           s == [i \in 1..n |-> Replaced(tokens[i])]
           flat == ReplaceLongOptions(tokens)
<1>0. n \in Nat /\ \A i \in 1..n : tokens[i] \in B
  <2> HIDE DEF B
  <2> QED
    BY ElementOfSeq DEF B
<1>1. \A i \in 1..n : /\ Replaced(tokens[i]) \in Seq(B)
                      /\ \A k \in 1..Len(Replaced(tokens[i])) :
                            /\ IsWhole(Replaced(tokens[i])[k])
                            /\ QuotesOf(Replaced(tokens[i])[k]) % 2 = 1 => Replaced(tokens[i]) = <<tokens[i]>>
  BY <1>0, ReplacedToken DEF Proper
<1>2. flat = FlattenSeq(s)
  BY Zenon DEF ReplaceLongOptions, Replaced, Replacing
<1>3. s \in Seq(C) /\ Len(s) = n /\ \A i \in 1..n : s[i] = Replaced(tokens[i])
  <2>1. s = [i \in 1..n |-> s[i]] /\ \A i \in 1..n : s[i] = Replaced(tokens[i])
    OBVIOUS
  <2>2. \A i \in 1..n : s[i] \in C
    BY <1>1, <2>1
  <2> HIDE DEF s, C, n, B
  <2> QED
    BY <1>0, <2>1, <2>2, SeqFromItems
<1> HIDE DEF s, flat
<1>4. flat \in C
  BY <1>2, <1>3, Flattened
<1>5. PICK off : Offsets(s, off) /\ Placed(flat, s, n, off)
  BY <1>2, <1>3, Flattened
<1>6. /\ Len(flat) = off[n] /\ Len(flat) \in Nat
      /\ \A i \in 1..n : off[i] = off[i - 1] + Len(s[i])
      /\ \A i \in 1..n : \A k \in 1..Len(s[i]) : flat[off[i - 1] + k] = s[i][k]
      /\ \A i \in 0..n : off[i] \in Nat
      /\ off[n] \in Nat
  <2>1. Len(flat) = off[n] /\ \A i \in 1..n : \A k \in 1..Len(s[i]) : flat[off[i - 1] + k] = s[i][k]
    BY <1>5 DEF Placed, Behind
  <2>2. off \in [0..n -> Nat] /\ \A i \in 1..n : off[i] = off[i - 1] + Len(s[i])
    BY <1>3, <1>5 DEF Offsets
  <2>3. Len(flat) \in Nat
    BY <1>4, LenProperties
  <2> HIDE DEF n
  <2> QED
    BY <1>0, <2>1, <2>2, <2>3
<1>7. ASSUME NEW m \in 1..Len(flat)
      PROVE  IsWhole(flat[m]) /\ (QuotesOf(flat[m]) % 2 = 1 => m = Len(flat))
  <2>1. PICK i \in 1..n : m \in off[i - 1] + 1..off[i]
    BY <1>3, <1>5, <1>6, InABlock
  <2> DEFINE k == m - off[i - 1]
             t == tokens[i]
             r == Replaced(t)
  <2>2. k \in 1..Len(s[i]) /\ off[i - 1] + k = m /\ i - 1 \in 0..n
    <3> HIDE DEF n
    <3>1. i - 1 \in 0..n /\ off[i - 1] \in Nat /\ off[i] \in Nat /\ off[i] = off[i - 1] + Len(s[i])
      BY <1>0, <1>6
    <3>2. Len(s[i]) \in Int
      <4>1. s[i] \in C
        <5> HIDE DEF C
        <5> QED
          BY <1>3, ElementOfSeq
      <4> QED
        BY <4>1
    <3> QED
      BY <2>1, <3>1, <3>2
  <2>3. flat[m] = r[k] /\ k \in 1..Len(r) /\ s[i] = r
    <3>1. flat[m] = s[i][k]
      BY <1>6, <2>2
    <3>2. s[i] = r
      BY <1>3
    <3> HIDE DEF k, r
    <3> QED
      BY <2>2, <3>1, <3>2
  <2>4. IsWhole(r[k]) /\ (QuotesOf(r[k]) % 2 = 1 => r = <<t>>)
    <3> HIDE DEF k
    <3> QED
      BY <1>1, <2>3
  <2>5. ASSUME QuotesOf(flat[m]) % 2 = 1 PROVE m = Len(flat)
    <3>1. r = <<t>>
      BY <2>3, <2>4, <2>5
    <3>2. Len(r) = 1 /\ r[1] = t
      <4> HIDE DEF r
      <4> QED
        BY <3>1
    <3>3. k = 1
      <4> HIDE DEF r, k
      <4> QED
        BY <2>3, <3>2
    <3>4. i = n
      <4>1. QuotesOf(t) % 2 = 1
        <5> HIDE DEF r, k, t
        <5> QED
          BY <2>3, <2>5, <3>2, <3>3
      <4> QED
        BY <4>1 DEF Proper
    <3>5. off[i] = off[i - 1] + 1 /\ off[i - 1] \in Nat
      <4> HIDE DEF r
      <4> QED
        BY <1>6, <2>2, <2>3, <3>2
    <3> HIDE DEF n, k, r, t
    <3> QED
      BY <1>6, <2>2, <3>3, <3>4, <3>5
  <2> QED
    BY <2>3, <2>4, <2>5
<1> QED
  BY <1>4, <1>7 DEF Proper, flat

-----------------------------------------------------------------------------
(* The parser's loop *)

\* One round of it.
Onwards(at) ==
    IF at.tokens = <<>> \/ ~at.parsed.ok THEN at ELSE ConsumeNextToken(at.tokens, at.parsed.value)

\* The rounds of the loop.
AreRounds(after, start, n) ==
    after[0] = start /\ \A i \in 1..n : after[i] = Onwards(after[i - 1])

IsRounds(g, n, start) == g = [i \in 0..n |-> IF i = 0 THEN start ELSE Onwards(g[i - 1])]

\* There are such rounds.
LEMMA RoundsExist ==
    ASSUME NEW n \in Nat, NEW start
    PROVE  \E g : IsRounds(g, n, start)
<1> DEFINE body(g, i) == IF i = 0 THEN start ELSE Onwards(g[i - 1])
           upTo(k) == \E g : \A i \in 0..k : g[i] = body(g, i)
           good == {k \in 0..n : upTo(k)}
<1>1. ASSUME NEW k \in 0..n, \A j \in 0..k - 1 : j \in good PROVE k \in good
  <2>1. PICK g : \A i \in 0..k - 1 : g[i] = body(g, i)
    <3>1. CASE k = 0
      BY <3>1
    <3>2. CASE k # 0
      <4>1. k - 1 \in good
        <5> HIDE DEF good
        <5> QED
          BY <1>1, <3>2
      <4> HIDE DEF body
      <4> QED
        BY <4>1
    <3> QED
      BY <3>1, <3>2
  <2> DEFINE h == [i \in 0..n |-> IF i = k THEN body(g, k) ELSE g[i]]
  <2>2. \A i \in 0..k : h[i] = body(g, i)
    BY <2>1
  <2>3. \A i \in 0..k : body(g, i) = body(h, i)
    <3>1. ASSUME NEW i \in 0..k PROVE body(g, i) = body(h, i)
      <4>1. CASE i = 0
        BY <4>1
      <4>2. CASE i # 0
        <5>1. i - 1 \in 0..n /\ i - 1 # k
          BY <4>2
        <5>2. h[i - 1] = g[i - 1]
          BY <5>1
        <5> HIDE DEF h
        <5> QED
          BY <5>2
      <4> QED
        BY <4>1, <4>2
    <3> QED
      BY <3>1
  <2>4. \A i \in 0..k : h[i] = body(h, i)
    <3> HIDE DEF h, body
    <3> QED
      BY <2>2, <2>3
  <2> HIDE DEF h, body
  <2> QED
    BY <2>4
<1>2. n \in good
  <2>1. \A i \in 0..n : i \in good
    <3> HIDE DEF good
    <3> QED
      BY <1>1, Forwards
  <2> QED
    BY <2>1
<1>3. PICK g : \A i \in 0..n : g[i] = body(g, i)
  <2> HIDE DEF body
  <2> QED
    BY <1>2
<1> DEFINE f == [i \in 0..n |-> g[i]]
<1>4. \A i \in 0..n : body(f, i) = body(g, i)
  OBVIOUS
<1>5. f = [i \in 0..n |-> body(f, i)]
  <2> HIDE DEF body
  <2> QED
    BY <1>3, <1>4
<1> HIDE DEF f
<1> QED
  BY <1>5 DEF IsRounds

\* ParseMSIArguments gives what the last of its rounds has parsed.
LEMMA ParserUnfolds ==
    ASSUME NEW arguments, NEW tokens \in Seq(Seq(AnySign)),
           tokens = ReplaceLongOptions(TokenizeMsiArguments(arguments))
    PROVE  \E after : /\ AreRounds(after, At(tokens, Valid(NothingParsed)), Len(tokens))
                      /\ ParseMSIArguments(arguments) = after[Len(tokens)].parsed
<1> DEFINE n == Len(tokens)
           after[i \in 0..n] ==
               IF i = 0 THEN At(tokens, Valid(NothingParsed))
               ELSE IF after[i - 1].tokens = <<>> \/ ~after[i - 1].parsed.ok THEN after[i - 1]
               ELSE ConsumeNextToken(after[i - 1].tokens, after[i - 1].parsed.value)
<1>0. n \in Nat
  OBVIOUS
<1>1. ParseMSIArguments(arguments) = after[n].parsed
  BY Zenon DEF ParseMSIArguments
<1> HIDE DEF n
<1>2. after = [i \in 0..n |->
               IF i = 0 THEN At(tokens, Valid(NothingParsed))
               ELSE IF after[i - 1].tokens = <<>> \/ ~after[i - 1].parsed.ok THEN after[i - 1]
               ELSE ConsumeNextToken(after[i - 1].tokens, after[i - 1].parsed.value)]
  <2>1. PICK g : IsRounds(g, n, At(tokens, Valid(NothingParsed)))
    <3> HIDE DEF after
    <3> QED
      BY <1>0, RoundsExist
  <2>2. \E h : h = [i \in 0..n |->
               IF i = 0 THEN At(tokens, Valid(NothingParsed))
               ELSE IF h[i - 1].tokens = <<>> \/ ~h[i - 1].parsed.ok THEN h[i - 1]
               ELSE ConsumeNextToken(h[i - 1].tokens, h[i - 1].parsed.value)]
    BY <2>1, Zenon DEF Onwards, IsRounds
  <2> QED
    BY <2>2, Zenon
<1> HIDE DEF after
<1>3. \A i \in 0..n : after[i] = IF i = 0 THEN At(tokens, Valid(NothingParsed)) ELSE Onwards(after[i - 1])
  BY <1>2, Zenon DEF Onwards
<1>4. 0 \in 0..n /\ \A i \in 1..n : i \in 0..n /\ i # 0
  BY <1>0
<1>5. AreRounds(after, At(tokens, Valid(NothingParsed)), n)
  BY <1>3, <1>4, Zenon DEF AreRounds
<1> QED
  BY <1>1, <1>5 DEF n

\* What becomes of what was parsed so far.
WithProperty(v, token) ==
    [v EXCEPT !.properties = Then(Then(@, <<Space>>), token),
              !.parsedProperties = Append(@, ParsePropertyToken(token).value)]

ModifierOf(token) == ParseValue(SubSeq(token, 3, Len(token)))

Consumed(tokens, v, token, rest) ==
    IF ~IsSwitch(token)
    THEN At(rest, IF ParsePropertyToken(token).ok THEN Valid(WithProperty(v, token)) ELSE Invalid)
    ELSE IF Len(token) = 1 \/ ~ModifierOf(token).ok THEN At(rest, Invalid)
    ELSE IF token[2] = "q" THEN At(rest, ParseQuietOption(ModifierOf(token).value, v))
    ELSE IF token[2] = "l" /\ rest # <<>> /\ ParseValue(Head(rest)).ok
    THEN At(Tail(rest), ParseLogOption(ModifierOf(token).value, ParseValue(Head(rest)).value, v))
    ELSE At(rest, Invalid)

\* ConsumeNextToken does this with the head of the tokens.
LEMMA ConsumedIs ==
    ASSUME NEW tokens, NEW v
    PROVE  ConsumeNextToken(tokens, v) = Consumed(tokens, v, Head(tokens), Tail(tokens))
BY Zenon DEF ConsumeNextToken, Consumed, WithProperty, ModifierOf, Then, Space

\* Fields of what is parsed.
Fields == {"properties", "parsedProperties", "logMode", "logAttributes", "logFile", "uiLevel"}

\* The round has gone on to place `pos` of the tokens.
Reached(at, tokens, pos) ==
    /\ pos \in 0..Len(tokens) /\ at.tokens = SubSeq(tokens, pos + 1, Len(tokens))

OptionIs(token, o) == IsSwitch(token) /\ Len(token) > 1 /\ token[2] = o

\* What is in front of a sequence is its head.
LEMMA ThenHead ==
    ASSUME NEW S, NEW x \in S, NEW r \in Seq(S), NEW l, l = Then(<<x>>, r)
    PROVE  l # <<>> /\ Head(l) = x /\ Tail(l) = r
BY DEF Then

\* The first of the tokens that are left, and those behind it.
LEMMA LeftFrom ==
    ASSUME NEW B, NEW tokens \in Seq(B), NEW pos \in 0..Len(tokens), NEW left,
           left = SubSeq(tokens, pos + 1, Len(tokens))
    PROVE  /\ pos = Len(tokens) <=> left = <<>>
           /\ pos # Len(tokens) =>
                 /\ Head(left) = tokens[pos + 1] /\ pos + 1 \in 1..Len(tokens)
                 /\ Tail(left) = SubSeq(tokens, pos + 2, Len(tokens))
<1>0. Len(tokens) \in Nat /\ pos \in Nat /\ pos <= Len(tokens)
  OBVIOUS
<1>1. CASE pos = Len(tokens)
  <2>1. left = <<>>
    BY <1>0, <1>1, SubSeqEmpty
  <2> QED
    BY <1>1, <2>1
<1>2. CASE pos # Len(tokens)
  <2>1. pos + 1 \in 1..Len(tokens) /\ (pos + 1) + 1 = pos + 2
    BY <1>0, <1>2
  <2> DEFINE i == pos + 1
             rest == SubSeq(tokens, pos + 2, Len(tokens))
  <2>2. left = Then(<<tokens[i]>>, rest)
    BY <2>1, TailOf
  <2>3. rest \in Seq(B) /\ tokens[i] \in B
    <3>1. \A k \in pos + 2..Len(tokens) : tokens[k] \in B
      BY <1>0
    <3>2. pos + 2 \in Int /\ Len(tokens) \in Int
      BY <1>0
    <3>3. rest \in Seq(B)
      BY <3>1, <3>2, SubSeqProperties
    <3> QED
      BY <2>1, <3>3
  <2> HIDE DEF i, rest
  <2>4. left # <<>> /\ Head(left) = tokens[i] /\ Tail(left) = rest
    BY <2>2, <2>3, ThenHead
  <2> QED
    BY <1>2, <2>1, <2>4 DEF i, rest
<1> QED
  BY <1>1, <1>2

\* What a property adds.
Added(v, w, token) ==
    /\ w.properties = Then(Then(v.properties, <<Space>>), token)
    /\ w.parsedProperties = Append(v.parsedProperties, ParsePropertyToken(token).value)
    /\ w.logMode = v.logMode /\ w.logFile = v.logFile /\ w.uiLevel = v.uiLevel

\* Nothing else is changed.
LEMMA PropertyAdds ==
    ASSUME NEW v, DOMAIN v = Fields, NEW token
    PROVE  DOMAIN WithProperty(v, token) = Fields /\ Added(v, WithProperty(v, token), token)
BY DEF Fields, WithProperty, Added

\* What a log option changes.
LEMMA LogOptionSets ==
    ASSUME NEW v, DOMAIN v = Fields, NEW mode, NEW file, NEW r,
           r = ParseLogOption(mode, file, v), r.ok
    PROVE  /\ DOMAIN r.value = Fields
           /\ r.value.properties = v.properties /\ r.value.parsedProperties = v.parsedProperties
           /\ r.value.logMode # {} /\ r.value.logFile = file /\ r.value.uiLevel = v.uiLevel
<1> DEFINE chosen == ToSet(mode) \cap (LogModes \cup {"*"})
           modes == IF chosen = {} THEN {"default"} ELSE chosen
           attributes == ToSet(mode) \cap LogAttributes
           w == [v EXCEPT !.logMode = modes, !.logAttributes = attributes, !.logFile = file]
           refused == \/ \A i \in DOMAIN file : file[i] \in White
                      \/ ~(ToSet(mode) \subseteq LogModes \cup LogAttributes \cup {"*"})
<1>1. r = IF refused THEN Invalid ELSE Valid(w)
  BY Zenon DEF ParseLogOption
<1>2. modes # {}
  OBVIOUS
<1> HIDE DEF chosen, modes, attributes, refused
<1>3. r.value = w
  BY <1>1 DEF Valid, Invalid
<1> QED
  BY <1>2, <1>3 DEF Fields

\* The level a modifier asks for.
LevelOf(modifier) == ParseQuietOption(modifier, NothingParsed).value.uiLevel

\* It is the level that a quiet option leaves, whatever was parsed before.
LEMMA QuietOptionSets ==
    ASSUME NEW v, DOMAIN v = Fields, NEW modifier, NEW r, r = ParseQuietOption(modifier, v), r.ok
    PROVE  /\ DOMAIN r.value = Fields
           /\ r.value.properties = v.properties /\ r.value.parsedProperties = v.parsedProperties
           /\ r.value.logMode = v.logMode /\ r.value.logFile = v.logFile
           /\ r.value.uiLevel = LevelOf(modifier)
<1> DEFINE m == IF modifier = <<>> THEN <<"n">> ELSE modifier
           base == UILevels[m[1]]
           extras == ToSet(Tail(m)) \cap {"+", "-", "!"}
           level == {base} \cup extras
                    \cup (IF m[1] = "+" THEN {"+"} ELSE {})
                    \cup (IF base = "none" THEN {"uac"} ELSE {})
           refused == m[1] \notin DOMAIN UILevels \/ (extras \cap {"-", "!"} # {} /\ base # "basic")
           none == ParseQuietOption(modifier, NothingParsed)
<1>1. r = IF refused THEN Invalid ELSE Valid([v EXCEPT !.uiLevel = level])
  BY Zenon DEF ParseQuietOption
<1>2. none = IF refused THEN Invalid ELSE Valid([NothingParsed EXCEPT !.uiLevel = level])
  BY Zenon DEF ParseQuietOption
<1> HIDE DEF m, base, extras, level, refused, none
<1>3. r.value = [v EXCEPT !.uiLevel = level] /\ none.value = [NothingParsed EXCEPT !.uiLevel = level]
  BY <1>1, <1>2 DEF Valid, Invalid
<1>4. none.value.uiLevel = level
  BY <1>3 DEF NothingParsed
<1> QED
  BY <1>3, <1>4 DEF Fields, LevelOf, none

\* A round goes one token on, or two behind a log option, and the token decides
\* which of three things it does.
AddsProperty(v, w, token) ==
    ~IsSwitch(token) /\ ParsePropertyToken(token).ok /\ Added(v, w, token)

SetsLevel(v, w, token) ==
    /\ OptionIs(token, "q")
    /\ w.properties = v.properties /\ w.parsedProperties = v.parsedProperties
    /\ w.logMode = v.logMode /\ w.logFile = v.logFile
    /\ w.uiLevel = LevelOf(ModifierOf(token).value)

SetsLog(v, w, token, file) ==
    /\ OptionIs(token, "l") /\ ParseValue(file).ok
    /\ w.properties = v.properties /\ w.parsedProperties = v.parsedProperties
    /\ w.logMode # {} /\ w.logFile = ParseValue(file).value /\ w.uiLevel = v.uiLevel

Steps(at, next, tokens, pos) ==
    LET v == at.parsed.value
        w == next.parsed.value
    IN  /\ DOMAIN w = Fields
        /\ pos + 1 \in 1..Len(tokens)
        /\ \/ AddsProperty(v, w, tokens[pos + 1]) /\ Reached(next, tokens, pos + 1)
           \/ SetsLevel(v, w, tokens[pos + 1]) /\ Reached(next, tokens, pos + 1)
           \/ /\ pos + 2 \in 1..Len(tokens)
              /\ SetsLog(v, w, tokens[pos + 1], tokens[pos + 2]) /\ Reached(next, tokens, pos + 2)

NoneIsEmpty(tokens) == \A i \in 1..Len(tokens) : tokens[i] # <<>>

Parsed(at) == at.parsed.ok

\* The round before it stands at this place.
StandsAt(at, tokens, pos) ==
    Reached(at, tokens, pos) /\ Parsed(at) /\ DOMAIN at.parsed.value = Fields

\* That is all a round does that does not fail.
LEMMA RoundGoesOn ==
    ASSUME NEW tokens \in Seq(Seq(AnySign)), NoneIsEmpty(tokens), NEW pos, NEW at,
           StandsAt(at, tokens, pos), pos # Len(tokens), Parsed(Onwards(at))
    PROVE  Steps(at, Onwards(at), tokens, pos)
<1> DEFINE next == Onwards(at)
            v == at.parsed.value
           w == next.parsed.value
           n == Len(tokens)
           B == Seq(AnySign)
           left == at.tokens
           token == tokens[pos + 1]
           rest == SubSeq(tokens, pos + 2, n)
<1>0. n \in Nat /\ pos \in 0..n /\ left = SubSeq(tokens, pos + 1, n) /\ tokens \in Seq(B)
  BY DEF Reached, StandsAt
<1>p. at.parsed.ok /\ next.parsed.ok /\ DOMAIN v = Fields
  BY DEF StandsAt, Parsed
<1>1. /\ left # <<>> /\ Head(left) = token /\ pos + 1 \in 1..n /\ Tail(left) = rest
  <2> HIDE DEF B, left, v, w, next
  <2> QED
    BY <1>0, LeftFrom
<1>2. /\ pos + 1 \in 0..n /\ pos + 2 = (pos + 1) + 1
      /\ rest # <<>> => /\ Head(rest) = tokens[pos + 2] /\ pos + 2 \in 1..n
                        /\ Tail(rest) = SubSeq(tokens, pos + 3, n)
  <2>1. pos + 1 \in 0..n /\ (pos + 1) + 1 = pos + 2 /\ (pos + 1) + 2 = pos + 3
    BY <1>0, <1>1
  <2> HIDE DEF B
  <2> DEFINE p == pos + 1
  <2>2. rest = SubSeq(tokens, p + 1, n)
    BY <2>1
  <2> HIDE DEF rest
  <2>3. /\ p = n <=> rest = <<>>
        /\ p # n => Head(rest) = tokens[p + 1] /\ p + 1 \in 1..n /\ Tail(rest) = SubSeq(tokens, p + 2, n)
    <3> HIDE DEF p
    <3>1. p \in 0..n
      BY <2>1 DEF p
    <3> QED
      BY <1>0, <2>2, <3>1, LeftFrom
  <2> QED
    BY <2>1, <2>3
<1>3. next = Consumed(left, v, token, rest)
  <2>1. next = ConsumeNextToken(left, v)
    BY <1>p, <1>1 DEF Onwards
  <2> QED
    BY <1>1, <2>1, ConsumedIs
<1>4. token # <<>> /\ token \in B
  <2> HIDE DEF B
  <2> QED
    BY <1>0, <1>1 DEF NoneIsEmpty
<1>5. Len(token) # 1 <=> Len(token) > 1
  <2>1. token \in Seq(AnySign) /\ token # <<>>
    BY <1>4
  <2> HIDE DEF token, B, left, rest, v, w, n
  <2> DEFINE k == Len(token)
  <2>2. k \in Nat /\ k # 0
    BY <2>1, EmptySeq, LenProperties
  <2> HIDE DEF k
  <2>3. k # 1 <=> k > 1
    BY <2>2
  <2> QED
    BY <2>3 DEF k
<1> HIDE DEF left, token, rest, n, B, next, v, w
<1>6. ~Invalid.ok /\ \A x : Valid(x).ok /\ Valid(x).value = x
  BY DEF Invalid, Valid
<1>7. \A ts, p : At(ts, p).tokens = ts /\ At(ts, p).parsed = p
  BY DEF At
<1>8. CASE ~IsSwitch(token)
  <2>1. ParsePropertyToken(token).ok /\ next = At(rest, Valid(WithProperty(v, token)))
    <3>1. next = At(rest, IF ParsePropertyToken(token).ok THEN Valid(WithProperty(v, token)) ELSE Invalid)
      BY <1>3, <1>8 DEF Consumed
    <3> QED
      BY <1>p, <1>6, <1>7, <3>1
  <2>2. w = WithProperty(v, token) /\ next.tokens = rest
    BY <1>6, <1>7, <2>1 DEF w
  <2>3. DOMAIN w = Fields /\ AddsProperty(v, w, token)
    <3>1. DOMAIN w = Fields /\ Added(v, w, token)
      BY <1>p, <2>2, PropertyAdds
    <3> QED
      BY <1>8, <2>1, <3>1, Zenon DEF AddsProperty
  <2>4. Reached(next, tokens, pos + 1)
    BY <1>2, <2>2 DEF Reached, rest, n
  <2> QED
    BY <1>1, <2>3, <2>4 DEF v, w, n, token, next, Steps
<1>9. CASE IsSwitch(token)
  <2>1. /\ Len(token) # 1 /\ ModifierOf(token).ok
        /\ \/ /\ token[2] = "q" /\ next = At(rest, ParseQuietOption(ModifierOf(token).value, v))
           \/ /\ token[2] = "l" /\ rest # <<>> /\ ParseValue(Head(rest)).ok
              /\ next = At(Tail(rest), ParseLogOption(ModifierOf(token).value, ParseValue(Head(rest)).value, v))
    BY <1>p, <1>3, <1>6, <1>7, <1>9 DEF Consumed
  <2>2. CASE token[2] = "q" /\ next = At(rest, ParseQuietOption(ModifierOf(token).value, v))
    <3>1. next.parsed = ParseQuietOption(ModifierOf(token).value, v) /\ next.tokens = rest
      BY <1>7, <2>2
    <3>2. DOMAIN w = Fields /\ SetsLevel(v, w, token)
      <4>1. OptionIs(token, "q")
        BY <1>5, <1>9, <2>1, <2>2 DEF OptionIs
      <4> QED
        BY <1>p, <3>1, <4>1, QuietOptionSets DEF SetsLevel, w
    <3>3. Reached(next, tokens, pos + 1)
      BY <1>2, <3>1 DEF Reached, rest, n
    <3> QED
      BY <1>1, <3>2, <3>3 DEF v, w, n, token, next, Steps
  <2>3. CASE /\ token[2] = "l" /\ rest # <<>> /\ ParseValue(Head(rest)).ok
             /\ next = At(Tail(rest), ParseLogOption(ModifierOf(token).value, ParseValue(Head(rest)).value, v))
    <3> DEFINE file == tokens[pos + 2]
    <3>1. /\ Head(rest) = file /\ pos + 2 \in 1..n /\ Tail(rest) = SubSeq(tokens, pos + 3, n)
      BY <1>2, <2>3
    <3>2. /\ next.parsed = ParseLogOption(ModifierOf(token).value, ParseValue(file).value, v)
          /\ next.tokens = SubSeq(tokens, pos + 3, n) /\ ParseValue(file).ok
      <4> HIDE DEF file
      <4>1. next = At(SubSeq(tokens, pos + 3, n), ParseLogOption(ModifierOf(token).value, ParseValue(file).value, v))
        BY <2>3, <3>1, Zenon
      <4>2. ParseValue(file).ok
        BY <2>3, <3>1, Zenon
      <4> QED
        BY <1>7, <4>1, <4>2, Zenon
    <3>3. DOMAIN w = Fields /\ SetsLog(v, w, token, file)
      <4>1. OptionIs(token, "l")
        BY <1>5, <1>9, <2>1, <2>3 DEF OptionIs
      <4> QED
        BY <1>p, <3>2, <4>1, LogOptionSets DEF SetsLog, w
    <3>4. Reached(next, tokens, pos + 2)
      <4>1. pos + 2 \in 0..n /\ (pos + 2) + 1 = pos + 3
        BY <1>0, <3>1
      <4> QED
        BY <3>2, <4>1 DEF Reached, n
    <3> QED
      BY <1>1, <3>1, <3>3, <3>4 DEF v, w, n, token, next, Steps
  <2> QED
    BY <2>1, <2>2, <2>3
<1> QED
  BY <1>8, <1>9

-----------------------------------------------------------------------------
(* The properties that are handed on *)

\* A text has a number of quotes.
LEMMA QuotesAreCounted ==
    ASSUME NEW S, NEW t \in Seq(S)
    PROVE  QuotesOf(t) \in Nat
<1>1. IsFiniteSet(1..Len(t))
  <2>1. Len(t) \in Nat
    OBVIOUS
  <2> QED
    BY <2>1, FS_Interval
<1>2. {i \in DOMAIN t : t[i] = Quote} \subseteq 1..Len(t)
  OBVIOUS
<1> QED
  BY <1>1, <1>2, FS_Subset, FS_CardinalityType DEF QuotesOf

\* A text of one block.
LEMMA FlattenOne ==
    ASSUME NEW S, NEW b \in Seq(S)
    PROVE  FlattenSeq(<<b>>) = b
<1> DEFINE s == <<b>>
           B == Seq(S)
           t == FlattenSeq(s)
<1>1. s \in Seq(B) /\ Len(s) = 1 /\ s[1] = b
  <2>1. b \in B
    OBVIOUS
  <2> HIDE DEF B
  <2> QED
    BY <2>1
<1> HIDE DEF s
<1>2. t \in Seq(S)
  BY <1>1, Flattened
<1>3. PICK off : Offsets(s, off) /\ Placed(t, s, 1, off)
  BY <1>1, Flattened
<1> HIDE DEF t
<1>4. off[0] = 0 /\ off[1] = off[0] + Len(b) /\ Len(t) = off[1] /\ \A k \in 1..Len(b) : t[off[0] + k] = b[k]
  <2>1. 1 \in 1..Len(s) /\ 1 \in 1..1 /\ 1 - 1 = 0
    BY <1>1
  <2>2. off[0] = 0 /\ off[1] = off[0] + Len(b)
    BY <1>1, <1>3, <2>1 DEF Offsets
  <2>3. Len(t) = off[1] /\ Behind(t, off[0], s[1])
    BY <1>3, <2>1 DEF Placed
  <2> QED
    BY <1>1, <2>2, <2>3 DEF Behind
<1>5. Len(b) \in Nat
  OBVIOUS
<1>6. Len(t) = Len(b) /\ \A k \in 1..Len(b) : t[k] = b[k]
  BY <1>4, <1>5
<1>7. t = b
  BY <1>2, <1>6, SeqEqual
<1> QED
  BY <1>7 DEF t, s

\* One token more is put behind a blank and behind the others.
LEMMA SpacedAppend ==
    ASSUME NEW kept \in Seq(Seq(AnySign)), NEW t \in Seq(AnySign)
    PROVE  Spaced(Append(kept, t)) = Then(Then(Spaced(kept), <<Space>>), t)
<1> DEFINE B == Seq(AnySign)
           n == Len(kept)
           more == Append(kept, t)
           b == Then(<<Space>>, t)
           s == [i \in DOMAIN kept |-> Then(<<Space>>, kept[i])]
           m == [i \in DOMAIN more |-> Then(<<Space>>, more[i])]
           one == <<b>>
<1>0. /\ n \in Nat /\ DOMAIN kept = 1..n /\ \A i \in 1..n : kept[i] \in B
      /\ DOMAIN more = 1..n + 1 /\ more[n + 1] = t /\ \A i \in 1..n : more[i] = kept[i]
  <2>1. t \in B /\ kept \in Seq(B)
    OBVIOUS
  <2> HIDE DEF B
  <2> QED
    BY <2>1, ElementOfSeq, AppendProperties
<1>1. Space \in AnySign /\ <<Space>> \in B
  BY DEF AnySign
<1>2. b \in B /\ \A i \in 1..n : Then(<<Space>>, kept[i]) \in B
  BY <1>0, <1>1, SpacedBlock
<1>3. s \in Seq(B) /\ Len(s) = n /\ \A i \in 1..n : s[i] = Then(<<Space>>, kept[i])
  <2>1. s = [i \in 1..n |-> s[i]] /\ \A i \in 1..n : s[i] = Then(<<Space>>, kept[i])
    BY <1>0
  <2>2. \A i \in 1..n : s[i] \in B
    BY <1>2, <2>1
  <2> HIDE DEF s, B, n, b, one, m, more
  <2> QED
    BY <1>0, <2>1, <2>2, SeqFromItems
<1>4. m \in Seq(B) /\ Len(m) = n + 1 /\ m[n + 1] = b /\ \A i \in 1..n : m[i] = Then(<<Space>>, kept[i])
  <2>1. /\ m = [i \in 1..n + 1 |-> m[i]]
        /\ \A i \in 1..n + 1 : m[i] = Then(<<Space>>, more[i])
    BY <1>0
  <2>2. m[n + 1] = b
    <3>1. n + 1 \in 1..n + 1
      BY <1>0
    <3> QED
      BY <1>0, <2>1, <3>1
  <2>3. \A i \in 1..n : m[i] = Then(<<Space>>, kept[i])
    <3>1. \A i \in 1..n : i \in 1..n + 1
      BY <1>0
    <3> QED
      BY <1>0, <2>1, <3>1
  <2> HIDE DEF m, b, B, more, one, s, n
  <2>4. \A i \in 1..n + 1 : m[i] \in B
    <3>1. \A i \in 1..n + 1 : i = n + 1 \/ i \in 1..n
      BY <1>0
    <3> QED
      BY <1>2, <2>2, <2>3, <3>1
  <2>5. n + 1 \in Nat
    BY <1>0
  <2>6. m \in Seq(B) /\ Len(m) = n + 1
    BY <2>1, <2>4, <2>5, SeqFromItems
  <2> QED
    BY <2>2, <2>3, <2>6
<1>5. one \in Seq(B) /\ Len(one) = 1 /\ one[1] = b
  <2> HIDE DEF b, B
  <2> QED
    BY <1>2
<1> HIDE DEF s, m, one, b, more
<1>6. m = Then(s, one)
  <2> HIDE DEF B, n
  <2>1. Then(s, one) \in Seq(B) /\ Len(Then(s, one)) = n + 1
    BY <1>3, <1>5, ThenIs
  <2>2. ASSUME NEW i \in 1..n + 1 PROVE m[i] = Then(s, one)[i]
    <3>1. CASE i \in 1..n
      <4>1. i \in 1..Len(s)
        BY <1>3, <3>1
      <4>2. Then(s, one)[i] = s[i]
        BY <1>3, <1>5, <4>1, ThenFirst
      <4> QED
        BY <1>3, <1>4, <3>1, <4>2
    <3>2. CASE i = n + 1
      <4>1. i \in Len(s) + 1..Len(s) + Len(one) /\ i - Len(s) = 1
        BY <1>0, <1>3, <1>5, <3>2
      <4>2. Then(s, one)[i] = one[i - Len(s)]
        BY <1>3, <1>5, <4>1, ThenSecond
      <4> QED
        BY <1>4, <1>5, <3>2, <4>1, <4>2
    <3> QED
      BY <1>0, <3>1, <3>2
  <2> QED
    BY <1>4, <2>1, <2>2, SeqEqual
<1>7. FlattenSeq(m) = Then(FlattenSeq(s), FlattenSeq(one))
  BY <1>3, <1>5, <1>6, FlattenThen
<1>8. FlattenSeq(one) = b
  BY <1>2, FlattenOne DEF one
<1>9. FlattenSeq(s) \in B
  BY <1>3, Flattened
<1>10. Then(Then(FlattenSeq(s), <<Space>>), t) = Then(FlattenSeq(s), b)
  <2> DEFINE blank == <<Space>>
             a == FlattenSeq(s)
  <2>1. a \in Seq(AnySign) /\ blank \in Seq(AnySign)
    BY <1>1, <1>9
  <2>2. b = Then(blank, t)
    BY DEF b
  <2> HIDE DEF blank, a, B
  <2>3. Then(Then(a, blank), t) = Then(a, Then(blank, t))
    BY <2>1, ThenAssociative
  <2> QED
    BY <2>2, <2>3 DEF a, blank
<1> QED
  BY <1>7, <1>8, <1>10 DEF Spaced, s, m, more

\* A property's name starts with no quote.
LEMMA NamesStart ==
    ASSUME NEW token, ParsePropertyToken(token).ok
    PROVE  /\ StartsName(token) /\ token[1] # Quote
           /\ ParsePropertyToken(token) = Valid(ParsePropertyToken(token).value)
<1> DEFINE ends == {p \in DOMAIN token : token[p] \in White \cup {"="}}
           sep == First(ends)
           value == SubSeq(token, sep + 1, Len(token))
           fits == StartsName(token) /\ ends # {} /\ token[sep] = "=" /\ ValueIsAccepted(value)
           name == [name |-> SubSeq(token, 1, sep - 1), value |-> value]
<1>1. ParsePropertyToken(token) = IF fits THEN Valid(name) ELSE Invalid
  BY Zenon DEF ParsePropertyToken, StartsName
<1> HIDE DEF fits, name
<1>2. fits /\ ParsePropertyToken(token) = Valid(name)
  BY <1>1 DEF Invalid
<1>3. ParsePropertyToken(token).value = name
  BY <1>2 DEF Valid
<1>4. StartsName(token)
  BY <1>2 DEF fits
<1>5. token[1] # Quote
  <2>1. Quote \in NotAlphaNumeric
    BY Zenon DEF NotAlphaNumeric
  <2> QED
    BY <1>4, <2>1, WordsAreBare, Zenon DEF StartsName
<1> QED
  BY <1>2, <1>3, <1>4, <1>5

\* The part of length one.
LEMMA FirstPart ==
    ASSUME NEW S, NEW t \in Seq(S), t # <<>>
    PROVE  SubSeq(t, 1, 1) = <<t[1]>>
<1>1. Len(t) \in Nat /\ Len(t) >= 1
  OBVIOUS
<1>2. 1 \in 1..Len(t) /\ 1 \in Int
  BY <1>1
<1>3. SubSeq(t, 1, 1) = Then(<<t[1]>>, SubSeq(t, 2, 1))
  BY <1>2, SubSeqRecursiveFirst DEF Then
<1>4. SubSeq(t, 2, 1) = <<>>
  BY SubSeqEmpty
<1>5. <<t[1]>> \in Seq(S)
  BY <1>2
<1> QED
  BY <1>3, <1>4, <1>5, ThenEmpty

\* A name that ends at the second sign is the first.
LEMMA ShortNames ==
    ASSUME NEW S, NEW token \in Seq(S), token # <<>>, ParsePropertyToken(token).ok, token[2] = "="
    PROVE  ParsePropertyToken(token).value.name = <<token[1]>>
<1> DEFINE ends == {p \in DOMAIN token : token[p] \in White \cup {"="}}
           sep == First(ends)
           value == SubSeq(token, sep + 1, Len(token))
           fits == StartsName(token) /\ ends # {} /\ token[sep] = "=" /\ ValueIsAccepted(value)
           name == [name |-> SubSeq(token, 1, sep - 1), value |-> value]
<1>0. Len(token) \in Nat /\ Len(token) >= 1 /\ DOMAIN token = 1..Len(token)
  OBVIOUS
<1>1. ParsePropertyToken(token) = IF fits THEN Valid(name) ELSE Invalid
  BY Zenon DEF ParsePropertyToken, StartsName
<1>2. fits /\ ParsePropertyToken(token).value = name
  <2> HIDE DEF fits, name
  <2> QED
    BY <1>1 DEF Invalid, Valid
<1>3. ends \subseteq Nat /\ ends # {} /\ token[sep] = "=" /\ StartsName(token)
  BY <1>0, <1>2
<1>4. sep \in ends /\ \A q \in ends : sep <= q
  <2> HIDE DEF ends
  <2> QED
    BY <1>3, FirstIs
<1>5. sep \in 1..Len(token)
  BY <1>0, <1>4
<1>6. sep # 1
  <2> HIDE DEF sep
  <2> QED
    BY <1>3 DEF StartsName, NotAlphaNumeric
<1>7. sep = 2
  <2> HIDE DEF sep
  <2>1. 2 \in ends
    BY <1>0, <1>5, <1>6
  <2> QED
    BY <1>0, <1>4, <1>5, <1>6, <2>1
<1>8. name.name = SubSeq(token, 1, 1)
  <2> HIDE DEF value, sep
  <2>1. name.name = SubSeq(token, 1, sep - 1)
    OBVIOUS
  <2>2. sep - 1 = 1
    BY <1>7
  <2> HIDE DEF name
  <2> QED
    BY <2>1, <2>2
<1>9. SubSeq(token, 1, 1) = <<token[1]>>
  BY FirstPart
<1> QED
  BY <1>2, <1>8, <1>9

\* What was handed on and looked through so far are the same tokens; one with an
\* open quote is only the last of all.
AreKept(v, kept, finished) ==
    /\ v.properties = Spaced(kept)
    /\ v.parsedProperties = [i \in 1..Len(kept) |-> ParsePropertyToken(kept[i]).value]
    /\ \A i \in 1..Len(kept) :
          /\ IsWhole(kept[i]) /\ ParsePropertyToken(kept[i]).ok
          /\ QuotesOf(kept[i]) % 2 = 1 => i = Len(kept) /\ finished

KeptSoFar(at, tokens) ==
    Parsed(at) =>
        \E pos : /\ StandsAt(at, tokens, pos)
                 /\ \E kept \in Seq(Seq(AnySign)) : AreKept(at.parsed.value, kept, pos = Len(tokens))

\* A whole token is not empty.
LEMMA ProperIsNotEmpty ==
    ASSUME NEW tokens, Proper(tokens)
    PROVE  NoneIsEmpty(tokens)
BY DEF Proper, IsWhole, NoneIsEmpty

\* So before the first round,
LEMMA KeptAtFirst ==
    ASSUME NEW tokens \in Seq(Seq(AnySign))
    PROVE  KeptSoFar(At(tokens, Valid(NothingParsed)), tokens)
<1> DEFINE at == At(tokens, Valid(NothingParsed))
           v == at.parsed.value
           B == Seq(AnySign)
           none == <<>>
<1>1. v = NothingParsed /\ at.tokens = tokens
  BY DEF At, Valid
<1>2. DOMAIN v = Fields /\ v.properties = <<>> /\ v.parsedProperties = <<>>
  BY <1>1 DEF NothingParsed, Fields
<1>3. SubSeq(tokens, 1, Len(tokens)) = tokens /\ 0 \in 0..Len(tokens) /\ 0 + 1 = 1
  <2>1. Len(tokens) \in Nat
    BY LenProperties
  <2> QED
    BY <2>1, SubSeqFull
<1> HIDE DEF v, at, B
<1>4. Parsed(at) => StandsAt(at, tokens, 0)
  BY <1>1, <1>2, <1>3 DEF StandsAt, Reached, v
<1>5. none \in Seq(B) /\ Len(none) = 0
  OBVIOUS
<1>6. Spaced(none) = <<>>
  BY DEF Spaced, FlattenSeq
<1>7. [i \in 1..Len(none) |-> ParsePropertyToken(none[i]).value] = <<>>
  BY <1>5
<1>8. \A i \in 1..Len(none) : FALSE
  BY <1>5
<1> HIDE DEF none
<1>9. AreKept(v, none, 0 = Len(tokens))
  BY <1>2, <1>6, <1>7, <1>8 DEF AreKept
<1> QED
  BY <1>4, <1>5, <1>9 DEF KeptSoFar, v, at, B

\* and one more property does not change it,
LEMMA KeptWithProperty ==
    ASSUME NEW kept \in Seq(Seq(AnySign)), NEW t \in Seq(AnySign), NEW v, NEW w,
           NEW finished \in BOOLEAN,
           AreKept(v, kept, FALSE), IsWhole(t), QuotesOf(t) % 2 = 1 => finished,
           AddsProperty(v, w, t)
    PROVE  Append(kept, t) \in Seq(Seq(AnySign)) /\ AreKept(w, Append(kept, t), finished)
<1> DEFINE B == Seq(AnySign)
           n == Len(kept)
           more == Append(kept, t)
           P(k) == ParsePropertyToken(k).value
           old == [i \in 1..n |-> P(kept[i])]
           new == [i \in 1..Len(more) |-> P(more[i])]
<1>0. /\ n \in Nat /\ more \in Seq(B) /\ Len(more) = n + 1
      /\ more[n + 1] = t /\ \A i \in 1..n : more[i] = kept[i]
  <2>1. t \in B /\ kept \in Seq(B)
    OBVIOUS
  <2> HIDE DEF B
  <2> QED
    BY <2>1, ElementOfSeq, AppendProperties
<1>1. w.properties = Spaced(more)
  BY SpacedAppend DEF AddsProperty, Added, AreKept
<1>2. w.parsedProperties = Append(old, P(t))
  BY DEF AddsProperty, Added, AreKept
<1>3. Append(old, P(t)) = new
  <2> DEFINE V == {P(kept[i]) : i \in 1..n} \cup {P(t)}
  <2>1. old = [i \in 1..n |-> old[i]] /\ \A i \in 1..n : old[i] \in V /\ old[i] = P(kept[i])
    OBVIOUS
  <2>2. new = [i \in 1..n + 1 |-> new[i]] /\ \A i \in 1..n + 1 : new[i] = P(more[i])
    BY <1>0
  <2>3. P(t) \in V
    OBVIOUS
  <2>4. \A i \in 1..n + 1 : i = n + 1 \/ i \in 1..n
    BY <1>0
  <2> HIDE DEF old, new, V, P, more, n, B
  <2>5. \A i \in 1..n : new[i] = old[i]
    <3>1. \A i \in 1..n : i \in 1..n + 1
      BY <1>0
    <3> QED
      BY <1>0, <2>1, <2>2, <3>1
  <2>6. new[n + 1] = P(t)
    <3>1. n + 1 \in 1..n + 1
      BY <1>0
    <3> QED
      BY <1>0, <2>2, <3>1
  <2>7. old \in Seq(V) /\ Len(old) = n
    BY <1>0, <2>1, SeqFromItems
  <2>8. new \in Seq(V) /\ Len(new) = n + 1
    <3>1. n + 1 \in Nat
      BY <1>0
    <3>2. \A i \in 1..n + 1 : new[i] \in V
      BY <2>1, <2>3, <2>4, <2>5, <2>6
    <3> QED
      BY <2>2, <3>1, <3>2, SeqFromItems
  <2> DEFINE both == Append(old, P(t))
  <2>9. /\ both \in Seq(V) /\ Len(both) = n + 1 /\ both[n + 1] = P(t)
        /\ \A i \in 1..n : both[i] = old[i]
    BY <2>3, <2>7, AppendProperties
  <2> HIDE DEF both
  <2>10. \A i \in 1..n + 1 : both[i] = new[i]
    BY <2>4, <2>5, <2>6, <2>9
  <2>11. both = new
    BY <2>8, <2>9, <2>10, SeqEqual
  <2> QED
    BY <2>11 DEF both
<1>4. ASSUME NEW i \in 1..Len(more)
      PROVE  /\ IsWhole(more[i]) /\ ParsePropertyToken(more[i]).ok
             /\ QuotesOf(more[i]) % 2 = 1 => i = Len(more) /\ finished
  <2> HIDE DEF more, n, B, P, old, new
  <2>1. i = n + 1 \/ i \in 1..n
    BY <1>0
  <2>2. CASE i = n + 1
    <3>1. more[i] = t
      BY <1>0, <2>2
    <3>2. ParsePropertyToken(t).ok
      BY DEF AddsProperty
    <3> QED
      BY <1>0, <2>2, <3>1, <3>2
  <2>3. CASE i \in 1..n
    <3>1. more[i] = kept[i]
      BY <1>0, <2>3
    <3>2. IsWhole(kept[i]) /\ ParsePropertyToken(kept[i]).ok /\ QuotesOf(kept[i]) % 2 # 1
      BY <2>3 DEF AreKept, n
    <3> QED
      BY <3>1, <3>2
  <2> QED
    BY <2>1, <2>2, <2>3
<1> HIDE DEF more, old
<1>5. AreKept(w, more, finished)
  BY <1>1, <1>2, <1>3, <1>4 DEF AreKept
<1> QED
  BY <1>0, <1>5 DEF more

\* nor any round.
LEMMA KeptByRounds ==
    ASSUME NEW tokens \in Seq(Seq(AnySign)), Proper(tokens), NEW at, KeptSoFar(at, tokens)
    PROVE  KeptSoFar(Onwards(at), tokens)
<1> DEFINE next == Onwards(at)
           n == Len(tokens)
           B == Seq(AnySign)
           v == at.parsed.value
           w == next.parsed.value
<1> SUFFICES ASSUME Parsed(next) PROVE KeptSoFar(next, tokens)
  BY DEF KeptSoFar
<1>1. CASE ~Parsed(at)
  BY <1>1 DEF Onwards, Parsed
<1>2. CASE Parsed(at)
  <2>1. PICK pos : /\ StandsAt(at, tokens, pos)
                   /\ \E kept \in Seq(B) : AreKept(v, kept, pos = n)
    BY <1>2 DEF KeptSoFar
  <2>2. PICK kept \in Seq(B) : AreKept(v, kept, pos = n)
    BY <2>1
  <2>3. n \in Nat /\ pos \in 0..n /\ at.tokens = SubSeq(tokens, pos + 1, n)
    <3>1. n \in Nat
      BY LenProperties
    <3> HIDE DEF B
    <3> QED
      BY <2>1, <3>1 DEF StandsAt, Reached
  <2>4. CASE pos = n
    <3>1. at.tokens = <<>>
      <4>1. pos + 1 > n
        BY <2>3, <2>4
      <4> QED
        BY <2>3, <4>1, SubSeqEmpty
    <3>2. next = at
      BY <3>1 DEF Onwards
    <3> QED
      BY <3>2
  <2>5. CASE pos # n
    <3>1. Steps(at, next, tokens, pos)
      <4>1. NoneIsEmpty(tokens)
        BY ProperIsNotEmpty
      <4> QED
        BY <2>1, <2>5, <4>1, RoundGoesOn
    <3> DEFINE token == tokens[pos + 1]
    <3>2. DOMAIN w = Fields /\ pos + 1 \in 1..n
      BY <3>1 DEF Steps
    <3>3. AreKept(v, kept, FALSE)
      BY <2>2, <2>5
    <3>4. CASE AddsProperty(v, w, token) /\ Reached(next, tokens, pos + 1)
      <4>1. token \in B /\ IsWhole(token) /\ (QuotesOf(token) % 2 = 1 => pos + 1 = n)
        <5>1. token \in B
          <6> HIDE DEF B
          <6>1. tokens \in Seq(B)
            BY DEF B
          <6> QED
            BY <3>2, <6>1, ElementOfSeq
        <5> QED
          BY <3>2, <5>1 DEF Proper
      <4> DEFINE more == Append(kept, token)
                 finished == pos + 1 = n
      <4>2. more \in Seq(B) /\ AreKept(w, more, finished)
        <5>1. finished \in BOOLEAN
          OBVIOUS
        <5> HIDE DEF token, finished, v, w
        <5>2. QuotesOf(token) % 2 = 1 => finished
          BY <4>1 DEF finished
        <5> QED
          BY <3>3, <3>4, <4>1, <5>1, <5>2, KeptWithProperty
      <4>3. StandsAt(next, tokens, pos + 1)
        BY <3>2, <3>4 DEF StandsAt
      <4> HIDE DEF more, token
      <4> QED
        BY <4>2, <4>3 DEF KeptSoFar
    <3>5. ASSUME NEW p, w.properties = v.properties, w.parsedProperties = v.parsedProperties,
                 Reached(next, tokens, p)
          PROVE  KeptSoFar(next, tokens)
      <4>1. AreKept(w, kept, p = n)
        BY <3>3, <3>5 DEF AreKept
      <4>2. StandsAt(next, tokens, p)
        BY <3>2, <3>5 DEF StandsAt
      <4> QED
        BY <4>1, <4>2 DEF KeptSoFar
    <3>6. CASE SetsLevel(v, w, token) /\ Reached(next, tokens, pos + 1)
      <4>1. w.properties = v.properties /\ w.parsedProperties = v.parsedProperties
        BY <3>6 DEF SetsLevel
      <4> QED
        BY <3>5, <3>6, <4>1
    <3>7. CASE SetsLog(v, w, token, tokens[pos + 2]) /\ Reached(next, tokens, pos + 2)
      <4>1. w.properties = v.properties /\ w.parsedProperties = v.parsedProperties
        BY <3>7 DEF SetsLog
      <4> QED
        BY <3>5, <3>7, <4>1
    <3> QED
      BY <3>1, <3>4, <3>6, <3>7 DEF Steps
  <2> QED
    BY <2>4, <2>5
<1> QED
  BY <1>1, <1>2

\* The tokens of any text, with the long options replaced.
LEMMA TokensAreProper ==
    ASSUME NEW args \in Seq(AnySign), NEW tokens,
           tokens = ReplaceLongOptions(TokenizeMsiArguments(args))
    PROVE  tokens \in Seq(Seq(AnySign)) /\ Proper(tokens)
<1> DEFINE cut == TokenizeMsiArguments(args)
           B == Seq(AnySign)
<1>1. cut \in Seq(B) /\ Covers(cut, args, 1)
  <2>1. PICK g : AreTokens(g, args) /\ cut = g[1]
    BY TokensUnfold
  <2>2. 1 \in 1..Len(args) + 1
    OBVIOUS
  <2> HIDE DEF cut
  <2> QED
    BY <2>1, <2>2, TokensCoverFrom
<1> HIDE DEF cut
<1>2. DOMAIN cut = 1..Len(cut)
  <2> HIDE DEF B
  <2> QED
    BY <1>1
<1>3. Proper(cut)
  BY <1>1, <1>2 DEF Covers, Proper
<1> QED
  BY <1>1, <1>3, ReplacedAreProper DEF cut

\* What is handed on is cut into the tokens that were looked through.
THEOREM EveryPropertySurvives ==
    ASSUME NEW args \in Seq(STRING)
    PROVE  SurvivesHandingOn(args)
<1> DEFINE B == Seq(AnySign)
           tokens == ReplaceLongOptions(TokenizeMsiArguments(args))
           n == Len(tokens)
           result == ParseMSIArguments(args)
           v == result.value
           found == TokenizeMsiArguments(v.properties)
<1>0. args \in Seq(AnySign)
  <2>1. STRING \subseteq AnySign
    BY DEF AnySign
  <2> QED
    BY <2>1, SeqMonotonic
<1>1. tokens \in Seq(B) /\ Proper(tokens)
  BY <1>0, TokensAreProper
<1> HIDE DEF tokens
<1>2. PICK after : AreRounds(after, At(tokens, Valid(NothingParsed)), n) /\ result = after[n].parsed
  BY <1>1, ParserUnfolds DEF tokens
<1>3. n \in Nat
  <2> HIDE DEF B
  <2> QED
    BY <1>1, LenProperties
<1> HIDE DEF result, n
<1> DEFINE good == {i \in 0..n : KeptSoFar(after[i], tokens)}
<1>4. ASSUME NEW i \in 0..n, \A j \in 0..i - 1 : j \in good PROVE i \in good
  <2>1. CASE i = 0
    <3>1. after[0] = At(tokens, Valid(NothingParsed))
      BY <1>2 DEF AreRounds
    <3> QED
      BY <1>1, <2>1, <3>1, KeptAtFirst
  <2>2. CASE i # 0
    <3>1. i \in 1..n /\ i - 1 \in 0..i - 1
      BY <1>3, <2>2
    <3>2. KeptSoFar(after[i - 1], tokens)
      BY <1>4, <3>1
    <3>3. after[i] = Onwards(after[i - 1])
      BY <1>2, <3>1 DEF AreRounds
    <3> QED
      BY <1>1, <3>2, <3>3, KeptByRounds
  <2> QED
    BY <2>1, <2>2
<1>5. KeptSoFar(after[n], tokens)
  <2>1. \A i \in 0..n : i \in good
    <3> HIDE DEF good
    <3> QED
      BY <1>3, <1>4, Forwards
  <2>2. n \in 0..n
    BY <1>3
  <2> QED
    BY <2>1, <2>2
<1> SUFFICES ASSUME result.ok
             PROVE  /\ Len(found) = Len(v.parsedProperties)
                    /\ \A i \in DOMAIN found :
                          /\ ParsePropertyToken(found[i]) = Valid(v.parsedProperties[i])
                          /\ found[i][1] \in BlockedNames /\ found[i][2] = "=" =>
                                GetFirstBlockedProperty(v) # <<>>
  BY Zenon DEF SurvivesHandingOn, result
<1>6. PICK kept \in Seq(B), finished \in BOOLEAN : AreKept(v, kept, finished)
  <2>1. Parsed(after[n]) /\ after[n].parsed.value = v
    BY <1>2 DEF Parsed
  <2>2. \E pos : \E kept \in Seq(B) : AreKept(v, kept, pos = Len(tokens))
    BY <1>5, <2>1 DEF KeptSoFar
  <2>3. \A pos : (pos = Len(tokens)) \in BOOLEAN
    OBVIOUS
  <2> HIDE DEF v, B
  <2> QED
    BY <2>2, <2>3
<1> DEFINE m == Len(kept)
<1>7. /\ v.properties = Spaced(kept)
      /\ v.parsedProperties = [i \in 1..m |-> ParsePropertyToken(kept[i]).value]
      /\ \A i \in 1..m : /\ IsWhole(kept[i]) /\ ParsePropertyToken(kept[i]).ok
                         /\ QuotesOf(kept[i]) % 2 = 1 => i = m
  BY <1>6 DEF AreKept
<1>8. m \in Nat /\ DOMAIN kept = 1..m /\ \A i \in 1..m : kept[i] \in B
  <2> HIDE DEF B
  <2> QED
    BY ElementOfSeq, LenProperties
<1>9. Separable(kept)
  <2> SUFFICES ASSUME NEW i \in 1..Len(kept)
               PROVE  Solid(kept[i]) /\ (i # Len(kept) => QuotesOf(kept[i]) % 2 = 0)
    BY DEF Separable
  <2>1. kept[i][1] # Quote
    BY <1>7, NamesStart
  <2>2. Solid(kept[i])
    BY <1>7, <2>1 DEF IsWhole, Solid
  <2>3. QuotesOf(kept[i]) \in Nat
    BY <1>8, QuotesAreCounted
  <2>4. QuotesOf(kept[i]) % 2 = 0 \/ QuotesOf(kept[i]) % 2 = 1
    <3> DEFINE q == QuotesOf(kept[i])
    <3>1. q \in Nat
      BY <2>3
    <3> HIDE DEF q
    <3>2. q % 2 = 0 \/ q % 2 = 1
      BY <3>1
    <3> QED
      BY <3>2 DEF q
  <2> QED
    BY <1>7, <2>2, <2>4
<1>10. found = kept
  <2>1. Space \in AnySign
    BY DEF AnySign
  <2> HIDE DEF v
  <2> QED
    BY <1>7, <1>9, <2>1, Retokenized
<1> DEFINE parsed == v.parsedProperties
<1>11. Len(parsed) = m /\ DOMAIN parsed = 1..m /\ \A i \in 1..m : parsed[i] = ParsePropertyToken(kept[i]).value
  <2>1. DOMAIN parsed = 1..m /\ \A i \in 1..m : parsed[i] = ParsePropertyToken(kept[i]).value
    BY <1>7
  <2> HIDE DEF parsed, m
  <2> QED
    BY <1>8, <2>1
<1>12. ASSUME NEW i \in 1..m
       PROVE  ParsePropertyToken(kept[i]) = Valid(parsed[i])
  <2> HIDE DEF parsed, m
  <2> QED
    BY <1>7, <1>11, NamesStart
<1>13. ASSUME NEW i \in 1..m, kept[i][1] \in BlockedNames, kept[i][2] = "="
       PROVE  GetFirstBlockedProperty(v) # <<>>
  <2> DEFINE names == [k \in DOMAIN v.parsedProperties |-> v.parsedProperties[k].name]
             blocked == {k \in DOMAIN names : Len(names[k]) = 1 /\ names[k][1] \in BlockedNames}
             first == kept[i][1]
  <2>1. parsed[i].name = <<first>>
    <3>1. kept[i] \in Seq(AnySign) /\ kept[i] # <<>>
      BY <1>7, <1>8 DEF IsWhole
    <3> HIDE DEF parsed, m
    <3> QED
      BY <1>7, <1>11, <1>13, <3>1, ShortNames
  <2>2. i \in DOMAIN names /\ names[i] = <<first>>
    BY <1>11, <2>1
  <2>3. i \in blocked
    <3> HIDE DEF names
    <3> QED
      BY <1>13, <2>2
  <2>4. GetFirstBlockedProperty(v) = IF blocked = {} THEN <<>> ELSE <<names[First(blocked)]>>
    BY Zenon DEF GetFirstBlockedProperty
  <2> HIDE DEF names, blocked
  <2> QED
    BY <2>3, <2>4
<1> HIDE DEF parsed, m
<1> QED
  BY <1>8, <1>10, <1>11, <1>12, <1>13 DEF parsed, m

-----------------------------------------------------------------------------
(* The places of options *)

\* The token behind a log option that is not the file of another one.
IsFileOf(tokens, isFile, i) == i > 1 /\ OptionIs(tokens[i - 1], "l") /\ ~isFile[i - 1]

\* There is such a choice of tokens: each depends on the one before it.
LEMMA FilesExist ==
    ASSUME NEW tokens, NEW n \in Nat
    PROVE  \E isFile : isFile = [i \in 1..n |-> IsFileOf(tokens, isFile, i)]
<1> DEFINE upTo(k) == \E g : \A i \in 1..k : g[i] = IsFileOf(tokens, g, i)
           good == {k \in 0..n : upTo(k)}
<1>0. \A g, h, i : g[i - 1] = h[i - 1] => IsFileOf(tokens, g, i) = IsFileOf(tokens, h, i)
  BY Zenon DEF IsFileOf
<1>1. \A g, h : IsFileOf(tokens, g, 1) = IsFileOf(tokens, h, 1)
  <2>1. \A g : IsFileOf(tokens, g, 1) = FALSE
    BY DEF IsFileOf
  <2> QED
    BY <2>1
<1>2. ASSUME NEW k \in 0..n, \A j \in 0..k - 1 : j \in good PROVE k \in good
  <2>1. CASE k = 0
    BY <2>1
  <2>2. CASE k # 0
    <3>1. k - 1 \in good
      <4> HIDE DEF good
      <4> QED
        BY <1>2, <2>2
    <3>2. PICK g : \A i \in 1..k - 1 : g[i] = IsFileOf(tokens, g, i)
      BY <3>1
    <3> DEFINE h == [i \in 1..n |-> IF i = k THEN IsFileOf(tokens, g, k) ELSE g[i]]
    <3>3. \A i \in 1..k : h[i] = IsFileOf(tokens, g, i)
      BY <3>2
    <3>4. \A i \in 1..k : IsFileOf(tokens, g, i) = IsFileOf(tokens, h, i)
      <4>1. ASSUME NEW i \in 1..k PROVE IsFileOf(tokens, g, i) = IsFileOf(tokens, h, i)
        <5>1. CASE i = 1
          BY <1>1, <5>1
        <5>2. CASE i # 1
          <6>1. i - 1 \in 1..n /\ i - 1 # k
            BY <5>2
          <6>2. h[i - 1] = g[i - 1]
            BY <6>1
          <6> HIDE DEF h
          <6> QED
            BY <1>0, <6>2, Zenon
        <5> QED
          BY <5>1, <5>2
      <4> QED
        BY <4>1
    <3>5. \A i \in 1..k : h[i] = IsFileOf(tokens, h, i)
      <4> HIDE DEF h
      <4> QED
        BY <3>3, <3>4
    <3> HIDE DEF h
    <3> QED
      BY <3>5
  <2> QED
    BY <2>1, <2>2
<1>3. n \in good
  <2>1. \A i \in 0..n : i \in good
    <3> HIDE DEF good
    <3> QED
      BY <1>2, Forwards
  <2>2. n \in 0..n
    OBVIOUS
  <2> QED
    BY <2>1, <2>2
<1>4. PICK g : \A i \in 1..n : g[i] = IsFileOf(tokens, g, i)
  BY <1>3
<1> DEFINE f == [i \in 1..n |-> g[i]]
<1>5. \A i \in 1..n : IsFileOf(tokens, f, i) = IsFileOf(tokens, g, i)
  <2>1. ASSUME NEW i \in 1..n PROVE IsFileOf(tokens, f, i) = IsFileOf(tokens, g, i)
    <3>1. CASE i = 1
      BY <1>1, <3>1
    <3>2. CASE i # 1
      <4>1. i - 1 \in 1..n
        BY <3>2
      <4>2. f[i - 1] = g[i - 1]
        BY <4>1
      <4> HIDE DEF f
      <4> QED
        BY <1>0, <4>2, Zenon
    <3> QED
      BY <3>1, <3>2
  <2> QED
    BY <2>1
<1>6. f = [i \in 1..n |-> IsFileOf(tokens, f, i)]
  <2>1. \A i \in 1..n : g[i] = IsFileOf(tokens, f, i)
    <3> HIDE DEF f
    <3> QED
      BY <1>4, <1>5
  <2> QED
    BY <2>1
<1> HIDE DEF f
<1> QED
  BY <1>6

\* The same as sets of places: of files, quiet options and properties.
AreFiles(tokens, files) ==
    /\ files \subseteq 1..Len(tokens)
    /\ \A i \in 1..Len(tokens) :
          i \in files <=> i > 1 /\ OptionIs(tokens[i - 1], "l") /\ i - 1 \notin files

QuietPlaces(tokens, files) == {i \in (1..Len(tokens)) \ files : OptionIs(tokens[i], "q")}
PropertyPlaces(tokens, files) == {i \in (1..Len(tokens)) \ files : ~IsSwitch(tokens[i])}

UpTo(places, pos) == {i \in places : i <= pos}
IsLatest(i, places) == i \in places /\ \A j \in places : j <= i
LatestOf(places) == CHOOSE i \in places : \A j \in places : j <= i

\* LatestOf is the latest of some places.
LEMMA LatestIs ==
    ASSUME NEW places, places \subseteq Nat, NEW i, IsLatest(i, places)
    PROVE  LatestOf(places) = i
<1>1. i \in places /\ \A j \in places : j <= i
  BY DEF IsLatest
<1>2. /\ LatestOf(places) \in places
      /\ \A j \in places : j <= LatestOf(places)
  BY <1>1, Zenon DEF LatestOf
<1> DEFINE l == LatestOf(places)
<1> HIDE DEF l
<1>3. l \in places /\ \A j \in places : j <= l
  BY <1>2 DEF l
<1>4. l <= i /\ i <= l /\ l \in Nat /\ i \in Nat
  BY <1>1, <1>3
<1>5. l = i
  BY <1>4
<1> QED
  BY <1>5 DEF l

\* One place more, which is among them or not.
AtNext(places, pos, next) ==
    /\ next \notin places => UpTo(places, next) = UpTo(places, pos)
    /\ next \in places =>
          /\ UpTo(places, next) # {} /\ IsLatest(next, UpTo(places, next))
          /\ Cardinality(UpTo(places, next)) = Cardinality(UpTo(places, pos)) + 1

\* That is so for places in a range, and they are all between its ends.
LEMMA UpToNext ==
    ASSUME NEW n \in Nat, NEW places, places \subseteq 1..n, NEW pos \in 0..n
    PROVE  /\ AtNext(places, pos, pos + 1)
           /\ Cardinality(UpTo(places, pos)) \in Nat
           /\ UpTo(places, 0) = {} /\ UpTo(places, n) = places
<1>0. \A i \in places : i \in Nat /\ i >= 1 /\ i <= n
  OBVIOUS
<1>1. \A i \in places : i <= pos + 1 <=> (i <= pos \/ i = pos + 1)
  BY <1>0
<1>2. IsFiniteSet(UpTo(places, pos))
  <2>1. IsFiniteSet(1..n)
    BY FS_Interval
  <2>2. UpTo(places, pos) \subseteq 1..n
    BY DEF UpTo
  <2> QED
    BY <2>1, <2>2, FS_Subset
<1>3. ASSUME pos + 1 \in places
      PROVE  /\ UpTo(places, pos + 1) # {} /\ IsLatest(pos + 1, UpTo(places, pos + 1))
             /\ Cardinality(UpTo(places, pos + 1)) = Cardinality(UpTo(places, pos)) + 1
  <2>1. UpTo(places, pos + 1) = UpTo(places, pos) \cup {pos + 1}
    BY <1>1, <1>3 DEF UpTo
  <2>2. pos + 1 \notin UpTo(places, pos)
    BY DEF UpTo
  <2>3. Cardinality(UpTo(places, pos) \cup {pos + 1}) = Cardinality(UpTo(places, pos)) + 1
    BY <1>2, <2>2, FS_AddElement
  <2>4. IsLatest(pos + 1, UpTo(places, pos + 1)) /\ pos + 1 \in UpTo(places, pos + 1)
    BY <1>0, <1>3 DEF IsLatest, UpTo
  <2> QED
    BY <2>1, <2>3, <2>4
<1>4. pos + 1 \notin places => UpTo(places, pos + 1) = UpTo(places, pos)
  BY <1>1 DEF UpTo
<1>5. UpTo(places, 0) = {} /\ UpTo(places, n) = places
  <2>1. \A i \in places : ~(i <= 0) /\ i <= n
    BY <1>0
  <2> QED
    BY <2>1, Zenon DEF UpTo
<1>6. Cardinality(UpTo(places, pos)) \in Nat
  BY <1>2, FS_CardinalityType
<1> QED
  BY <1>3, <1>4, <1>5, <1>6 DEF AtNext

\* A value is read or it is not.
LEMMA ValueOrNone ==
    ASSUME NEW token, ParseValue(token).ok
    PROVE  ParseValue(token) = Valid(ParseValue(token).value)
<1>1. \E x : ParseValue(token) = Valid(x) \/ ParseValue(token) = Invalid
  BY Zenon DEF ParseValue
<1>2. PICK x : ParseValue(token) = Valid(x) \/ ParseValue(token) = Invalid
  BY <1>1
<1> DEFINE r == ParseValue(token)
<1> HIDE DEF r
<1>3. (r = Valid(x) \/ r = Invalid) /\ r.ok
  BY <1>2 DEF r
<1>4. r = Valid(x)
  BY <1>3 DEF Invalid
<1>5. r.value = x
  BY <1>4 DEF Valid
<1> QED
  BY <1>4, <1>5 DEF r

\* What of the tokens up to a place has been parsed.
CountIs(v, n) == (\E V : v.parsedProperties \in Seq(V)) /\ Len(v.parsedProperties) = n

LogIs(v, tokens, files) ==
    /\ files = {} <=> v.logMode = {}
    /\ files # {} => \E i : IsLatest(i, files) /\ Valid(v.logFile) = ParseValue(tokens[i])

LevelIs(v, tokens, quiet) ==
    /\ quiet = {} => v.uiLevel = {}
    /\ quiet # {} => \E i : IsLatest(i, quiet) /\ v.uiLevel = LevelOf(ModifierOf(tokens[i]).value)

ArePlaced(v, tokens, files, pos) ==
    /\ \A i \in 1..pos : \/ i \in files \cup QuietPlaces(tokens, files) \cup PropertyPlaces(tokens, files)
                         \/ OptionIs(tokens[i], "l")
    /\ CountIs(v, Cardinality(UpTo(PropertyPlaces(tokens, files), pos)))
    /\ LogIs(v, tokens, UpTo(files, pos))
    /\ LevelIs(v, tokens, UpTo(QuietPlaces(tokens, files), pos))
    /\ pos + 1 \notin files

PlacedSoFar(at, tokens, files, round) ==
    Parsed(at) =>
        \E pos : /\ StandsAt(at, tokens, pos) /\ (pos = Len(tokens) \/ pos >= round)
                 /\ ArePlaced(at.parsed.value, tokens, files, pos)

\* Before the first round nothing has a place.
LEMMA PlacedAtFirst ==
    ASSUME NEW tokens \in Seq(Seq(AnySign)), NEW files, AreFiles(tokens, files)
    PROVE  PlacedSoFar(At(tokens, Valid(NothingParsed)), tokens, files, 0)
<1> DEFINE at == At(tokens, Valid(NothingParsed))
           v == at.parsed.value
           n == Len(tokens)
<1>1. v = NothingParsed /\ at.tokens = tokens
  BY DEF At, Valid
<1>2. /\ DOMAIN v = Fields /\ v.parsedProperties = <<>>
      /\ v.logMode = {} /\ v.uiLevel = {}
  BY <1>1 DEF NothingParsed, Fields
<1>3. SubSeq(tokens, 1, n) = tokens /\ 0 \in 0..n /\ 0 + 1 = 1 /\ n \in Nat
  <2>1. n \in Nat
    BY LenProperties
  <2> QED
    BY <2>1, SubSeqFull
<1> HIDE DEF v, at, n
<1>4. Parsed(at) => StandsAt(at, tokens, 0)
  BY <1>1, <1>2, <1>3 DEF StandsAt, Reached, v, n
<1>5. /\ UpTo(PropertyPlaces(tokens, files), 0) = {} /\ UpTo(files, 0) = {}
      /\ UpTo(QuietPlaces(tokens, files), 0) = {}
  <2>1. /\ PropertyPlaces(tokens, files) \subseteq 1..n /\ files \subseteq 1..n
        /\ QuietPlaces(tokens, files) \subseteq 1..n
    BY DEF PropertyPlaces, QuietPlaces, AreFiles, n
  <2> QED
    BY <1>3, <2>1, UpToNext
<1>6. CountIs(v, Cardinality({}))
  <2>1. <<>> \in Seq({}) /\ Len(<<>>) = 0
    OBVIOUS
  <2>2. Cardinality({}) = 0
    BY FS_EmptySet
  <2> QED
    BY <1>2, <2>1, <2>2 DEF CountIs
<1>7. LogIs(v, tokens, {}) /\ LevelIs(v, tokens, {})
  BY <1>2 DEF LogIs, LevelIs
<1>8. 0 + 1 \notin files
  <2>1. ~(1 > 1)
    OBVIOUS
  <2>2. 1 \in files => 1 \in 1..Len(tokens)
    BY DEF AreFiles
  <2> QED
    BY <1>3, <2>1, <2>2 DEF AreFiles
<1>9. \A i \in 1..0 : FALSE
  OBVIOUS
<1>10. ArePlaced(v, tokens, files, 0)
  BY <1>5, <1>6, <1>7, <1>8, <1>9 DEF ArePlaced
<1>11. 0 >= 0
  OBVIOUS
<1> QED
  BY <1>4, <1>10, <1>11 DEF PlacedSoFar, v, at

\* What the next token is among them, and whether the one behind it is a file.
LEMMA PlacesOfNext ==
    ASSUME NEW tokens \in Seq(Seq(AnySign)), NEW files, AreFiles(tokens, files),
           NEW pos \in 1..Len(tokens)
    PROVE  /\ pos \in QuietPlaces(tokens, files) <=> pos \notin files /\ OptionIs(tokens[pos], "q")
           /\ pos \in PropertyPlaces(tokens, files) <=> pos \notin files /\ ~IsSwitch(tokens[pos])
           /\ pos + 1 \in files <=> pos + 1 <= Len(tokens) /\ OptionIs(tokens[pos], "l") /\ pos \notin files
           /\ OptionIs(tokens[pos], "l") => IsSwitch(tokens[pos]) /\ ~OptionIs(tokens[pos], "q")
           /\ OptionIs(tokens[pos], "q") => IsSwitch(tokens[pos]) /\ ~OptionIs(tokens[pos], "l")
<1>0. Len(tokens) \in Nat /\ pos \in Nat /\ pos >= 1
  BY LenProperties
<1>1. pos + 1 \in 1..Len(tokens) <=> pos + 1 <= Len(tokens)
  BY <1>0
<1>2. pos + 1 > 1 /\ (pos + 1) - 1 = pos
  BY <1>0
<1>3. pos + 1 \in files => pos + 1 \in 1..Len(tokens)
  BY DEF AreFiles
<1>4. pos + 1 \in files <=> pos + 1 <= Len(tokens) /\ OptionIs(tokens[pos], "l") /\ pos \notin files
  BY <1>1, <1>2, <1>3 DEF AreFiles
<1>5. /\ OptionIs(tokens[pos], "l") => IsSwitch(tokens[pos]) /\ ~OptionIs(tokens[pos], "q")
      /\ OptionIs(tokens[pos], "q") => IsSwitch(tokens[pos]) /\ ~OptionIs(tokens[pos], "l")
  BY DEF OptionIs
<1> QED
  BY <1>4, <1>5 DEF QuietPlaces, PropertyPlaces

\* A property has a place,
LEMMA PropertyIsPlaced ==
    ASSUME NEW tokens \in Seq(Seq(AnySign)), NEW files, AreFiles(tokens, files),
           NEW pos \in 0..Len(tokens), pos + 1 \in 1..Len(tokens), NEW v, NEW w,
           ArePlaced(v, tokens, files, pos), AddsProperty(v, w, tokens[pos + 1])
    PROVE  ArePlaced(w, tokens, files, pos + 1)
<1> DEFINE n == Len(tokens)
           Q == QuietPlaces(tokens, files)
           P == PropertyPlaces(tokens, files)
           next == pos + 1
           token == tokens[next]
<1>0. n \in Nat /\ pos \in Nat /\ pos \in 0..n /\ next \in 1..n /\ next = pos + 1
  BY LenProperties
<1>1. P \subseteq 1..n /\ Q \subseteq 1..n /\ files \subseteq 1..n
  BY DEF PropertyPlaces, QuietPlaces, AreFiles
<1>2. ~IsSwitch(token) /\ Added(v, w, token)
  BY DEF AddsProperty
<1>3. next \notin files
  BY DEF ArePlaced
<1>a. AtNext(files, pos, next) /\ AtNext(P, pos, next) /\ AtNext(Q, pos, next)
  <2>1. pos \in 0..n /\ n \in Nat
    BY <1>0
  <2> HIDE DEF P, Q, n
  <2> QED
    BY <1>1, <2>1, UpToNext
<1> HIDE DEF P, Q, n, next, token
<1>4. next \in P /\ next \notin Q /\ next + 1 \notin files
  BY <1>0, <1>2, <1>3, PlacesOfNext DEF P, Q, n, token, OptionIs
<1>5. UpTo(files, next) = UpTo(files, pos) /\ UpTo(Q, next) = UpTo(Q, pos)
  BY <1>3, <1>4, <1>a DEF AtNext
<1>6. Cardinality(UpTo(P, next)) = Cardinality(UpTo(P, pos)) + 1
  BY <1>4, <1>a DEF AtNext
<1>7. \A i \in 1..next : i \in files \cup Q \cup P \/ OptionIs(tokens[i], "l")
  <2>1. \A i \in 1..next : i = next \/ i \in 1..pos
    BY <1>0
  <2> QED
    BY <1>4, <2>1 DEF ArePlaced, P, Q
<1>8. CountIs(w, Cardinality(UpTo(P, next)))
  <2> DEFINE c == Cardinality(UpTo(P, pos))
             s == v.parsedProperties
             x == ParsePropertyToken(token).value
  <2>1. (\E V : s \in Seq(V)) /\ Len(s) = c
    BY DEF ArePlaced, CountIs, P
  <2>2. w.parsedProperties = Append(s, x)
    BY <1>2 DEF Added
  <2> HIDE DEF c, s, x
  <2>3. PICK V : s \in Seq(V)
    BY <2>1
  <2>4. s \in Seq(V \cup {x}) /\ x \in V \cup {x}
    <3>1. V \subseteq V \cup {x}
      OBVIOUS
    <3> QED
      BY <2>3, <3>1, SeqMonotonic
  <2>5. Append(s, x) \in Seq(V \cup {x}) /\ Len(Append(s, x)) = Len(s) + 1
    BY <2>4, AppendProperties
  <2> QED
    BY <1>6, <2>1, <2>2, <2>5 DEF CountIs, c
<1>9. LogIs(w, tokens, UpTo(files, next)) /\ LevelIs(w, tokens, UpTo(Q, next))
  <2>1. LogIs(v, tokens, UpTo(files, next)) /\ LevelIs(v, tokens, UpTo(Q, next))
    BY <1>5 DEF ArePlaced, Q
  <2> QED
    BY <1>2, <2>1, Zenon DEF LogIs, LevelIs, Added
<1> QED
  BY <1>4, <1>7, <1>8, <1>9 DEF ArePlaced, P, Q, next

\* so has a quiet option,
LEMMA QuietIsPlaced ==
    ASSUME NEW tokens \in Seq(Seq(AnySign)), NEW files, AreFiles(tokens, files),
           NEW pos \in 0..Len(tokens), pos + 1 \in 1..Len(tokens), NEW v, NEW w,
           ArePlaced(v, tokens, files, pos), SetsLevel(v, w, tokens[pos + 1])
    PROVE  ArePlaced(w, tokens, files, pos + 1)
<1> DEFINE n == Len(tokens)
           Q == QuietPlaces(tokens, files)
           P == PropertyPlaces(tokens, files)
           next == pos + 1
           token == tokens[next]
<1>0. n \in Nat /\ pos \in Nat /\ pos \in 0..n /\ next \in 1..n /\ next = pos + 1
  BY LenProperties
<1>1. P \subseteq 1..n /\ Q \subseteq 1..n /\ files \subseteq 1..n
  BY DEF PropertyPlaces, QuietPlaces, AreFiles
<1>2. /\ OptionIs(token, "q") /\ w.parsedProperties = v.parsedProperties
      /\ w.logMode = v.logMode /\ w.logFile = v.logFile
      /\ w.uiLevel = LevelOf(ModifierOf(token).value)
  BY DEF SetsLevel
<1>3. next \notin files
  BY DEF ArePlaced
<1>a. AtNext(files, pos, next) /\ AtNext(P, pos, next) /\ AtNext(Q, pos, next)
  <2>1. pos \in 0..n /\ n \in Nat
    BY <1>0
  <2> HIDE DEF P, Q, n
  <2> QED
    BY <1>1, <2>1, UpToNext
<1> HIDE DEF P, Q, n, next
<1>4. next \notin P /\ next \in Q /\ next + 1 \notin files
  BY <1>0, <1>2, <1>3, PlacesOfNext DEF P, Q, n
<1>5. UpTo(files, next) = UpTo(files, pos) /\ UpTo(P, next) = UpTo(P, pos)
  BY <1>3, <1>4, <1>a DEF AtNext
<1>6. UpTo(Q, next) # {} /\ IsLatest(next, UpTo(Q, next))
  BY <1>4, <1>a DEF AtNext
<1>7. \A i \in 1..next : i \in files \cup Q \cup P \/ OptionIs(tokens[i], "l")
  <2>1. \A i \in 1..next : i = next \/ i \in 1..pos
    BY <1>0
  <2> QED
    BY <1>4, <2>1 DEF ArePlaced, P, Q
<1>8. CountIs(w, Cardinality(UpTo(P, next))) /\ LogIs(w, tokens, UpTo(files, next))
  <2>1. CountIs(v, Cardinality(UpTo(P, next))) /\ LogIs(v, tokens, UpTo(files, next))
    BY <1>5 DEF ArePlaced, P
  <2> QED
    BY <1>2, <2>1, Zenon DEF CountIs, LogIs
<1>9. LevelIs(w, tokens, UpTo(Q, next))
  BY <1>2, <1>6, Zenon DEF LevelIs, token
<1> QED
  BY <1>4, <1>7, <1>8, <1>9 DEF ArePlaced, P, Q, next

\* and so have a log option and its file.
LEMMA LogIsPlaced ==
    ASSUME NEW tokens \in Seq(Seq(AnySign)), NEW files, AreFiles(tokens, files),
           NEW pos \in 0..Len(tokens), pos + 1 \in 1..Len(tokens), pos + 2 \in 1..Len(tokens),
           NEW v, NEW w,
           ArePlaced(v, tokens, files, pos), SetsLog(v, w, tokens[pos + 1], tokens[pos + 2])
    PROVE  ArePlaced(w, tokens, files, pos + 2)
<1> DEFINE n == Len(tokens)
           Q == QuietPlaces(tokens, files)
           P == PropertyPlaces(tokens, files)
           next == pos + 1
           last == pos + 2
<1>0. /\ n \in Nat /\ pos \in Nat /\ pos \in 0..n /\ next \in 1..n /\ next \in 0..n /\ last \in 1..n
      /\ next = pos + 1 /\ last = next + 1 /\ last <= n
  BY LenProperties
<1>1. P \subseteq 1..n /\ Q \subseteq 1..n /\ files \subseteq 1..n
  BY DEF PropertyPlaces, QuietPlaces, AreFiles
<1>2. /\ OptionIs(tokens[next], "l") /\ ParseValue(tokens[last]).ok
      /\ w.parsedProperties = v.parsedProperties
      /\ w.logMode # {} /\ w.logFile = ParseValue(tokens[last]).value /\ w.uiLevel = v.uiLevel
  BY DEF SetsLog
<1>3. next \notin files
  BY DEF ArePlaced
<1>a. /\ AtNext(P, pos, next) /\ AtNext(Q, pos, next)
      /\ AtNext(files, next, next + 1) /\ AtNext(P, next, next + 1) /\ AtNext(Q, next, next + 1)
  <2>1. pos \in 0..n /\ n \in Nat /\ next \in 0..n
    BY <1>0
  <2>2. AtNext(P, pos, next) /\ AtNext(Q, pos, next)
    <3> HIDE DEF P, Q, n
    <3> QED
      BY <1>1, <2>1, UpToNext
  <2> HIDE DEF P, Q, n, next
  <2> QED
    BY <1>1, <2>1, <2>2, UpToNext
<1>b. AtNext(files, next, last) /\ AtNext(P, next, last) /\ AtNext(Q, next, last)
  <2> HIDE DEF P, Q, n, next, last
  <2> QED
    BY <1>0, <1>a
<1> HIDE DEF P, Q, n, next, last
<1>4. next \notin P /\ next \notin Q /\ last \in files
  BY <1>0, <1>2, <1>3, PlacesOfNext DEF P, Q, n
<1>5. last \notin P /\ last \notin Q /\ last + 1 \notin files
  BY <1>0, <1>4, PlacesOfNext DEF P, Q, n
<1>6. /\ UpTo(P, last) = UpTo(P, next) /\ UpTo(P, next) = UpTo(P, pos)
      /\ UpTo(Q, last) = UpTo(Q, next) /\ UpTo(Q, next) = UpTo(Q, pos)
  BY <1>4, <1>5, <1>a, <1>b DEF AtNext
<1>7. UpTo(files, last) # {} /\ IsLatest(last, UpTo(files, last))
  BY <1>4, <1>b DEF AtNext
<1>8. \A i \in 1..last : i \in files \cup Q \cup P \/ OptionIs(tokens[i], "l")
  <2>1. \A i \in 1..last : i = next \/ i = last \/ i \in 1..pos
    BY <1>0
  <2> QED
    BY <1>2, <1>4, <2>1 DEF ArePlaced, P, Q
<1>9. CountIs(w, Cardinality(UpTo(P, last))) /\ LevelIs(w, tokens, UpTo(Q, last))
  <2>1. CountIs(v, Cardinality(UpTo(P, last))) /\ LevelIs(v, tokens, UpTo(Q, last))
    BY <1>6 DEF ArePlaced, P, Q
  <2> QED
    BY <1>2, <2>1, Zenon DEF CountIs, LevelIs
<1>10. LogIs(w, tokens, UpTo(files, last))
  <2>1. Valid(w.logFile) = ParseValue(tokens[last])
    BY <1>2, ValueOrNone
  <2> QED
    BY <1>2, <1>7, <2>1, Zenon DEF LogIs
<1> QED
  BY <1>5, <1>8, <1>9, <1>10 DEF ArePlaced, P, Q, last

\* So every round keeps the places, and gets further.
LEMMA PlacedByRounds ==
    ASSUME NEW tokens \in Seq(Seq(AnySign)), NoneIsEmpty(tokens), NEW files, AreFiles(tokens, files),
           NEW round \in Nat, NEW at, PlacedSoFar(at, tokens, files, round)
    PROVE  PlacedSoFar(Onwards(at), tokens, files, round + 1)
<1> DEFINE next == Onwards(at)
           n == Len(tokens)
           v == at.parsed.value
           w == next.parsed.value
<1> SUFFICES ASSUME Parsed(next) PROVE PlacedSoFar(next, tokens, files, round + 1)
  BY DEF PlacedSoFar
<1>1. CASE ~Parsed(at)
  BY <1>1 DEF Onwards, Parsed
<1>2. CASE Parsed(at)
  <2>1. PICK pos : /\ StandsAt(at, tokens, pos) /\ (pos = n \/ pos >= round)
                   /\ ArePlaced(v, tokens, files, pos)
    BY <1>2 DEF PlacedSoFar
  <2>2. n \in Nat /\ pos \in 0..n /\ at.tokens = SubSeq(tokens, pos + 1, n)
    <3>1. n \in Nat
      BY LenProperties
    <3> QED
      BY <2>1, <3>1 DEF StandsAt, Reached
  <2>3. CASE pos = n
    <3>1. at.tokens = <<>>
      <4>1. pos + 1 > n
        BY <2>2, <2>3
      <4> QED
        BY <2>2, <4>1, SubSeqEmpty
    <3>2. next = at
      BY <3>1 DEF Onwards
    <3> HIDE DEF next
    <3> QED
      BY <2>1, <2>3, <3>2 DEF PlacedSoFar
  <2>4. CASE pos # n
    <3>1. Steps(at, next, tokens, pos)
      BY <2>1, <2>4, RoundGoesOn
    <3> DEFINE token == tokens[pos + 1]
    <3>2. DOMAIN w = Fields /\ pos + 1 \in 1..n
      BY <3>1 DEF Steps
    <3>3. pos + 1 >= round + 1 /\ pos + 2 >= round + 1
      BY <2>1, <2>2, <2>4
    <3> HIDE DEF next, v, w, token
    <3>4. CASE AddsProperty(v, w, token) /\ Reached(next, tokens, pos + 1)
      <4>1. ArePlaced(w, tokens, files, pos + 1)
        BY <2>1, <2>2, <3>2, <3>4, PropertyIsPlaced DEF token
      <4>2. StandsAt(next, tokens, pos + 1)
        BY <3>2, <3>4 DEF StandsAt, w
      <4> QED
        BY <3>3, <4>1, <4>2 DEF PlacedSoFar, w
    <3>5. CASE SetsLevel(v, w, token) /\ Reached(next, tokens, pos + 1)
      <4>1. ArePlaced(w, tokens, files, pos + 1)
        BY <2>1, <2>2, <3>2, <3>5, QuietIsPlaced DEF token
      <4>2. StandsAt(next, tokens, pos + 1)
        BY <3>2, <3>5 DEF StandsAt, w
      <4> QED
        BY <3>3, <4>1, <4>2 DEF PlacedSoFar, w
    <3>6. CASE /\ pos + 2 \in 1..n
               /\ SetsLog(v, w, token, tokens[pos + 2]) /\ Reached(next, tokens, pos + 2)
      <4>1. ArePlaced(w, tokens, files, pos + 2)
        BY <2>1, <2>2, <3>2, <3>6, LogIsPlaced DEF token
      <4>2. StandsAt(next, tokens, pos + 2)
        BY <3>2, <3>6 DEF StandsAt, w
      <4> QED
        BY <3>3, <4>1, <4>2 DEF PlacedSoFar, w
    <3> QED
      BY <3>1, <3>4, <3>5, <3>6 DEF Steps, token, v, w
  <2> QED
    BY <2>3, <2>4
<1> QED
  BY <1>1, <1>2

\* The sets by which OptionsHaveTheirPlace is stated are those of the places.
LEMMA PlacesAre ==
    ASSUME NEW tokens \in Seq(Seq(AnySign)), NEW files, AreFiles(tokens, files), NEW v,
           ArePlaced(v, tokens, files, Len(tokens))
    PROVE  /\ \A i \in 1..Len(tokens) :
                 \/ i \in files \cup QuietPlaces(tokens, files) \cup PropertyPlaces(tokens, files)
                 \/ OptionIs(tokens[i], "l")
           /\ Len(v.parsedProperties) = Cardinality(PropertyPlaces(tokens, files))
           /\ files = {} <=> v.logMode = {}
           /\ files # {} => Valid(v.logFile) = ParseValue(tokens[LatestOf(files)])
           /\ v.uiLevel = IF QuietPlaces(tokens, files) = {} THEN {}
                          ELSE LevelOf(ModifierOf(tokens[LatestOf(QuietPlaces(tokens, files))]).value)
<1> DEFINE n == Len(tokens)
           Q == QuietPlaces(tokens, files)
           P == PropertyPlaces(tokens, files)
<1>0. n \in Nat /\ n \in 0..n
  <2>1. n \in Nat
    BY LenProperties
  <2> QED
    BY <2>1
<1>1. P \subseteq 1..n /\ Q \subseteq 1..n /\ files \subseteq 1..n
  BY DEF PropertyPlaces, QuietPlaces, AreFiles
<1>2. P \subseteq Nat /\ Q \subseteq Nat /\ files \subseteq Nat
  <2> HIDE DEF P, Q, n
  <2> QED
    BY <1>0, <1>1
<1>3. UpTo(P, n) = P /\ UpTo(Q, n) = Q /\ UpTo(files, n) = files
  <2> HIDE DEF P, Q, n
  <2> QED
    BY <1>0, <1>1, UpToNext
<1>4. /\ \A i \in 1..n : i \in files \cup Q \cup P \/ OptionIs(tokens[i], "l")
      /\ CountIs(v, Cardinality(P)) /\ LogIs(v, tokens, files) /\ LevelIs(v, tokens, Q)
  BY <1>3, Zenon DEF ArePlaced
<1> HIDE DEF P, Q, n
<1>5. Len(v.parsedProperties) = Cardinality(P)
  BY <1>4, Zenon DEF CountIs
<1>6. files # {} => Valid(v.logFile) = ParseValue(tokens[LatestOf(files)])
  <2>1. ASSUME files # {}
        PROVE  \E i : IsLatest(i, files) /\ Valid(v.logFile) = ParseValue(tokens[i])
    BY <1>4, <2>1, Zenon DEF LogIs
  <2> QED
    BY <1>2, <2>1, LatestIs
<1>7. v.uiLevel = IF Q = {} THEN {} ELSE LevelOf(ModifierOf(tokens[LatestOf(Q)]).value)
  <2>1. ASSUME Q # {}
        PROVE  \E i : IsLatest(i, Q) /\ v.uiLevel = LevelOf(ModifierOf(tokens[i]).value)
    BY <1>4, <2>1, Zenon DEF LevelIs
  <2>2. Q # {} => v.uiLevel = LevelOf(ModifierOf(tokens[LatestOf(Q)]).value)
    BY <1>2, <2>1, LatestIs
  <2>3. Q = {} => v.uiLevel = {}
    BY <1>4, Zenon DEF LevelIs
  <2> QED
    BY <2>2, <2>3
<1>8. files = {} <=> v.logMode = {}
  BY <1>4, Zenon DEF LogIs
<1> QED
  BY <1>4, <1>5, <1>6, <1>7, <1>8 DEF P, Q, n

\* Once the loop is through, every token has a place.
LEMMA AllArePlaced ==
    ASSUME NEW tokens \in Seq(Seq(AnySign)), NoneIsEmpty(tokens), NEW files, AreFiles(tokens, files),
           NEW after, AreRounds(after, At(tokens, Valid(NothingParsed)), Len(tokens)),
           Parsed(after[Len(tokens)])
    PROVE  ArePlaced(after[Len(tokens)].parsed.value, tokens, files, Len(tokens))
<1> DEFINE n == Len(tokens)
           good == {i \in 0..n : PlacedSoFar(after[i], tokens, files, i)}
<1>0. n \in Nat
  BY LenProperties
<1>1. ASSUME NEW i \in 0..n, \A j \in 0..i - 1 : j \in good PROVE i \in good
  <2>1. CASE i = 0
    <3>1. PlacedSoFar(after[0], tokens, files, 0)
      BY PlacedAtFirst DEF AreRounds
    <3> QED
      BY <2>1, <3>1
  <2>2. CASE i # 0
    <3>1. i - 1 \in good /\ i \in 1..n /\ i - 1 \in Nat /\ (i - 1) + 1 = i
      <4> HIDE DEF good
      <4> QED
        BY <1>0, <1>1, <2>2
    <3>2. PlacedSoFar(after[i - 1], tokens, files, i - 1)
      BY <3>1
    <3>3. after[i] = Onwards(after[i - 1])
      BY <3>1 DEF AreRounds
    <3> DEFINE before == i - 1
    <3>4. PlacedSoFar(Onwards(after[before]), tokens, files, before + 1)
      <4>1. before \in Nat /\ PlacedSoFar(after[before], tokens, files, before)
        BY <3>1, <3>2
      <4> HIDE DEF before, n
      <4> QED
        BY <4>1, PlacedByRounds
    <3> QED
      BY <3>1, <3>3, <3>4
  <2> QED
    BY <2>1, <2>2
<1>2. PlacedSoFar(after[n], tokens, files, n)
  <2>1. \A i \in 0..n : i \in good
    <3> HIDE DEF good
    <3> QED
      BY <1>0, <1>1, Forwards
  <2>2. n \in 0..n
    BY <1>0
  <2> QED
    BY <2>1, <2>2
<1>3. PICK pos : /\ StandsAt(after[n], tokens, pos) /\ (pos = n \/ pos >= n)
                 /\ ArePlaced(after[n].parsed.value, tokens, files, pos)
  BY <1>2 DEF PlacedSoFar
<1>4. pos = n
  <2>1. pos \in 0..n
    BY <1>3 DEF StandsAt, Reached
  <2> HIDE DEF n
  <2> QED
    BY <1>0, <1>3, <2>1
<1> QED
  BY <1>3, <1>4

\* A token of any arguments has the place that the options say: the token behind
\* a log option is its file, and the last option of its kind counts.
THEOREM EveryPlaceDecides ==
    ASSUME NEW args \in Seq(STRING)
    PROVE  PlaceDecides(args)
<1> DEFINE tokens == ReplaceLongOptions(TokenizeMsiArguments(args))
           result == ParseMSIArguments(args)
           v == result.value
           n == Len(tokens)
           isFile[i \in DOMAIN tokens] == i > 1 /\ OptionIs(tokens[i - 1], "l") /\ ~isFile[i - 1]
           files == {i \in DOMAIN tokens : isFile[i]}
           Q == {i \in DOMAIN tokens \ files : OptionIs(tokens[i], "q")}
           P == {i \in DOMAIN tokens \ files : ~IsSwitch(tokens[i])}
<1>1. args \in Seq(AnySign)
  <2>1. STRING \subseteq AnySign
    BY DEF AnySign
  <2> QED
    BY <2>1, SeqMonotonic
<1>2. tokens \in Seq(Seq(AnySign)) /\ NoneIsEmpty(tokens)
  BY <1>1, TokensAreProper, ProperIsNotEmpty
<1> SUFFICES ASSUME result.ok
             PROVE  /\ \A i \in DOMAIN tokens : i \in files \cup Q \cup P \/ OptionIs(tokens[i], "l")
                    /\ Len(v.parsedProperties) = Cardinality(P)
                    /\ files = {} <=> v.logMode = {}
                    /\ files # {} => Valid(v.logFile) = ParseValue(tokens[LatestOf(files)])
                    /\ v.uiLevel = IF Q = {} THEN {}
                                   ELSE LevelOf(ModifierOf(tokens[LatestOf(Q)]).value)
  BY Zenon DEF PlaceDecides, OptionIs, LatestOf, LevelOf, ModifierOf
<1> HIDE DEF tokens
<1>3. PICK after : AreRounds(after, At(tokens, Valid(NothingParsed)), n) /\ result = after[n].parsed
  BY <1>2, ParserUnfolds DEF tokens
<1>4. n \in Nat /\ DOMAIN tokens = 1..n
  BY <1>2, LenProperties
<1> HIDE DEF result, n
<1>5. isFile = [i \in 1..n |-> IsFileOf(tokens, isFile, i)]
  <2>1. PICK g : g = [i \in 1..n |-> IsFileOf(tokens, g, i)]
    BY <1>4, FilesExist
  <2>2. \E h : h = [i \in DOMAIN tokens |-> i > 1 /\ OptionIs(tokens[i - 1], "l") /\ ~h[i - 1]]
    BY <1>4, <2>1, Zenon DEF IsFileOf
  <2>3. isFile = [i \in DOMAIN tokens |-> i > 1 /\ OptionIs(tokens[i - 1], "l") /\ ~isFile[i - 1]]
    BY <2>2, Zenon
  <2> HIDE DEF isFile
  <2> QED
    BY <1>4, <2>3, Zenon DEF IsFileOf
<1> HIDE DEF isFile
<1>6. AreFiles(tokens, files)
  <2>1. ASSUME NEW i \in 1..n
        PROVE  i \in files <=> i > 1 /\ OptionIs(tokens[i - 1], "l") /\ i - 1 \notin files
    <3>1. i \in files <=> isFile[i]
      BY <1>4
    <3>2. isFile[i] = IsFileOf(tokens, isFile, i)
      BY <1>5, Zenon
    <3>3. i > 1 => i - 1 \in 1..n
      BY <1>4
    <3>4. i > 1 => (i - 1 \in files <=> isFile[i - 1])
      BY <1>4, <3>3
    <3> HIDE DEF files
    <3> QED
      BY <3>1, <3>2, <3>4, Zenon DEF IsFileOf
  <2>2. files \subseteq 1..n
    BY <1>4
  <2> HIDE DEF files
  <2> QED
    BY <2>1, <2>2 DEF AreFiles, n
<1>7. Q = QuietPlaces(tokens, files) /\ P = PropertyPlaces(tokens, files)
  <2> HIDE DEF files
  <2> QED
    BY <1>4 DEF QuietPlaces, PropertyPlaces, n
<1> HIDE DEF files, Q, P
<1>8. ArePlaced(v, tokens, files, n)
  <2>1. Parsed(after[n])
    BY <1>3 DEF Parsed
  <2> QED
    BY <1>2, <1>3, <1>6, <2>1, AllArePlaced DEF n
<1> HIDE DEF v
<1> QED
  BY <1>2, <1>4, <1>6, <1>7, <1>8, PlacesAre DEF n

-----------------------------------------------------------------------------
(* Every state *)

\* A text grows by signs of its kind.
TextsInv == subject \in Kinds /\ text.content \in Seq(Signs(subject))

\* So it is in every state.
LEMMA TextsInvHolds == TextsSpec => []TextsInv
<1>1. TextsInit => TextsInv
  BY DEF TextsInit, TextsInv
<1>2. TextsInv /\ [Grow]_texts => TextsInv'
  <2> SUFFICES ASSUME TextsInv, [Grow]_texts PROVE TextsInv'
    OBVIOUS
  <2>1. CASE Grow
    <3>1. PICK piece \in Pieces[subject] :
              text' = [size |-> text.size + 1, content |-> text.content \o piece]
      BY <2>1 DEF Grow
    <3>2. subject \in Kinds /\ subject' = subject
      BY <2>1 DEF Grow
    <3>3. piece \in Seq(Signs(subject))
      BY <3>1, <3>2, PiecesAssumption
    <3>4. text.content \o piece \in Seq(Signs(subject))
      BY <3>3 DEF TextsInv
    <3>5. text'.content = text.content \o piece
      BY <3>1
    <3> QED
      BY <3>2, <3>4, <3>5 DEF TextsInv
  <2>2. CASE UNCHANGED texts
    BY <2>2 DEF TextsInv, texts
  <2> QED
    BY <2>1, <2>2
<1> QED
  BY <1>1, <1>2, PTL DEF TextsSpec

\* The tokens of any arguments are all of them, each whole.
THEOREM InputCovered == TextsSpec => []TokensCoverInput
<1>1. TextsInv => TokensCoverInput
  BY EveryTextIsCovered DEF TextsInv, TokensCoverInput
<1> QED
  BY <1>1, TextsInvHolds, PTL

\* Of any arguments the tokens that are taken for properties are those of the grammar.
THEOREM GrammarFollowed == TextsSpec => []PropertiesFollowGrammar
<1>1. TextsInv => PropertiesFollowGrammar
  BY EveryTokenFollowsGrammar DEF TextsInv, PropertiesFollowGrammar
<1> QED
  BY <1>1, TextsInvHolds, PTL

\* Any value that has a quoted form is one token in it, and is read back.
THEOREM QuotesReadBack == TextsSpec => []QuotingRoundTrips
<1>1. TextsInv => QuotingRoundTrips
  BY EveryValueReadsBack DEF TextsInv, QuotingRoundTrips
<1> QED
  BY <1>1, TextsInvHolds, PTL

\* Any wide string survives the way to UTF-8 and back.
THEOREM Utf8ConvertsBack == TextsSpec => []Utf8RoundTrips
<1>1. TextsInv => Utf8RoundTrips
  BY EveryTextConvertsBack DEF TextsInv, Utf8RoundTrips, Signs
<1> QED
  BY <1>1, TextsInvHolds, PTL

\* Of any arguments the properties handed on to msiexec are those that were looked through.
THEOREM PropertiesKept == TextsSpec => []PropertiesSurvive
<1>1. TextsInv => PropertiesSurvive
  BY EveryPropertySurvives DEF TextsInv, PropertiesSurvive, Signs
<1> QED
  BY <1>1, TextsInvHolds, PTL

\* Of any arguments every token has the place that the options in front of it give it.
THEOREM PlacesDecide == TextsSpec => []OptionsHaveTheirPlace
<1>1. TextsInv => OptionsHaveTheirPlace
  BY EveryPlaceDecides DEF TextsInv, OptionsHaveTheirPlace, Signs
<1> QED
  BY <1>1, TextsInvHolds, PTL
===============================================================================
