----------------------------- MODULE Utf8_proofs -----------------------------
(***************************************************************************)
(* Proofs about Utf8, and what they need of sequences in general.          *)
(*                                                                         *)
(* The argument: the bytes of a unit stand together in the narrow string   *)
(* (Flattened), the first of them tells how many follow, and their bits    *)
(* are the unit's (CodeOfBytes); so what is read from the place of a unit  *)
(* on is the unit and what is read from the place of the next (DecodedFrom).*)
(*                                                                         *)
(* An induction over places is one over the places where a statement       *)
(* fails: there would be a first one (Forwards) or a last one (Backwards). *)
(* That a recursive function exists is proved before it is unfolded        *)
(* (CutsExist, JoinsExist).                                                *)
(***************************************************************************)
EXTENDS Utf8, SequenceTheorems, NaturalsInduction, WellFoundedInduction, TLAPS

-----------------------------------------------------------------------------
(* Sequences *)

\* Of some natural numbers one is the smallest.
LEMMA SmallestExists ==
    ASSUME NEW T, T \subseteq Nat, T # {}
    PROVE  \E x \in T : \A y \in T : x <= y
<1> DEFINE Less == OpToRel(<, Nat)
<1>1. \A x, y \in Nat : y < x => <<y, x>> \in Less
  BY DEF OpToRel
<1>2. IsWellFoundedOn(Less, Nat)
  BY NatLessThanWellFounded
<1> HIDE DEF Less
<1>3. PICK x \in T : \A y \in T : <<y, x>> \notin Less
  BY <1>2, WFMin
<1>4. ASSUME NEW y \in T PROVE x <= y
  <2>1. x \in Nat /\ y \in Nat
    OBVIOUS
  <2>2. ~(y < x)
    BY <1>1, <1>3, <2>1
  <2> QED
    BY <2>1, <2>2
<1> QED
  BY <1>4

\* Nothing fails when nothing fails first: induction without a predicate as parameter.
LEMMA Forwards ==
    ASSUME NEW n \in Nat, NEW good,
           \A i \in 0..n : (\A j \in 0..i - 1 : j \in good) => i \in good
    PROVE  \A i \in 0..n : i \in good
<1> DEFINE bad == {i \in 0..n : i \notin good}
<1> SUFFICES ASSUME bad # {} PROVE FALSE
  OBVIOUS
<1>1. bad \subseteq Nat
  OBVIOUS
<1>2. PICK i \in bad : \A j \in bad : i <= j
  <2> HIDE DEF bad
  <2> QED
    BY <1>1, SmallestExists
<1>3. \A j \in 0..i - 1 : j \in good
  BY <1>2
<1> QED
  BY <1>2, <1>3

\* The same from the end of a text.
LEMMA Backwards ==
    ASSUME NEW n \in Nat, NEW good,
           \A i \in 1..n : (\A j \in i + 1..n : j \in good) => i \in good
    PROVE  \A i \in 1..n : i \in good
<1> DEFINE mirror == {k \in 0..n : k = n \/ n - k \in good}
<1>1. ASSUME NEW k \in 0..n, \A j \in 0..k - 1 : j \in mirror PROVE k \in mirror
  <2>1. CASE k = n
    BY <2>1
  <2>2. CASE k # n
    <3>1. n - k \in 1..n
      BY <2>2
    <3>2. ASSUME NEW j \in n - k + 1..n PROVE j \in good
      <4>1. n - j \in 0..k - 1 /\ n - j # n /\ n - (n - j) = j
        BY <3>1
      <4> QED
        BY <1>1, <4>1
    <3> QED
      BY <3>1, <3>2
  <2> QED
    BY <2>1, <2>2
<1>2. \A k \in 0..n : k \in mirror
  <2> HIDE DEF mirror
  <2> QED
    BY <1>1, Forwards
<1>3. ASSUME NEW i \in 1..n PROVE i \in good
  <2>1. n - i \in 0..n /\ n - i # n /\ n - (n - i) = i
    OBVIOUS
  <2> QED
    BY <1>2, <2>1
<1> QED
  BY <1>3

\* A text that is cut from the left: each cut ends behind its start.
Onward(m, stop, next) == \A i \in 1..m : i \notin stop => next[i] \in i + 1..m

IsCut(g, m, stop, head, next) ==
    g = [i \in 1..m |-> IF i \in stop THEN <<>> ELSE head[i] \o g[next[i]]]

\* There are such cuts: what a function cuts off a text from each place on.
LEMMA CutsExist ==
    ASSUME NEW m \in Nat, NEW stop, NEW head, NEW next, Onward(m, stop, next)
    PROVE  \E g : IsCut(g, m, stop, head, next)
<1> DEFINE body(g, i) == IF i \in stop THEN <<>> ELSE head[i] \o g[next[i]]
           behind(k) == \E g : \A i \in k..m : g[i] = body(g, i)
           good == {k \in 1..m : behind(k)}
<1>1. ASSUME NEW k \in 1..m, \A j \in k + 1..m : j \in good PROVE k \in good
  <2>1. PICK g : \A i \in k + 1..m : g[i] = body(g, i)
    <3>1. CASE k = m
      BY <3>1
    <3>2. CASE k # m
      <4>1. k + 1 \in good
        <5> HIDE DEF good
        <5> QED
          BY <1>1, <3>2
      <4> HIDE DEF body
      <4> QED
        BY <4>1
    <3> QED
      BY <3>1, <3>2
  <2> DEFINE h == [i \in 1..m |-> IF i = k THEN body(g, k) ELSE g[i]]
  <2>2. ASSUME NEW i \in k..m PROVE h[i] = body(g, i)
    BY <2>1
  <2>3. ASSUME NEW i \in k..m PROVE body(g, i) = body(h, i)
    <3>1. CASE i \in stop
      BY <3>1
    <3>2. CASE i \notin stop
      <4>1. next[i] \in i + 1..m
        BY <3>2 DEF Onward
      <4>2. h[next[i]] = g[next[i]]
        BY <4>1
      <4> HIDE DEF h
      <4> QED
        BY <3>2, <4>2
    <3> QED
      BY <3>1, <3>2
  <2>4. \A i \in k..m : h[i] = body(h, i)
    <3> HIDE DEF h, body
    <3> QED
      BY <2>2, <2>3
  <2> HIDE DEF h, body
  <2> QED
    BY <2>4
<1>2. \A k \in 1..m : k \in good
  <2> HIDE DEF good
  <2> QED
    BY <1>1, Backwards
<1>3. PICK g : \A i \in 1..m : g[i] = body(g, i)
  <2>1. CASE m = 0
    BY <2>1
  <2>2. CASE m # 0
    <3>1. 1 \in good
      <4> HIDE DEF good
      <4> QED
        BY <1>2, <2>2
    <3> HIDE DEF body
    <3> QED
      BY <3>1
  <2> QED
    BY <2>1, <2>2
<1> DEFINE f == [i \in 1..m |-> g[i]]
<1>4. ASSUME NEW i \in 1..m PROVE body(f, i) = body(g, i)
  <2>1. CASE i \notin stop
    <3>1. next[i] \in 1..m
      BY <2>1 DEF Onward
    <3>2. f[next[i]] = g[next[i]]
      BY <3>1
    <3> HIDE DEF f
    <3> QED
      BY <3>2
  <2> QED
    BY <2>1
<1>5. f = [i \in 1..m |-> body(f, i)]
  <2> HIDE DEF body
  <2> QED
    BY <1>3, <1>4
<1> HIDE DEF f
<1> QED
  BY <1>5 DEF IsCut

\* A text that is put together from the left.
LEMMA JoinsExist ==
    ASSUME NEW n \in Nat, NEW s
    PROVE  \E g : g = [i \in 1..n |-> IF i = 1 THEN s[i] ELSE g[i - 1] \o s[i]]
<1> DEFINE body(g, i) == IF i = 1 THEN s[i] ELSE g[i - 1] \o s[i]
           upTo(k) == \E g : \A i \in 1..k : g[i] = body(g, i)
           good == {k \in 0..n : upTo(k)}
<1>1. ASSUME NEW k \in 0..n, \A j \in 0..k - 1 : j \in good PROVE k \in good
  <2>1. CASE k = 0
    BY <2>1
  <2>2. CASE k # 0
    <3>1. k - 1 \in good
      <4> HIDE DEF good
      <4> QED
        BY <1>1, <2>2
    <3>2. PICK g : \A i \in 1..k - 1 : g[i] = body(g, i)
      <4> HIDE DEF body
      <4> QED
        BY <3>1
    <3> DEFINE h == [i \in 1..n |-> IF i = k THEN body(g, k) ELSE g[i]]
    <3>3. \A i \in 1..k : h[i] = body(g, i)
      BY <3>2
    <3>4. \A i \in 1..k : body(g, i) = body(h, i)
      BY <3>2
    <3>5. \A i \in 1..k : h[i] = body(h, i)
      <4> HIDE DEF h, body
      <4> QED
        BY <3>3, <3>4
    <3> HIDE DEF h, body
    <3> QED
      BY <3>5
  <2> QED
    BY <2>1, <2>2
<1>2. n \in good
  <2> HIDE DEF good
  <2> QED
    BY <1>1, Forwards
<1>3. PICK g : \A i \in 1..n : g[i] = body(g, i)
  <2> HIDE DEF body
  <2> QED
    BY <1>2
<1> DEFINE f == [i \in 1..n |-> g[i]]
<1>4. \A i \in 1..n : body(f, i) = body(g, i)
  OBVIOUS
<1>5. f = [i \in 1..n |-> body(f, i)]
  <2> HIDE DEF body
  <2> QED
    BY <1>3, <1>4
<1> HIDE DEF f
<1> QED
  BY <1>5

\* Where the blocks of a text begin: behind all before them.
Offsets(seqs, off) ==
    /\ off \in [0..Len(seqs) -> Nat] /\ off[0] = 0
    /\ \A i \in 1..Len(seqs) : off[i] = off[i - 1] + Len(seqs[i])

\* Concatenation, by what it does to sequences only.
Then(a, b) == a \o b

\* Both sequences are in it, the second behind the first.
LEMMA ThenIs ==
    ASSUME NEW S, NEW a \in Seq(S), NEW b \in Seq(S)
    PROVE  Then(a, b) \in Seq(S) /\ Len(Then(a, b)) = Len(a) + Len(b)
BY DEF Then

\* Places of the first.
LEMMA ThenFirst ==
    ASSUME NEW S, NEW a \in Seq(S), NEW b \in Seq(S), NEW k \in 1..Len(a)
    PROVE  Then(a, b)[k] = a[k]
<1>1. k <= Len(a) /\ k \in 1..Len(a) + Len(b)
  <2>1. Len(a) \in Nat /\ Len(b) \in Nat
    OBVIOUS
  <2> QED
    BY <2>1
<1> QED
  BY <1>1, ConcatProperties DEF Then

\* Places of the second.
LEMMA ThenSecond ==
    ASSUME NEW S, NEW a \in Seq(S), NEW b \in Seq(S),
           NEW m \in Len(a) + 1..Len(a) + Len(b)
    PROVE  Then(a, b)[m] = b[m - Len(a)]
<1>1. Len(a) \in Nat /\ Len(b) \in Nat
  OBVIOUS
<1>2. ~(m <= Len(a)) /\ m \in 1..Len(a) + Len(b)
  BY <1>1
<1> QED
  BY <1>2, ConcatProperties DEF Then

\* A text is put together of these parts, one after the other.
Joins(g, s) == \A i \in 1..Len(s) : g[i] = IF i = 1 THEN s[i] ELSE Then(g[i - 1], s[i])

\* A text holds a block behind a place, and blocks behind these places.
Behind(t, place, block) == \A k \in 1..Len(block) : t[place + k] = block[k]

Placed(t, s, n, off) == Len(t) = off[n] /\ \A j \in 1..n : Behind(t, off[j - 1], s[j])

\* Each block of a text that is put together stands behind those before it.
LEMMA Joined ==
    ASSUME NEW S, NEW s \in Seq(Seq(S)), NEW g, Joins(g, s)
    PROVE  /\ \A i \in 1..Len(s) : g[i] \in Seq(S)
           /\ \E off : Offsets(s, off) /\ \A i \in 1..Len(s) : Placed(g[i], s, i, off)
<1> DEFINE n == Len(s)
<1>0. n \in Nat /\ \A i \in 1..n : s[i] \in Seq(S) /\ Len(s[i]) \in Nat
  OBVIOUS
<1>1. /\ 1 <= n => g[1] = s[1]
      /\ \A i \in 2..n : g[i] = Then(g[i - 1], s[i])
  BY <1>0 DEF Joins
<1>2. \A i \in 1..n : g[i] \in Seq(S)
  <2> HIDE DEF n
  <2> DEFINE good == {i \in 0..n : i = 0 \/ g[i] \in Seq(S)}
  <2>1. ASSUME NEW i \in 0..n, \A j \in 0..i - 1 : j \in good PROVE i \in good
    <3>1. CASE i = 0
      BY <3>1
    <3>2. CASE i = 1
      BY <1>0, <1>1, <3>2
    <3>3. CASE i > 1
      <4>1. i - 1 \in good
        <5> HIDE DEF good
        <5> QED
          BY <1>0, <2>1, <3>3
      <4>2. g[i - 1] \in Seq(S) /\ s[i] \in Seq(S) /\ g[i] = Then(g[i - 1], s[i])
        BY <1>0, <1>1, <3>3, <4>1
      <4> QED
        BY <4>2, ThenIs
    <3> QED
      BY <1>0, <3>1, <3>2, <3>3
  <2>2. \A i \in 0..n : i \in good
    <3> HIDE DEF good
    <3> QED
      BY <1>0, <2>1, Forwards
  <2> QED
    BY <2>2
<1> DEFINE off == [i \in 0..n |-> IF i = 0 THEN 0 ELSE Len(g[i])]
<1>3. /\ off \in [0..n -> Nat] /\ off[0] = 0
      /\ \A i \in 1..n : Len(g[i]) = off[i]
  <2> HIDE DEF n
  <2> QED
    BY <1>0, <1>2
<1>4. \A i \in 1..n : off[i] = off[i - 1] + Len(s[i])
  <2> HIDE DEF n, off
  <2> TAKE i \in 1..n
  <2>1. CASE i = 1
    BY <1>0, <1>1, <1>3, <2>1
  <2>2. CASE i # 1
    <3>1. i - 1 \in 1..n /\ g[i] = Then(g[i - 1], s[i]) /\ g[i - 1] \in Seq(S) /\ s[i] \in Seq(S)
      BY <1>0, <1>1, <1>2, <2>2
    <3>2. Len(Then(g[i - 1], s[i])) = Len(g[i - 1]) + Len(s[i])
      BY <3>1, ThenIs
    <3> QED
      BY <1>3, <3>1, <3>2
  <2> QED
    BY <2>1, <2>2
<1>5. \A i \in 1..n : \A j \in 1..i : \A k \in 1..Len(s[j]) : off[j - 1] + k \in 1..off[j]
  <2> HIDE DEF n, off
  <2> TAKE i \in 1..n
  <2> TAKE j \in 1..i
  <2>1. j \in 1..n /\ j - 1 \in 0..n /\ j \in 0..n /\ Len(s[j]) \in Nat
    BY <1>0
  <2>2. off[j - 1] \in Nat /\ off[j] \in Nat /\ off[j] = off[j - 1] + Len(s[j])
    BY <1>3, <1>4, <2>1
  <2> QED
    BY <2>1, <2>2
<1> DEFINE placed(i) == \A j \in 1..i : \A k \in 1..Len(s[j]) :
                            /\ off[j] <= off[i]
                            /\ g[i][off[j - 1] + k] = s[j][k]
           good == {i \in 0..n : i = 0 \/ placed(i)}
<1>6. ASSUME NEW i \in 0..n, \A j \in 0..i - 1 : j \in good PROVE i \in good
  <2> HIDE DEF n, off
  <2>1. CASE i = 0
    BY <2>1
  <2>2. CASE i = 1
    <3> SUFFICES ASSUME NEW j \in 1..i, NEW k \in 1..Len(s[j])
                 PROVE  off[j] <= off[i] /\ g[i][off[j - 1] + k] = s[j][k]
      BY <1>0
    <3>1. j = 1 /\ off[j - 1] = 0 /\ 1 \in 1..n
      BY <1>0, <1>3, <2>2
    <3>2. off[1] \in Nat /\ Len(s[1]) \in Nat
      BY <1>0, <1>3, <3>1
    <3> QED
      BY <1>1, <2>2, <3>1, <3>2
  <2>3. CASE i > 1
    <3>1. placed(i - 1)
      <4> HIDE DEF placed
      <4> QED
        BY <1>0, <1>6, <2>3
    <3> SUFFICES ASSUME NEW j \in 1..i, NEW k \in 1..Len(s[j])
                 PROVE  off[j] <= off[i] /\ g[i][off[j - 1] + k] = s[j][k]
      BY <1>0
    <3>2. /\ i \in 1..n /\ i - 1 \in 1..n /\ i \in 2..n /\ s[i] \in Seq(S) /\ Len(s[i]) \in Nat
          /\ off[i - 1] \in Nat
      BY <1>0, <1>3, <2>3
    <3>3. g[i] = Then(g[i - 1], s[i]) /\ g[i - 1] \in Seq(S) /\ Len(g[i - 1]) = off[i - 1]
      BY <1>1, <1>2, <1>3, <3>2
    <3>4. off[i] = off[i - 1] + Len(s[i])
      BY <1>4, <3>2
    <3>5. CASE j = i
      <4>1. off[i - 1] + k \in Len(g[i - 1]) + 1..Len(g[i - 1]) + Len(s[i])
        BY <3>2, <3>3, <3>5
      <4>2. Then(g[i - 1], s[i])[off[i - 1] + k] = s[i][(off[i - 1] + k) - Len(g[i - 1])]
        BY <3>2, <3>3, <4>1, ThenSecond
      <4>3. (off[i - 1] + k) - Len(g[i - 1]) = k
        BY <3>2, <3>3
      <4> QED
        BY <3>2, <3>3, <3>4, <3>5, <4>2, <4>3
    <3>6. CASE j # i
      <4>1. j \in 1..i - 1 /\ j \in 1..n /\ j \in 0..n /\ k \in Nat
        BY <1>0, <3>2, <3>6
      <4>2. off[j] <= off[i - 1] /\ g[i - 1][off[j - 1] + k] = s[j][k]
        BY <3>1, <4>1
      <4>3. off[j - 1] + k \in 1..off[j] /\ off[j] \in Nat
        BY <1>3, <1>5, <3>2, <4>1
      <4>4. off[j - 1] + k \in 1..Len(g[i - 1])
        BY <3>2, <3>3, <4>2, <4>3
      <4>5. Then(g[i - 1], s[i])[off[j - 1] + k] = g[i - 1][off[j - 1] + k]
        BY <3>2, <3>3, <4>4, ThenFirst
      <4>6. g[i][off[j - 1] + k] = s[j][k]
        BY <3>3, <4>2, <4>5
      <4>7. off[j] <= off[i]
        BY <3>2, <3>4, <4>2, <4>3
      <4> QED
        BY <4>6, <4>7
    <3> QED
      BY <3>5, <3>6
  <2> QED
    BY <1>0, <2>1, <2>2, <2>3
<1>7. \A i \in 0..n : i \in good
  <2> HIDE DEF good, n
  <2> QED
    BY <1>0, <1>6, Forwards
<1>8. \A i \in 1..n : placed(i)
  <2> HIDE DEF n, placed
  <2> QED
    BY <1>0, <1>7
<1> HIDE DEF off
<1>9. Offsets(s, off)
  BY <1>3, <1>4 DEF Offsets
<1>10. \A i \in 1..n : Placed(g[i], s, i, off)
  BY <1>3, <1>8 DEF Placed, Behind
<1> QED
  BY <1>2, <1>9, <1>10

\* A flattened sequence is what its blocks join to.
LEMMA FlattenJoins ==
    ASSUME NEW S, NEW s \in Seq(Seq(S)), s # <<>>
    PROVE  \E g : Joins(g, s) /\ FlattenSeq(s) = g[Len(s)]
<1> DEFINE n == Len(s)
           flatten[i \in 1..n] == IF i = 1 THEN s[i] ELSE flatten[i - 1] \o s[i]
<1>0. n \in Nat
  OBVIOUS
<1>1. FlattenSeq(s) = flatten[n]
  BY DEF FlattenSeq
<1>2. flatten = [i \in 1..n |-> IF i = 1 THEN s[i] ELSE flatten[i - 1] \o s[i]]
  <2> HIDE DEF n
  <2>1. \E g : g = [i \in 1..n |-> IF i = 1 THEN s[i] ELSE g[i - 1] \o s[i]]
    BY <1>0, JoinsExist
  <2> QED
    BY <2>1, Zenon
<1> HIDE DEF flatten
<1>3. Joins(flatten, s)
  BY <1>2, Zenon DEF Joins, Then
<1> QED
  BY <1>1, <1>3

\* A block of a text in blocks is found behind those before it.
LEMMA Flattened ==
    ASSUME NEW S, NEW s \in Seq(Seq(S))
    PROVE  /\ FlattenSeq(s) \in Seq(S)
           /\ \E off : Offsets(s, off) /\ Placed(FlattenSeq(s), s, Len(s), off)
<1>0. Len(s) \in Nat
  OBVIOUS
<1>1. CASE s = <<>>
  <2>1. FlattenSeq(s) = <<>>
    BY <1>1 DEF FlattenSeq
  <2>2. Offsets(s, [i \in 0..0 |-> 0])
    BY <1>1 DEF Offsets
  <2>3. Placed(<<>>, s, 0, [i \in 0..0 |-> 0])
    BY DEF Placed
  <2> QED
    BY <1>1, <2>1, <2>2, <2>3
<1>2. CASE s # <<>>
  <2>1. PICK g : Joins(g, s) /\ FlattenSeq(s) = g[Len(s)]
    BY <1>2, FlattenJoins
  <2>2. Len(s) \in 1..Len(s)
    BY <1>0, <1>2
  <2> QED
    BY <2>1, <2>2, Joined
<1> QED
  BY <1>1, <1>2

\* Three sequences are put together either way.
LEMMA ThenAssociative ==
    ASSUME NEW S, NEW a \in Seq(S), NEW b \in Seq(S), NEW c \in Seq(S)
    PROVE  Then(Then(a, b), c) = Then(a, Then(b, c))
BY ConcatAssociative DEF Then

\* An empty one adds nothing.
LEMMA ThenEmpty ==
    ASSUME NEW S, NEW a \in Seq(S)
    PROVE  Then(a, <<>>) = a /\ Then(<<>>, a) = a
BY ConcatEmptySeq DEF Then

\* Nothing is lost or moved when sequences of blocks are put together first.
LEMMA FlattenThen ==
    ASSUME NEW S, NEW a \in Seq(Seq(S)), NEW b \in Seq(Seq(S))
    PROVE  FlattenSeq(Then(a, b)) = Then(FlattenSeq(a), FlattenSeq(b))
<1>0. /\ FlattenSeq(<<>>) = <<>>
      /\ FlattenSeq(a) \in Seq(S) /\ FlattenSeq(b) \in Seq(S)
  BY Flattened DEF FlattenSeq
<1>1. CASE a = <<>>
  <2>1. Then(a, b) = b
    BY <1>1, ThenEmpty
  <2>2. Then(<<>>, FlattenSeq(b)) = FlattenSeq(b)
    BY <1>0, ThenEmpty
  <2> QED
    BY <1>0, <1>1, <2>1, <2>2
<1>2. CASE b = <<>>
  <2>1. Then(a, b) = a
    BY <1>2, ThenEmpty
  <2>2. Then(FlattenSeq(a), <<>>) = FlattenSeq(a)
    BY <1>0, ThenEmpty
  <2> QED
    BY <1>0, <1>2, <2>1, <2>2
<1>3. CASE a # <<>> /\ b # <<>>
  <2> DEFINE B == Seq(S)
             c == Then(a, b)
             m == Len(a)
             n == Len(b)
  <2>0. m \in Nat /\ m >= 1 /\ n \in Nat /\ n >= 1
    BY <1>3
  <2>1. c \in Seq(B) /\ Len(c) = m + n
    BY ThenIs
  <2>2. \A i \in 1..m : c[i] = a[i]
    BY ThenFirst
  <2>3. \A i \in 1..n : c[m + i] = b[i]
    <3> SUFFICES ASSUME NEW i \in 1..n PROVE c[m + i] = b[i]
      OBVIOUS
    <3>1. m + i \in m + 1..m + n /\ (m + i) - m = i
      BY <2>0
    <3>2. c[m + i] = b[(m + i) - m]
      BY <3>1, ThenSecond
    <3> QED
      BY <3>1, <3>2
  <2> HIDE DEF c
  <2>4. c # <<>>
    BY <2>0, <2>1
  <2>5. PICK f : Joins(f, a) /\ FlattenSeq(a) = f[m]
    BY <1>3, FlattenJoins
  <2>6. PICK g : Joins(g, b) /\ FlattenSeq(b) = g[n]
    BY <1>3, FlattenJoins
  <2>7. PICK h : Joins(h, c) /\ FlattenSeq(c) = h[m + n]
    BY <2>1, <2>4, FlattenJoins
  <2>8. /\ \A i \in 1..m : f[i] \in B
        /\ \A i \in 1..n : g[i] \in B /\ b[i] \in B
    BY <2>5, <2>6, Joined
  <2> HIDE DEF m, n, B
  <2>9. /\ f[1] = a[1] /\ \A i \in 2..m : f[i] = Then(f[i - 1], a[i])
        /\ g[1] = b[1] /\ \A i \in 2..n : g[i] = Then(g[i - 1], b[i])
        /\ h[1] = c[1] /\ \A i \in 2..m + n : h[i] = Then(h[i - 1], c[i])
    BY <2>0, <2>1, <2>5, <2>6, <2>7 DEF Joins, m, n
  <2>10. \A i \in 1..m : h[i] = f[i]
    <3> DEFINE good == {i \in 0..m : i = 0 \/ h[i] = f[i]}
    <3>1. ASSUME NEW i \in 0..m, \A j \in 0..i - 1 : j \in good PROVE i \in good
      <4>1. CASE i = 0
        BY <4>1
      <4>2. CASE i = 1
        BY <2>0, <2>2, <2>9, <4>2
      <4>3. CASE i > 1
        <5>1. i - 1 \in good
          <6> HIDE DEF good
          <6> QED
            BY <2>0, <3>1, <4>3
        <5>2. h[i - 1] = f[i - 1]
          BY <4>3, <5>1
        <5>3. i \in 2..m /\ i \in 2..m + n /\ i \in 1..m
          BY <2>0, <4>3
        <5>4. h[i] = Then(h[i - 1], c[i]) /\ f[i] = Then(f[i - 1], a[i]) /\ c[i] = a[i]
          BY <2>2, <2>9, <5>3
        <5> QED
          BY <5>2, <5>4
      <4> QED
        BY <4>1, <4>2, <4>3
    <3>2. \A i \in 0..m : i \in good
      <4> HIDE DEF good
      <4> QED
        BY <2>0, <3>1, Forwards
    <3> QED
      BY <2>0, <3>2
  <2>11. \A i \in 1..n : h[m + i] = Then(f[m], g[i])
    <3> DEFINE good == {i \in 0..n : i = 0 \/ h[m + i] = Then(f[m], g[i])}
    <3>1. ASSUME NEW i \in 0..n, \A j \in 0..i - 1 : j \in good PROVE i \in good
      <4>1. CASE i = 0
        BY <4>1
      <4>2. CASE i # 0
        <5>1. i \in 1..n /\ m + i \in 2..m + n /\ (m + i) - 1 = m + (i - 1) /\ m \in 1..m
          BY <2>0, <4>2
        <5>2. h[m + i] = Then(h[m + (i - 1)], b[i])
          BY <2>3, <2>9, <5>1
        <5>3. CASE i = 1
          BY <2>0, <2>9, <2>10, <5>1, <5>2, <5>3
        <5>4. CASE i # 1
          <6>1. i - 1 \in good
            <7> HIDE DEF good
            <7> QED
              BY <2>0, <3>1, <4>2, <5>4
          <6>2. i - 1 \in 1..n /\ i \in 2..n
            BY <2>0, <5>1, <5>4
          <6>3. h[m + (i - 1)] = Then(f[m], g[i - 1])
            BY <6>1, <6>2
          <6>4. g[i] = Then(g[i - 1], b[i])
            BY <2>9, <6>2
          <6>5. f[m] \in B /\ g[i - 1] \in B /\ b[i] \in B
            BY <2>8, <5>1, <6>2
          <6>6. Then(Then(f[m], g[i - 1]), b[i]) = Then(f[m], Then(g[i - 1], b[i]))
            BY <6>5, ThenAssociative DEF B
          <6>7. h[m + i] = Then(f[m], g[i])
            BY <5>2, <6>3, <6>4, <6>6
          <6> QED
            BY <6>7
        <5> QED
          BY <5>3, <5>4
      <4> QED
        BY <4>1, <4>2
    <3>2. \A i \in 0..n : i \in good
      <4> HIDE DEF good
      <4> QED
        BY <2>0, <3>1, Forwards
    <3> QED
      BY <2>0, <3>2
  <2> QED
    BY <2>0, <2>5, <2>6, <2>7, <2>11 DEF c
<1> QED
  BY <1>1, <1>2, <1>3

\* Empty blocks make an empty text.
LEMMA FlattenEmpty ==
    ASSUME NEW s \in Seq({<<>>})
    PROVE  FlattenSeq(s) = <<>>
<1>0. FlattenSeq(<<>>) = <<>>
  BY DEF FlattenSeq
<1> SUFFICES ASSUME s # <<>> PROVE FlattenSeq(s) = <<>>
  BY <1>0
<1> DEFINE n == Len(s)
<1>1. n \in Nat /\ n >= 1 /\ \A i \in 1..n : s[i] = <<>>
  OBVIOUS
<1>2. s \in Seq(Seq({}))
  <2>1. <<>> \in Seq({})
    OBVIOUS
  <2> QED
    BY <2>1, SeqMonotonic
<1>3. PICK g : Joins(g, s) /\ FlattenSeq(s) = g[n]
  BY <1>2, FlattenJoins
<1> DEFINE good == {i \in 0..n : i = 0 \/ g[i] = <<>>}
<1>4. \A i \in 1..n : g[i] = IF i = 1 THEN <<>> ELSE Then(g[i - 1], <<>>)
  BY <1>1, <1>3 DEF Joins
<1>5. Then(<<>>, <<>>) = <<>>
  BY DEF Then
<1>6. ASSUME NEW i \in 0..n, \A j \in 0..i - 1 : j \in good PROVE i \in good
  <2> HIDE DEF n
  <2>1. CASE i \in {0, 1}
    BY <1>1, <1>4, <2>1
  <2>2. CASE i > 1
    <3>1. i - 1 \in good
      <4> HIDE DEF good
      <4> QED
        BY <1>1, <1>6, <2>2
    <3>2. g[i - 1] = <<>>
      BY <2>2, <3>1
    <3> QED
      BY <1>1, <1>4, <1>5, <2>2, <3>2
  <2> QED
    BY <1>1, <2>1, <2>2
<1>7. \A i \in 0..n : i \in good
  <2> HIDE DEF good, n
  <2> QED
    BY <1>1, <1>6, Forwards
<1> QED
  BY <1>1, <1>3, <1>7

\* What stands behind one place stands in front of what stands behind the next.
LEMMA OffsetsGrow ==
    ASSUME NEW S, NEW s \in Seq(Seq(S)), NEW off, Offsets(s, off)
    PROVE  \A i \in 0..Len(s) : off[i] \in Nat /\ off[i] <= off[Len(s)]
<1> DEFINE n == Len(s)
           good == {i \in 1..n + 1 : off[i - 1] <= off[n]}
<1>0. n \in Nat /\ \A i \in 1..n : Len(s[i]) \in Nat
  OBVIOUS
<1>1. /\ off \in [0..n -> Nat]
      /\ \A i \in 1..n : off[i] = off[i - 1] + Len(s[i])
  BY DEF Offsets
<1> HIDE DEF n
<1>2. ASSUME NEW i \in 1..n + 1, \A j \in i + 1..n + 1 : j \in good PROVE i \in good
  <2>1. CASE i = n + 1
    BY <1>0, <1>1, <2>1
  <2>2. CASE i # n + 1
    <3>1. i + 1 \in good /\ i \in 1..n
      <4> HIDE DEF good
      <4> QED
        BY <1>0, <1>2, <2>2
    <3>2. off[i] <= off[n] /\ off[i] = off[i - 1] + Len(s[i])
      <4>1. off[i + 1 - 1] <= off[n] /\ i + 1 - 1 = i
        BY <1>0, <3>1
      <4> QED
        BY <1>1, <3>1, <4>1
    <3>3. off[i - 1] \in Nat /\ off[i] \in Nat /\ off[n] \in Nat /\ Len(s[i]) \in Nat
      BY <1>0, <1>1, <3>1
    <3> QED
      BY <3>2, <3>3
  <2> QED
    BY <2>1, <2>2
<1>3. \A i \in 1..n + 1 : i \in good
  <2> HIDE DEF good
  <2>1. n + 1 \in Nat
    BY <1>0
  <2> QED
    BY <1>2, <2>1, Backwards
<1>4. ASSUME NEW i \in 0..n PROVE off[i] \in Nat /\ off[i] <= off[n]
  <2>1. i + 1 \in 1..n + 1 /\ i + 1 - 1 = i
    BY <1>0
  <2> QED
    BY <1>1, <1>3, <2>1
<1> QED
  BY <1>4 DEF n

\* A tail of a text is its first character and the tail behind it.
LEMMA TailOf ==
    ASSUME NEW S, NEW t \in Seq(S), NEW i \in 1..Len(t)
    PROVE  SubSeq(t, i, Len(t)) = Then(<<t[i]>>, SubSeq(t, i + 1, Len(t)))
<1>1. Len(t) \in i..Len(t)
  OBVIOUS
<1> QED
  BY <1>1, SubSeqRecursiveFirst DEF Then

-----------------------------------------------------------------------------
(* Conversions *)

\* Seven bits are one byte.
LEMMA OneByte ==
    ASSUME NEW u \in Units, u <= 127
    PROVE  /\ Bytes(u) \in Seq(0..255) /\ Len(Bytes(u)) = 1
           /\ Bytes(u)[1] \in 0..127 /\ Bytes(u)[1] = u
<1>1. u \in Nat /\ u < 65536 /\ u % 65536 = u
  BY DEF Units
<1>2. Bytes(u) = <<u>>
  BY <1>1 DEF Bytes
<1>3. u \in 0..127
  BY <1>1
<1> QED
  BY <1>2, <1>3

\* Up to eleven bits are two bytes, which hold them.
LEMMA TwoBytes ==
    ASSUME NEW u \in Units, 127 < u, u <= 2047
    PROVE  /\ Bytes(u) \in Seq(0..255) /\ Len(Bytes(u)) = 2
           /\ Bytes(u)[1] \in 194..223 /\ Bytes(u)[2] \in 128..191
           /\ (Bytes(u)[1] % 32) * 64 + (Bytes(u)[2] % 64) = u
<1> DEFINE a == 192 + (u \div 64)
           b == 128 + (u % 64)
<1>1. u \in Nat /\ u < 65536 /\ u % 65536 = u
  BY DEF Units
<1>2. Bytes(u) = <<a, b>>
  BY <1>1 DEF Bytes
<1>3. a \in 194..223 /\ b \in 128..191
  BY <1>1
<1>4. a % 32 = u \div 64
  BY <1>1
<1>5. b % 64 = u % 64
  BY <1>1
<1>6. u = (u \div 64) * 64 + (u % 64)
  BY <1>1
<1>7. (a % 32) * 64 + (b % 64) = u
  BY <1>4, <1>5, <1>6
<1> HIDE DEF a, b
<1>8. Bytes(u)[1] = a /\ Bytes(u)[2] = b /\ Len(Bytes(u)) = 2 /\ Bytes(u) \in Seq(0..255)
  BY <1>2, <1>3
<1> QED
  BY <1>3, <1>7, <1>8

\* All others are three.
LEMMA ThreeBytes ==
    ASSUME NEW u \in Units, 2047 < u
    PROVE  /\ Bytes(u) \in Seq(0..255) /\ Len(Bytes(u)) = 3
           /\ Bytes(u)[1] \in 224..239 /\ Bytes(u)[2] \in 128..191 /\ Bytes(u)[3] \in 128..191
           /\ ((Bytes(u)[1] % 16) * 64 + (Bytes(u)[2] % 64)) * 64 + (Bytes(u)[3] % 64) = u
<1> DEFINE a == 224 + (u \div 4096)
           b == 128 + ((u \div 64) % 64)
           c == 128 + (u % 64)
<1>1. u \in Nat /\ u < 65536 /\ u % 65536 = u
  BY DEF Units
<1>2. Bytes(u) = <<a, b, c>>
  BY <1>1 DEF Bytes
<1>3. a \in 224..239 /\ a % 16 = u \div 4096
  BY <1>1
<1>4. b \in 128..191 /\ b % 64 = (u \div 64) % 64
  BY <1>1
<1>5. c \in 128..191 /\ c % 64 = u % 64
  BY <1>1
<1>6. u = ((u \div 4096) * 64 + ((u \div 64) % 64)) * 64 + (u % 64)
  BY <1>1
<1>7. ((a % 16) * 64 + (b % 64)) * 64 + (c % 64) = u
  BY <1>3, <1>4, <1>5, <1>6
<1> HIDE DEF a, b, c
<1>8. /\ Bytes(u)[1] = a /\ Bytes(u)[2] = b /\ Bytes(u)[3] = c
      /\ Len(Bytes(u)) = 3 /\ Bytes(u) \in Seq(0..255)
  BY <1>2, <1>3, <1>4, <1>5
<1> QED
  BY <1>3, <1>4, <1>5, <1>7, <1>8

\* The first byte tells how many follow, and the bits it has.
LEMMA LeadOfOne ==
    ASSUME NEW byte \in 0..127
    PROVE  Lead(byte).bits = byte /\ Lead(byte).extra = 0
<1>1. Lead(byte) = [bits |-> byte, extra |-> 0]
  BY DEF Lead
<1> QED
  BY <1>1

\* The same of two.
LEMMA LeadOfTwo ==
    ASSUME NEW byte \in 194..223
    PROVE  Lead(byte).bits = byte % 32 /\ Lead(byte).extra = 1
<1>1. Lead(byte) = [bits |-> byte % 32, extra |-> 1]
  BY DEF Lead
<1> QED
  BY <1>1

\* The same of three.
LEMMA LeadOfThree ==
    ASSUME NEW byte \in 224..239
    PROVE  Lead(byte).bits = byte % 16 /\ Lead(byte).extra = 2
<1>1. Lead(byte) = [bits |-> byte % 16, extra |-> 2]
  BY DEF Lead
<1> QED
  BY <1>1

\* What a unit is in UTF-8.
LEMMA BytesOf ==
    ASSUME NEW u \in Units
    PROVE  /\ Bytes(u) \in Seq(0..255) /\ Len(Bytes(u)) \in 1..3
           /\ Lead(Bytes(u)[1]).extra = Len(Bytes(u)) - 1
<1>0. u \in Nat
  BY DEF Units
<1>1. CASE u <= 127
  <2>1. Lead(Bytes(u)[1]).extra = 0
    BY <1>1, OneByte, LeadOfOne
  <2> QED
    BY <1>1, <2>1, OneByte
<1>2. CASE 127 < u /\ u <= 2047
  <2>1. Lead(Bytes(u)[1]).extra = 1
    <3>1. Bytes(u)[1] \in 194..223
      BY <1>2, TwoBytes
    <3> QED
      BY <3>1, LeadOfTwo
  <2> QED
    BY <1>2, <2>1, TwoBytes
<1>3. CASE 2047 < u
  <2>1. Lead(Bytes(u)[1]).extra = 2
    <3>1. Bytes(u)[1] \in 224..239
      BY <1>3, ThreeBytes
    <3> QED
      BY <3>1, LeadOfThree
  <2> QED
    BY <1>3, <2>1, ThreeBytes
<1> QED
  BY <1>0, <1>1, <1>2, <1>3

\* How the bits of bytes are put together.
LEMMA CodeIs ==
   ASSUME NEW narrow \in Seq(0..255), NEW first \in 1..Len(narrow), NEW last \in first..first + 2
   PROVE  LET bits == Lead(narrow[first]).bits
          IN  Code(narrow, first, last) =
              IF last = first THEN bits
              ELSE IF last = first + 1 THEN bits * 64 + (narrow[last] % 64)
              ELSE (bits * 64 + (narrow[first + 1] % 64)) * 64 + (narrow[last] % 64)
<1> DEFINE code[k \in first..last] ==
               IF k = first THEN Lead(narrow[first]).bits ELSE code[k - 1] * 64 + (narrow[k] % 64)
<1>1. Code(narrow, first, last) = code[last]
  BY DEF Code
<1>2. code = [k \in first..last |->
                IF k = first THEN Lead(narrow[first]).bits ELSE code[k - 1] * 64 + (narrow[k] % 64)]
  <2>1. \E g : g = [k \in first..last |->
                IF k = first THEN Lead(narrow[first]).bits ELSE g[k - 1] * 64 + (narrow[k] % 64)]
    <3> DEFINE bits == Lead(narrow[first]).bits
               h == [k \in first..last |->
                        IF k = first THEN bits
                        ELSE IF k = first + 1 THEN bits * 64 + (narrow[k] % 64)
                        ELSE (bits * 64 + (narrow[first + 1] % 64)) * 64 + (narrow[k] % 64)]
    <3> HIDE DEF bits
    <3>1. h = [k \in first..last |-> IF k = first THEN bits ELSE h[k - 1] * 64 + (narrow[k] % 64)]
      OBVIOUS
    <3> HIDE DEF h
    <3> QED
      BY <3>1 DEF bits
  <2> QED
    BY <2>1, Zenon
<1> HIDE DEF code
<1> DEFINE bits == Lead(narrow[first]).bits
<1>3. \A k \in first..last : code[k] = IF k = first THEN bits ELSE code[k - 1] * 64 + (narrow[k] % 64)
  BY <1>2, Zenon
<1> HIDE DEF bits
<1>4. /\ code[first] = bits
      /\ first + 1 <= last => code[first + 1] = bits * 64 + (narrow[first + 1] % 64)
      /\ first + 2 <= last => code[first + 2] = code[first + 1] * 64 + (narrow[first + 2] % 64)
  BY <1>3
<1> QED
  BY <1>1, <1>4 DEF bits

\* The bytes of a unit give the unit.
LEMMA CodeOfBytes ==
    ASSUME NEW u \in Units, NEW narrow \in Seq(0..255), NEW p \in 1..Len(narrow),
           NEW last \in p..Len(narrow), last = p - 1 + Len(Bytes(u)), Behind(narrow, p - 1, Bytes(u))
    PROVE  Code(narrow, p, last) = u
<1> DEFINE bits == Lead(narrow[p]).bits
<1>0. u \in Nat /\ p \in Nat /\ last \in Nat /\ p - 1 + 1 = p /\ p - 1 + 2 = p + 1 /\ p - 1 + 3 = p + 2
  BY DEF Units
<1>1. CASE u <= 127
  <2>1. Len(Bytes(u)) = 1 /\ Bytes(u)[1] \in 0..127 /\ Bytes(u)[1] = u
    BY <1>1, OneByte
  <2>2. narrow[p] = Bytes(u)[1] /\ last = p
    BY <1>0, <2>1 DEF Behind
  <2>3. bits = u
    BY <2>1, <2>2, LeadOfOne
  <2>4. Code(narrow, p, last) = bits
    BY <2>2, CodeIs
  <2> QED
    BY <2>3, <2>4
<1>2. CASE 127 < u /\ u <= 2047
  <2>1. /\ Len(Bytes(u)) = 2 /\ Bytes(u)[1] \in 194..223
        /\ (Bytes(u)[1] % 32) * 64 + (Bytes(u)[2] % 64) = u
    BY <1>2, TwoBytes
  <2>2. narrow[p] = Bytes(u)[1] /\ narrow[p + 1] = Bytes(u)[2] /\ last = p + 1
    BY <1>0, <2>1 DEF Behind
  <2>3. bits = Bytes(u)[1] % 32
    BY <2>1, <2>2, LeadOfTwo
  <2>4. Code(narrow, p, last) = bits * 64 + (narrow[last] % 64)
    BY <1>0, <2>2, CodeIs
  <2> HIDE DEF bits
  <2> QED
    BY <2>1, <2>2, <2>3, <2>4
<1>3. CASE 2047 < u
  <2>1. /\ Len(Bytes(u)) = 3 /\ Bytes(u)[1] \in 224..239
        /\ ((Bytes(u)[1] % 16) * 64 + (Bytes(u)[2] % 64)) * 64 + (Bytes(u)[3] % 64) = u
    BY <1>3, ThreeBytes
  <2>2. /\ narrow[p] = Bytes(u)[1] /\ narrow[p + 1] = Bytes(u)[2] /\ narrow[p + 2] = Bytes(u)[3]
        /\ last = p + 2
    BY <1>0, <2>1 DEF Behind
  <2>3. bits = Bytes(u)[1] % 16
    BY <2>1, <2>2, LeadOfThree
  <2>4. Code(narrow, p, last) = (bits * 64 + (narrow[p + 1] % 64)) * 64 + (narrow[last] % 64)
    BY <1>0, <2>2, CodeIs
  <2> HIDE DEF bits
  <2> QED
    BY <2>1, <2>2, <2>3, <2>4
<1> QED
  BY <1>0, <1>1, <1>2, <1>3

\* At most three bytes follow any byte.
LEMMA LeadFollowed ==
    ASSUME NEW byte \in 0..255
    PROVE  Lead(byte).extra \in 0..3
BY DEF Lead

\* Reading a text of blocks from the block i on.
LEMMA DecodedFrom ==
    ASSUME NEW wide \in Seq(Units)
    PROVE  Characters(FlattenSeq([i \in DOMAIN wide |-> Bytes(wide[i])])) = wide
<1> DEFINE n == Len(wide)
           s == [i \in DOMAIN wide |-> Bytes(wide[i])]
           narrow == FlattenSeq(s)
           size == Len(narrow)
           LastAt(i) == LET last == i + Lead(narrow[i]).extra IN IF last > size THEN size ELSE last
           converted[i \in 1..size + 1] ==
               IF i > size THEN <<>>
               ELSE <<Code(narrow, i, LastAt(i))>> \o converted[LastAt(i) + 1]
<1>0. /\ n \in Nat /\ s \in Seq(Seq(0..255)) /\ Len(s) = n
      /\ \A i \in 1..n : wide[i] \in Units /\ s[i] = Bytes(wide[i])
  <2>1. n \in Nat /\ DOMAIN wide = 1..n /\ \A i \in 1..n : wide[i] \in Units
    OBVIOUS
  <2>2. \A i \in 1..n : Bytes(wide[i]) \in Seq(0..255)
    BY <2>1, BytesOf
  <2> DEFINE S == Seq(0..255)
  <2> HIDE DEF n, S
  <2>3. s \in Seq(S) /\ Len(s) = n /\ \A i \in 1..n : s[i] = Bytes(wide[i])
    BY <2>1, <2>2 DEF S
  <2> QED
    BY <2>1, <2>3 DEF S
<1> HIDE DEF s
<1>1. narrow \in Seq(0..255) /\ size \in Nat
  BY <1>0, Flattened
<1>2. PICK off : Offsets(s, off) /\ Placed(narrow, s, n, off)
  BY <1>0, Flattened
<1>3. Characters(narrow) = converted[1]
  BY DEF Characters
<1>4. \A i \in 1..size : LastAt(i) \in i..size
  <2> TAKE i \in 1..size
  <2> HIDE DEF narrow
  <2>1. narrow[i] \in 0..255
    BY <1>1, ElementOfSeq
  <2>2. Lead(narrow[i]).extra \in 0..3
    BY <2>1, LeadFollowed
  <2> HIDE DEF size
  <2> QED
    BY <1>1, <2>2
<1>5. converted = [i \in 1..size + 1 |->
                      IF i > size THEN <<>>
                      ELSE <<Code(narrow, i, LastAt(i))>> \o converted[LastAt(i) + 1]]
  <2> HIDE DEF LastAt, size
  <2> DEFINE m == size + 1
             stop == {m}
             next == [i \in 1..m |-> LastAt(i) + 1]
             code == [i \in 1..m |-> <<Code(narrow, i, LastAt(i))>>]
  <2>1. m \in Nat /\ \A i \in 1..m : i \notin stop => i \in 1..size
    BY <1>1
  <2>2. Onward(m, stop, next)
    <3> SUFFICES ASSUME NEW i \in 1..m, i \notin stop PROVE next[i] \in i + 1..m
      BY DEF Onward
    <3>1. LastAt(i) \in i..size
      BY <1>4, <2>1
    <3> QED
      BY <1>1, <2>1, <3>1
  <2>3. \A i \in 1..m : i \in stop <=> i > size
    BY <1>1
  <2>4. \A i \in 1..m : next[i] = LastAt(i) + 1 /\ code[i] = <<Code(narrow, i, LastAt(i))>>
    OBVIOUS
  <2> HIDE DEF m, stop, next, code
  <2>5. PICK g : IsCut(g, m, stop, code, next)
    BY <2>1, <2>2, CutsExist
  <2>6. g = [i \in 1..m |-> IF i > size THEN <<>>
                             ELSE <<Code(narrow, i, LastAt(i))>> \o g[LastAt(i) + 1]]
    BY <2>3, <2>4, <2>5, Zenon DEF IsCut
  <2>7. \E h : h = [i \in 1..size + 1 |-> IF i > size THEN <<>>
                             ELSE <<Code(narrow, i, LastAt(i))>> \o h[LastAt(i) + 1]]
    BY <2>6, Zenon DEF m
  <2> QED
    BY <2>7, Zenon
<1> HIDE DEF converted, LastAt
<1>6. \A i \in 1..size + 1 :
         converted[i] = IF i > size THEN <<>>
                        ELSE Then(<<Code(narrow, i, LastAt(i))>>, converted[LastAt(i) + 1])
  BY <1>5, Zenon DEF Then
<1> HIDE DEF narrow, size, n
<1> HIDE <1>5
<1> DEFINE good == {i \in 1..n + 1 : converted[off[i - 1] + 1] = SubSeq(wide, i, n)}
<1>7. /\ off[0] = 0 /\ off[n] = size /\ \A i \in 1..n : off[i] = off[i - 1] + Len(s[i])
      /\ \A i \in 0..n : off[i] \in Nat /\ off[i] <= size
  <2>1. off[n] = size
    BY <1>2 DEF Placed, size
  <2> QED
    BY <1>0, <1>2, <2>1, OffsetsGrow DEF Offsets
<1>8. ASSUME NEW i \in 1..n + 1, \A j \in i + 1..n + 1 : j \in good PROVE i \in good
  <2>1. CASE i = n + 1
    <3>1. off[i - 1] + 1 = size + 1 /\ n \in Int /\ i \in Int /\ n < i
      BY <1>0, <1>7, <2>1
    <3>2. converted[size + 1] = <<>>
      <4>1. size + 1 \in 1..size + 1 /\ size + 1 > size
        BY <1>1
      <4> QED
        BY <1>6, <4>1, Zenon
    <3>3. SubSeq(wide, i, n) = <<>>
      BY <3>1, SubSeqEmpty
    <3> QED
      BY <3>1, <3>2, <3>3
  <2>2. CASE i # n + 1
    <3> DEFINE p == off[i - 1] + 1
    <3>1. i \in 1..n /\ i - 1 \in 0..n /\ i + 1 \in 1..n + 1 /\ i + 1 - 1 = i
      BY <1>0, <2>2
    <3>2. converted[off[i] + 1] = SubSeq(wide, i + 1, n)
      <4>1. i + 1 \in good
        <5> HIDE DEF good
        <5> QED
          BY <1>0, <1>8, <3>1
      <4> QED
        BY <3>1, <4>1
    <3>3. /\ wide[i] \in Units /\ s[i] = Bytes(wide[i]) /\ Len(s[i]) \in 1..3
          /\ Lead(Bytes(wide[i])[1]).extra = Len(s[i]) - 1
      BY <1>0, <3>1, BytesOf
    <3>4. /\ off[i - 1] \in Nat /\ off[i] \in Nat /\ off[i] = off[i - 1] + Len(s[i])
          /\ off[i] <= size
      BY <1>7, <3>1
    <3>5. /\ p \in 1..size /\ off[i] \in p..size /\ p - 1 = off[i - 1]
          /\ off[i] = p + (Len(s[i]) - 1) /\ off[i] = p - 1 + Len(s[i])
      <4> DEFINE length == Len(s[i])
                 before == off[i - 1]
                 end == off[i]
      <4>1. /\ length \in 1..3 /\ size \in Nat /\ before \in Nat /\ end \in Nat
            /\ end = before + length /\ end <= size /\ p = before + 1
        BY <1>1, <3>3, <3>4
      <4> HIDE DEF length, before, end, p
      <4>2. /\ p \in 1..size /\ end \in p..size /\ p - 1 = before
            /\ end = p + (length - 1) /\ end = p - 1 + length
        BY <4>1
      <4> QED
        BY <4>2 DEF length, before, end
    <3>6. Behind(narrow, p - 1, Bytes(wide[i]))
      BY <1>2, <3>1, <3>3, <3>5 DEF Placed
    <3> HIDE DEF p
    <3>7. narrow[p] = Bytes(wide[i])[1]
      BY <3>3, <3>5, <3>6 DEF Behind
    <3>8. LastAt(p) = off[i]
      <4>1. p + Lead(narrow[p]).extra = off[i] /\ ~(off[i] > size)
        <5>1. Lead(narrow[p]).extra = Len(s[i]) - 1
          BY <3>3, <3>7
        <5> QED
          BY <1>1, <3>4, <3>5, <5>1
      <4> QED
        BY <4>1 DEF LastAt
    <3>9. Code(narrow, p, off[i]) = wide[i]
      <4>1. off[i] = p - 1 + Len(Bytes(wide[i]))
        BY <3>3, <3>5
      <4> QED
        BY <1>1, <3>3, <3>5, <3>6, <4>1, CodeOfBytes DEF size
    <3>10. converted[p] = Then(<<wide[i]>>, SubSeq(wide, i + 1, n))
      <4>1. p \in 1..size + 1 /\ ~(p > size)
        BY <1>1, <3>5
      <4>2. converted[p] = Then(<<Code(narrow, p, LastAt(p))>>, converted[LastAt(p) + 1])
        BY <1>6, <4>1, Zenon
      <4> QED
        BY <3>2, <3>8, <3>9, <4>2
    <3> QED
      BY <3>1, <3>10, TailOf DEF n, p
  <2> QED
    BY <2>1, <2>2
<1>9. \A i \in 1..n + 1 : i \in good
  <2> HIDE DEF good
  <2>1. n + 1 \in Nat
    BY <1>0
  <2> QED
    BY <1>8, <2>1, Backwards
<1>10. converted[1] = SubSeq(wide, 1, n)
  <2>1. 1 \in 1..n + 1 /\ off[1 - 1] + 1 = 1
    BY <1>0, <1>7
  <2> QED
    BY <1>9, <2>1
<1> QED
  BY <1>3, <1>10, SubSeqFull DEF n, narrow, s

\* Asked with no buffer the size is given, and a buffer of that size gets all.
LEMMA CopiedWhole ==
    ASSUME NEW S, NEW t \in Seq(S)
    PROVE  /\ Copied(t, 0).count = Len(t)
           /\ Copied(t, Len(t)).out = t
<1>1. Len(t) \in Nat
  OBVIOUS
<1>2. Copied(t, 0).count = Len(t)
  BY DEF Copied
<1>3. CASE Len(t) = 0
  <2>1. Copied(t, Len(t)) = [count |-> Len(t), out |-> <<>>]
    BY <1>3 DEF Copied
  <2> QED
    BY <1>2, <1>3, <2>1
<1>4. CASE Len(t) # 0
  <2>1. Copied(t, Len(t)) = [count |-> Len(t), out |-> SubSeq(t, 1, Len(t))]
    BY <1>1, <1>4 DEF Copied
  <2> QED
    BY <1>2, <2>1, SubSeqFull
<1> QED
  BY <1>3, <1>4

\* Every wide string comes back as it was, through the sizes both functions give.
THEOREM EveryTextConvertsBack ==
    ASSUME NEW wide \in Seq(Units)
    PROVE  ConvertsBack(wide)
<1> DEFINE t == FlattenSeq([i \in DOMAIN wide |-> Bytes(wide[i])])
<1>1. t \in Seq(0..255)
  <2> DEFINE s == [i \in DOMAIN wide |-> Bytes(wide[i])]
             S == Seq(0..255)
  <2>1. Len(wide) \in Nat /\ DOMAIN wide = 1..Len(wide) /\ \A i \in 1..Len(wide) : wide[i] \in Units
    OBVIOUS
  <2>2. \A i \in 1..Len(wide) : Bytes(wide[i]) \in S
    BY <2>1, BytesOf
  <2> HIDE DEF S
  <2>3. s \in Seq(S)
    BY <2>1, <2>2
  <2> HIDE DEF s
  <2> QED
    BY <2>3, Flattened DEF s, S
<1>2. Characters(t) = wide
  BY DecodedFrom
<1> DEFINE size == WideCharToMultiByte(wide, 0).count
           narrow == WideCharToMultiByte(wide, size).out
           sizeBack == MultiByteToWideChar(narrow, 0).count
<1> HIDE DEF t
<1>3. size = Len(t) /\ narrow = t
  BY <1>1, CopiedWhole DEF WideCharToMultiByte, t
<1> HIDE DEF size, narrow
<1>4. sizeBack = Len(wide)
  BY <1>2, <1>3, CopiedWhole DEF MultiByteToWideChar
<1>5. MultiByteToWideChar(narrow, sizeBack).out = wide
  BY <1>2, <1>3, <1>4, CopiedWhole DEF MultiByteToWideChar
<1>6. \A i \in DOMAIN narrow : narrow[i] \in 0..255
  <2> DEFINE B == 0..255
  <2>1. narrow \in Seq(B)
    BY <1>1, <1>3
  <2> HIDE DEF B
  <2>2. \A i \in DOMAIN narrow : narrow[i] \in B
    BY <2>1
  <2> QED
    BY <2>2 DEF B
<1> HIDE DEF sizeBack
<1>7. Len(narrow) = size /\ \A i \in DOMAIN narrow : narrow[i] \in 0..255
  BY <1>3, <1>6
<1> QED
  BY <1>5, <1>7 DEF ConvertsBack, size, narrow, sizeBack
=============================================================================
