-------------------------------- MODULE Utf8 --------------------------------
(***************************************************************************)
(* The conversions between UTF-8 and wide strings that replace the Win32   *)
(* code page functions.  A wide string is a sequence of units, a narrow    *)
(* one a sequence of bytes; a buffer of size 0 asks for the size needed.   *)
(***************************************************************************)
EXTENDS Integers, Sequences, SequencesExt

\* What both functions return: the count, and what they wrote to a buffer.
Copied(converted, outSize) ==
    LET n == IF outSize < Len(converted) THEN outSize ELSE Len(converted)
    IN  IF outSize = 0 THEN [count |-> Len(converted), out |-> <<>>]
        ELSE [count |-> n, out |-> SubSeq(converted, 1, n)]

\* A unit is cut to 16 bits first.
Bytes_Bug(unit) ==      \* off by one at the end of the two-byte range
    LET cp == unit % 65536
    IN  IF cp <= 127 THEN <<cp>>
        ELSE IF cp <= 2048 THEN <<192 + (cp \div 64), 128 + (cp % 64)>>
        ELSE <<224 + (cp \div 4096), 128 + ((cp \div 64) % 64), 128 + (cp % 64)>>

Bytes(unit) ==
    LET cp == unit % 65536
    IN  IF cp <= 127 THEN <<cp>>
        ELSE IF cp <= 2047 THEN <<192 + (cp \div 64), 128 + (cp % 64)>>
        ELSE <<224 + (cp \div 4096), 128 + ((cp \div 64) % 64), 128 + (cp % 64)>>

WideCharToMultiByte(wide, outSize) ==
    Copied(FlattenSeq([i \in DOMAIN wide |-> Bytes(wide[i])]), outSize)

\* The bits of the first byte, and how many bytes follow it.
Lead(byte) ==
    IF byte < 128 THEN [bits |-> byte, extra |-> 0]
    ELSE IF byte \in 192..223 THEN [bits |-> byte % 32, extra |-> 1]
    ELSE IF byte \in 224..239 THEN [bits |-> byte % 16, extra |-> 2]
    ELSE [bits |-> byte % 8, extra |-> 3]

\* The bytes of one character.  A character that the end of the text cuts off
\* keeps the bits it has.
Code(narrow, first, last) ==
    LET code[k \in first..last] ==
            IF k = first THEN Lead(narrow[first]).bits ELSE code[k - 1] * 64 + (narrow[k] % 64)
    IN  code[last]

Characters(narrow) ==
    LET LastOf(i) == LET last == i + Lead(narrow[i]).extra
                   IN  IF last > Len(narrow) THEN Len(narrow) ELSE last
        converted[i \in 1..Len(narrow) + 1] ==
            IF i > Len(narrow) THEN <<>>
            ELSE <<Code(narrow, i, LastOf(i))>> \o converted[LastOf(i) + 1]
    IN  converted[1]

MultiByteToWideChar(narrow, outSize) == Copied(Characters(narrow), outSize)

-----------------------------------------------------------------------------
(* Properties *)

\* What a wide string holds.
Units == {u \in Nat : u < 65536}

\* A caller that asks for the size, allocates it and converts gets all of the
\* text, and the way back gives the text it started from, through either side's
\* size.
ConvertsBack(wide) ==
    LET size == WideCharToMultiByte(wide, 0).count
        narrow == WideCharToMultiByte(wide, size).out
        sizeBack == MultiByteToWideChar(narrow, 0).count
    IN  /\ Len(narrow) = size /\ \A i \in DOMAIN narrow : narrow[i] \in 0..255
        /\ MultiByteToWideChar(narrow, sizeBack).out = wide
=============================================================================
