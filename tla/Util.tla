-------------------------------- MODULE Util --------------------------------
(***************************************************************************)
(* The functions of class Util of http.hpp that work on texts.  A text is  *)
(* a sequence of bytes; each function walks over it with an index, as the  *)
(* loops of the code do.                                                   *)
(***************************************************************************)
EXTENDS Integers, Sequences, FiniteSetsExt

Byte == 0 .. 255

Space   == 32
Percent == 37
Amp     == 38
Plus    == 43
Dot     == 46
Slash   == 47
Equals  == 61

At(text, b) == {k \in 1 .. Len(text) : text[k] = b}

\* std::string::substr(pos, count), pos counted from 0.
Substr(text, pos, count) == SubSeq(text, pos + 1, Min({Len(text), pos + count}))

\* Where the separator is found from a position on: find returns the first.
Found(src, sep, i) == {k \in At(src, sep) : k >= i}

\* Split, for a separator of one byte, which is all it is called with.  The
\* second argument of substr is the position of the separator, not the length of
\* the piece.
Split(src, sep) ==
    LET from[i \in 1 .. Len(src) + 1] ==
            CASE i > Len(src) -> <<>>
              [] i <= Len(src) /\ Found(src, sep, i) = {} -> <<SubSeq(src, i, Len(src))>>
              [] i \in Found(src, sep, i) -> from[i + 1]
              [] OTHER -> <<Substr(src, i - 1, Min(Found(src, sep, i)) - 1)>>
                          \o from[Min(Found(src, sep, i)) + 1]
    IN  from[1]

-----------------------------------------------------------------------------
IsAlnum(b) == b \in 48 .. 57 \cup 65 .. 90 \cup 97 .. 122

Unreserved(b) == IsAlnum(b) \/ b \in {45, 46, 95, 126}

HexDigit(d) == IF d < 10 THEN 48 + d ELSE 55 + d

\* snprintf of "%%%02X" into four bytes: char is signed, so that a byte above 127
\* prints as %FFFFFFxx, of which three characters are kept.
Escape(b) == IF b < 128 THEN <<Percent, HexDigit(b \div 16), HexDigit(b % 16)>>
                        ELSE <<Percent, 70, 70>>

UrlEncode(url, space_to_plus) ==
    LET from[i \in 1 .. Len(url) + 1] ==
            IF i > Len(url) THEN <<>>
            ELSE (CASE Unreserved(url[i]) -> <<url[i]>>
                    [] url[i] = Space /\ space_to_plus -> <<Plus>>
                    [] OTHER -> Escape(url[i]))
                 \o from[i + 1]
    IN  from[1]

\* A character that is no digit gives -1.
HexToI(c) == CASE c \in 48 .. 57  -> c - 48
               [] c \in 65 .. 70  -> c - 55
               [] c \in 97 .. 102 -> c - 87
               [] OTHER           -> -1

\* Mutants: the character is kept as an int; the last escape of a text is not
\* decoded.
UrlDecodeInt(url, plus_to_space) ==
    LET from[i \in 1 .. Len(url) + 3] ==
            CASE i > Len(url) -> <<>>
              [] i <= Len(url) /\ url[i] = Plus /\ plus_to_space -> <<Space>> \o from[i + 1]
              [] i + 2 <= Len(url) /\ url[i] = Percent ->
                    <<16 * HexToI(url[i + 1]) + HexToI(url[i + 2])>> \o from[i + 3]
              [] OTHER -> <<url[i]>> \o from[i + 1]
    IN  from[1]

UrlDecodeShort(url, plus_to_space) ==
    LET from[i \in 1 .. Len(url) + 3] ==
            CASE i > Len(url) -> <<>>
              [] i <= Len(url) /\ url[i] = Plus /\ plus_to_space -> <<Space>> \o from[i + 1]
              [] i + 2 < Len(url) /\ url[i] = Percent ->
                    <<(16 * HexToI(url[i + 1]) + HexToI(url[i + 2])) % 256>> \o from[i + 3]
              [] OTHER -> <<url[i]>> \o from[i + 1]
    IN  from[1]

\* A percent sign too near the end stands for itself.
UrlDecode(url, plus_to_space) ==
    LET from[i \in 1 .. Len(url) + 3] ==
            CASE i > Len(url) -> <<>>
              [] i <= Len(url) /\ url[i] = Plus /\ plus_to_space -> <<Space>> \o from[i + 1]
              [] i + 2 <= Len(url) /\ url[i] = Percent ->
                    <<(16 * HexToI(url[i + 1]) + HexToI(url[i + 2])) % 256>> \o from[i + 3]
              [] OTHER -> <<url[i]>> \o from[i + 1]
    IN  from[1]

-----------------------------------------------------------------------------
\* Mime, up to the table: the extension from the last dot, or none.
Extension(path) == IF At(path, Dot) = {} THEN <<>>
                   ELSE SubSeq(path, Max(At(path, Dot)), Len(path))

\* ValidPath: the level never falls below that of the base directory.
ValidPath(path) ==
    LET sub == Split(path, Slash)
        level[i \in 0 .. Len(sub)] ==
            IF i = 0 THEN 0
            ELSE level[i - 1] + (IF sub[i] = <<Dot, Dot>> THEN -1 ELSE 1)
    IN  \A i \in 0 .. Len(sub) : level[i] >= 0
=============================================================================
