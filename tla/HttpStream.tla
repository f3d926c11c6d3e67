----------------------------- MODULE HttpStream -----------------------------
(***************************************************************************)
(* The requests in a stream of bytes, when the whole of it is at hand:     *)
(* what HttpContext has to find, however the stream is cut.                *)
(***************************************************************************)
EXTENDS Naturals, Sequences

CONSTANTS
    Resource,       \* texts that request a resource, "GET /hello HTTP/1.1"
    Unknown,        \* the resource of two such texts in one line
    MaxLine,        \* MAX_LINE
    BodyLength      \* the number in the text "Content-Length: <number>"

ASSUME MaxLineAssumption == MaxLine \in Nat
ASSUME BodyLengthAssumption == BodyLength \in Nat

\* Texts stand for the bytes of one item; junk has no ": " in it; eol is '\n' or "\r\n".
Text == Resource \cup {"length", "keep", "header", "junk", "eol"}

\* [^?]* swallows whatever stands between the first and the last such text of a line.
IsRequestLine(t) == t # <<>> /\ t[1] \in Resource /\ t[Len(t)] \in Resource

Target(t) == IF Len(t) = 1 THEN t[1] ELSE Unknown

\* Some part of the line holds ": ".
IsHeader(t) == \E i \in 1 .. Len(t) : t[i] \in {"length", "keep", "header"}

-----------------------------------------------------------------------------
(* The request that starts at position i of the stream s.                  *)

Eols(s, i) == {k \in i .. Len(s) : s[k] = "eol"}

First(S) == CHOOSE k \in S : \A j \in S : k <= j

\* The blank line is an eol right after an eol, past the request line.
Blanks(s, i) == {k \in Eols(s, i + 2) : s[k - 1] = "eol"}

\* The last position of the head as far as it has come.
HeadEnd(s, i) == IF Blanks(s, i) = {} THEN Len(s) ELSE First(Blanks(s, i))

\* The first positions of its lines, the unfinished one included.
Starts(s, i) == {k \in i .. HeadEnd(s, i) : k = i \/ s[k - 1] = "eol"}

\* The line that starts at k, and whether it is finished.
Finished(s, k) == Eols(s, k) # {}
LastOf(s, k) == IF Finished(s, k) THEN First(Eols(s, k)) ELSE Len(s)
LineText(s, k) == SubSeq(s, k, LastOf(s, k) - 1)

TooLong(s, k) == LastOf(s, k) - k + 1 > MaxLine

Wrong(s, i, k) ==
    \/ TooLong(s, k)
    \/ /\ Finished(s, k)
       /\ IF k = i THEN ~IsRequestLine(LineText(s, k))
                   ELSE s[k] # "eol" /\ ~IsHeader(LineText(s, k))

WrongLines(s, i) == {k \in Starts(s, i) : Wrong(s, i, k)}

Faulty(s, i) == WrongLines(s, i) # {}

\* The first wrong line decides the answer.
FaultStatus(s, i) == IF TooLong(s, First(WrongLines(s, i))) THEN 414 ELSE 400

BodySize(s, i) ==
    IF \E k \in Starts(s, i) : k > i /\ s[k] = "length" THEN BodyLength ELSE 0

\* The first Connection header counts.
Keep(s, i) ==
    LET K == {k \in Starts(s, i) : k > i /\ s[k] = "keep"}
    IN  K # {} /\ LineText(s, First(K)) = <<"keep">>

RequestEnd(s, i) == HeadEnd(s, i) + BodySize(s, i)

Complete(s, i) ==
    /\ ~Faulty(s, i)
    /\ Blanks(s, i) # {}
    /\ RequestEnd(s, i) <= Len(s)

RequestAt(s, i) ==
    [resource |-> Target(LineText(s, i)),
     body |-> SubSeq(s, HeadEnd(s, i) + 1, RequestEnd(s, i)),
     keep |-> Keep(s, i)]

\* The complete requests of s up to its first fault, and where what follows them starts.
Requests(s) ==
    LET from[i \in 1 .. Len(s) + 1] ==
            IF Complete(s, i) THEN <<RequestAt(s, i)>> \o from[RequestEnd(s, i) + 1] ELSE <<>>
    IN  from[1]

Remainder(s) ==
    LET from[i \in 1 .. Len(s) + 1] ==
            IF Complete(s, i) THEN from[RequestEnd(s, i) + 1] ELSE i
    IN  from[1]
=============================================================================
