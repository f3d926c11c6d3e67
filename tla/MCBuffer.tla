------------------------------- MODULE MCBuffer -------------------------------
(* Instances of Buffer for TLC: every string of at most MaxWrite bytes. *)
EXTENDS Buffer

CONSTANT MaxWrite   \* bound: bytes of one write

MCData == UNION {[1 .. n -> Byte] : n \in 0 .. MaxWrite}
MCLength == 0 .. MaxReadable + 1
=============================================================================
