------------------------------ MODULE ByteQueue ------------------------------
(***************************************************************************)
(* What a Buffer promises: the bytes written come out in order, by number, *)
(* by line, or dropped.  `last' is the last call and the bytes it moved.   *)
(***************************************************************************)
EXTENDS Naturals, Sequences

CONSTANTS
    Data,       \* what callers write
    Length,     \* what callers ask for
    Newline,
    Fill        \* what a caller who asks for too much gets, '0'

VARIABLES content, last

vars == <<content, last>>

Call(op, bytes) == [op |-> op, bytes |-> bytes]

Init == content = <<>> /\ last = Call("none", <<>>)

\* The first k bytes leave the queue.
Drop(k) == content' = SubSeq(content, k + 1, Len(content))

Write(d) ==
    /\ content' = content \o d
    /\ last' = Call("write", d)

Read(k) ==
    /\ k <= Len(content)
    /\ Drop(k)
    /\ last' = Call("read", SubSeq(content, 1, k))

ReadTooMuch(k) ==
    /\ k > Len(content)
    /\ last' = Call("read", [i \in 1 .. k |-> Fill])
    /\ UNCHANGED content

\* The k first bytes are a line.
Line(k) == content[k] = Newline /\ \A j \in 1 .. k - 1 : content[j] # Newline

Getline ==
    \/ \E k \in 1 .. Len(content) :
         /\ Line(k)
         /\ Drop(k)
         /\ last' = Call("line", SubSeq(content, 1, k))
    \/ /\ \A k \in 1 .. Len(content) : ~Line(k)
       /\ last' = Call("line", <<>>)
       /\ UNCHANGED content

MoveReadOffset(k) ==
    /\ k <= Len(content)
    /\ Drop(k)
    /\ last' = Call("drop", SubSeq(content, 1, k))

Clear == content' = <<>> /\ last' = Call("drop", content)

Next ==
    \/ \E d \in Data : Write(d)
    \/ \E k \in Length : Read(k) \/ ReadTooMuch(k) \/ MoveReadOffset(k)
    \/ Getline \/ Clear
=============================================================================
