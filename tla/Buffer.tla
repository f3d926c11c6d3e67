-------------------------------- MODULE Buffer --------------------------------
(***************************************************************************)
(* Buffer of server.hpp: a vector of bytes with a read and a write offset. *)
(* A write that does not fit behind the write offset moves the readable    *)
(* bytes to the front, or grows the vector when that would not do.         *)
(***************************************************************************)
EXTENDS Naturals, Sequences

CONSTANTS
    Byte,
    Newline,        \* '\n'
    Zero,           \* what resize appends
    Fill,           \* '0', what ReadAsString starts from
    DefaultSize,    \* BUFFER_DEFAULT_SIZE
    Data,           \* what callers write
    Length,         \* what callers ask for
    MaxReadable     \* bound: bytes waiting to be read

ASSUME ByteAssumption == {Newline, Zero, Fill} \subseteq Byte
ASSUME DefaultSizeAssumption == DefaultSize \in Nat
ASSUME DataAssumption == Data \subseteq Seq(Byte)
ASSUME LengthAssumption == Length \subseteq Nat
ASSUME MaxReadableAssumption == MaxReadable \in Nat

VARIABLES
    buffer,     \* _buffer, indexed from 0
    size,       \* _buffer.size()
    read_idx,   \* _read_idx
    write_idx,  \* _write_idx
    last,       \* the last call and the bytes it moved
    peak        \* history: the most bytes that were ever readable

vars == <<buffer, size, read_idx, write_idx, last, peak>>

Call(op, bytes) == [op |-> op, bytes |-> bytes]

Init ==
    /\ size = DefaultSize
    /\ buffer = [i \in 0 .. DefaultSize - 1 |-> Zero]
    /\ read_idx = 0 /\ write_idx = 0
    /\ last = Call("none", <<>>)
    /\ peak = 0

TailIdleSize == size - write_idx
HeadIdleSize == read_idx
ReadableSize == write_idx - read_idx

\* The first n bytes from ReadPosition.
Bytes(n) == [i \in 1 .. n |-> buffer[read_idx + i - 1]]

-----------------------------------------------------------------------------
(* Writing.                                                                *)

\* What EnsureWriteSpace may leave: nothing moved,
Unmoved == [buffer |-> buffer, size |-> size, read |-> read_idx, write |-> write_idx]

\* the readable bytes copied to the front (those behind them stay),
Moved ==
    [Unmoved EXCEPT
        !.buffer = [i \in 0 .. size - 1 |->
                        IF i < ReadableSize THEN buffer[read_idx + i] ELSE buffer[i]],
        !.read = 0, !.write = ReadableSize]

\* or the vector resized so that len bytes just fit.
Grown(len) ==
    [Unmoved EXCEPT
        !.buffer = [i \in 0 .. write_idx + len - 1 |-> IF i < size THEN buffer[i] ELSE Zero],
        !.size = write_idx + len]

\* Mutant: the head is never reclaimed.
EnsureByGrowing(len) == IF len <= TailIdleSize THEN Unmoved ELSE Grown(len)

EnsureWriteSpace(len) ==
    CASE len <= TailIdleSize -> Unmoved
      [] len > TailIdleSize /\ len <= HeadIdleSize + TailIdleSize -> Moved
      [] len > HeadIdleSize + TailIdleSize -> Grown(len)

\* d copied into b at its write offset.
Copied(b, d) ==
    [i \in 0 .. b.size - 1 |->
        IF b.write <= i /\ i < b.write + Len(d) THEN d[i - b.write + 1] ELSE b.buffer[i]]

Larger(m, n) == IF m < n THEN n ELSE m

Write(d) ==
    /\ ReadableSize + Len(d) <= MaxReadable
    /\ LET b == EnsureWriteSpace(Len(d))
       IN  IF d = <<>>
           THEN UNCHANGED <<buffer, size, read_idx, write_idx>>
           ELSE /\ buffer' = Copied(b, d)
                /\ size' = b.size
                /\ read_idx' = b.read
                /\ write_idx' = b.write + Len(d)
    /\ last' = Call("write", d)
    /\ peak' = Larger(peak, ReadableSize + Len(d))

-----------------------------------------------------------------------------
(* Reading.                                                                *)

\* n bytes leave the buffer.
Consume(op, n) ==
    /\ read_idx' = read_idx + n
    /\ last' = Call(op, Bytes(n))
    /\ UNCHANGED <<buffer, size, write_idx, peak>>

\* Read refuses a length above ReadableSize: the string keeps its filling.
ReadAsString(len) ==
    \/ len <= ReadableSize /\ Consume("read", len)
    \/ /\ len > ReadableSize
       /\ last' = Call("read", [i \in 1 .. len |-> Fill])
       /\ UNCHANGED <<buffer, size, read_idx, write_idx, peak>>

\* Mutant: memchr runs over the bytes behind the write offset too.
FindBeyond(n) ==
    /\ n \in 1 .. size - read_idx
    /\ Bytes(n)[n] = Newline
    /\ \A j \in 1 .. n - 1 : Bytes(n)[j] # Newline

\* memchr: the first newline among the readable bytes is the n-th.
FindCRLF(n) ==
    /\ n \in 1 .. ReadableSize
    /\ Bytes(n)[n] = Newline
    /\ \A j \in 1 .. n - 1 : Bytes(n)[j] # Newline

\* The line with its newline, or nothing.
Getline ==
    \/ \E n \in 1 .. size : FindCRLF(n) /\ Consume("line", n)
    \/ /\ \A n \in 1 .. size : ~FindCRLF(n)
       /\ last' = Call("line", <<>>)
       /\ UNCHANGED <<buffer, size, read_idx, write_idx, peak>>

\* Mutant: the assertion is off by one.
MoveUnchecked(len) ==
    /\ len <= ReadableSize + 1
    /\ Consume("drop", len)

\* Its assertion is the guard: every caller passes at most ReadableSize.
MoveReadOffset(len) ==
    /\ len <= ReadableSize
    /\ Consume("drop", len)

Clear ==
    /\ read_idx' = 0 /\ write_idx' = 0
    /\ last' = Call("drop", Bytes(ReadableSize))
    /\ UNCHANGED <<buffer, size, peak>>

Next ==
    \/ \E d \in Data : Write(d)
    \/ \E len \in Length : ReadAsString(len) \/ MoveReadOffset(len)
    \/ Getline
    \/ Clear

Spec == Init /\ [][Next]_vars

-----------------------------------------------------------------------------
(* Properties.                                                             *)

\* The types of the variables; the offsets are in order and inside the vector.
TypeOK ==
    /\ size \in Nat /\ read_idx \in Nat /\ write_idx \in Nat /\ peak \in Nat
    /\ read_idx <= write_idx /\ write_idx <= size
    /\ buffer \in [0 .. size - 1 -> Byte]
    /\ last \in [op : {"none", "write", "read", "line", "drop"}, bytes : Seq(Byte)]

\* The vector grows no further than what had to be readable at once requires, however
\* long the buffer is used: EnsureWriteSpace reclaims the head before it grows.
GrowthBounded == size <= DefaultSize \/ size < 2 * peak

\* The bytes written come out in order, whatever is moved and grown.
Content == Bytes(ReadableSize)

Queue == INSTANCE ByteQueue WITH content <- Content

ImplementsByteQueue == Queue!Init /\ [][Queue!Next]_<<Content, last>>
=============================================================================
