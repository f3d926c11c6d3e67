---------------------------- MODULE Buffer_proofs ----------------------------
(***************************************************************************)
(* Proofs about Buffer, for every alphabet, initial size and set of        *)
(* strings: the offsets stay in order, the vector grows no further than it *)
(* must, and the bytes come out as they were written.                      *)
(***************************************************************************)
EXTENDS Buffer, SequenceTheorems, TLAPS

\* What EnsureWriteSpace owes its caller: the same readable bytes, and room for len more.
Room(b, len) ==
    /\ b.size \in Nat /\ b.read \in Nat /\ b.write \in Nat
    /\ b.read <= b.write /\ b.write + len <= b.size
    /\ b.write - b.read = ReadableSize
    /\ b.buffer \in [0 .. b.size - 1 -> Byte]
    /\ \A i \in 0 .. ReadableSize - 1 : b.buffer[b.read + i] = buffer[read_idx + i]

\* EnsureWriteSpace takes one of three ways.
LEMMA OneWay ==
  ASSUME TypeOK, NEW len \in Nat
  PROVE  /\ len <= TailIdleSize => EnsureWriteSpace(len) = Unmoved
         /\ len > TailIdleSize /\ len <= HeadIdleSize + TailIdleSize =>
                EnsureWriteSpace(len) = Moved
         /\ len > TailIdleSize /\ len > HeadIdleSize + TailIdleSize =>
                EnsureWriteSpace(len) = Grown(len)
<1>1. PICK h \in Nat, t \in Nat : HeadIdleSize = h /\ TailIdleSize = t
  BY DEF TypeOK, HeadIdleSize, TailIdleSize
<1>2. CASE len <= t
  BY <1>1, <1>2 DEF EnsureWriteSpace
<1>3. CASE len > t /\ len <= h + t
  BY <1>1, <1>3 DEF EnsureWriteSpace
<1>4. CASE len > t /\ len > h + t
  BY <1>1, <1>4 DEF EnsureWriteSpace
<1> QED
  BY <1>1, <1>2, <1>3, <1>4

\* EnsureWriteSpace makes room, whichever way it takes.
LEMMA EnsureMakesRoom ==
  ASSUME TypeOK, NEW len \in Nat
  PROVE  Room(EnsureWriteSpace(len), len)
<1> USE DEF TypeOK
<1>1. CASE len <= TailIdleSize
  <2>1. Room(Unmoved, len)
    BY <1>1 DEF Room, Unmoved, TailIdleSize, ReadableSize
  <2> QED
    BY <1>1, <2>1, OneWay
<1>2. CASE len > TailIdleSize /\ len <= HeadIdleSize + TailIdleSize
  <2>1. Moved.buffer = [i \in 0 .. size - 1 |->
                            IF i < ReadableSize THEN buffer[read_idx + i] ELSE buffer[i]]
    BY DEF Moved, Unmoved
  <2>2. Moved.size = size /\ Moved.read = 0 /\ Moved.write = ReadableSize
    BY DEF Moved, Unmoved
  <2>3. \A i \in 0 .. size - 1 : i < ReadableSize => read_idx + i \in 0 .. size - 1
    BY DEF ReadableSize
  <2>4. Moved.buffer \in [0 .. size - 1 -> Byte]
    BY <2>1, <2>3
  <2>5. \A i \in 0 .. ReadableSize - 1 : Moved.buffer[0 + i] = buffer[read_idx + i]
    BY <2>1 DEF ReadableSize
  <2>6. ReadableSize \in Nat /\ ReadableSize + len <= size
    BY <1>2 DEF ReadableSize, HeadIdleSize, TailIdleSize
  <2>7. Room(Moved, len)
    BY <2>2, <2>4, <2>5, <2>6 DEF Room
  <2> QED
    BY <1>2, <2>7, OneWay
<1>3. CASE len > TailIdleSize /\ len > HeadIdleSize + TailIdleSize
  <2>1. Grown(len).buffer = [i \in 0 .. write_idx + len - 1 |->
                                IF i < size THEN buffer[i] ELSE Zero]
    BY DEF Grown, Unmoved
  <2>2. Grown(len).size = write_idx + len /\ Grown(len).read = read_idx
        /\ Grown(len).write = write_idx
    BY DEF Grown, Unmoved
  <2>3. Grown(len).buffer \in [0 .. write_idx + len - 1 -> Byte]
    BY <2>1, ByteAssumption
  <2>4. \A i \in 0 .. ReadableSize - 1 : Grown(len).buffer[read_idx + i] = buffer[read_idx + i]
    BY <2>1 DEF ReadableSize
  <2>5. Room(Grown(len), len)
    BY <2>2, <2>3, <2>4 DEF Room, ReadableSize
  <2> QED
    BY <1>3, <2>5, OneWay
<1> QED
  BY <1>1, <1>2, <1>3 DEF HeadIdleSize, TailIdleSize

\* Copying d behind the write offset keeps the vector a vector and the readable bytes.
LEMMA CopiedBytes ==
  ASSUME TypeOK, NEW d \in Seq(Byte), NEW b, Room(b, Len(d))
  PROVE  /\ Copied(b, d) \in [0 .. b.size - 1 -> Byte]
         /\ \A i \in 0 .. ReadableSize - 1 : Copied(b, d)[b.read + i] = buffer[read_idx + i]
         /\ \A i \in 1 .. Len(d) : Copied(b, d)[b.write + i - 1] = d[i]
<1>1. Len(d) \in Nat /\ \A i \in 1 .. Len(d) : d[i] \in Byte
  OBVIOUS
<1>2. PICK sz \in Nat, rd \in Nat, wr \in Nat :
        /\ b.size = sz /\ b.read = rd /\ b.write = wr
        /\ rd <= wr /\ wr + Len(d) <= sz /\ wr - rd = ReadableSize
        /\ b.buffer \in [0 .. sz - 1 -> Byte]
  BY DEF Room
<1>3. Copied(b, d) = [i \in 0 .. sz - 1 |->
        IF wr <= i /\ i < wr + Len(d) THEN d[i - wr + 1] ELSE b.buffer[i]]
  BY <1>2 DEF Copied
<1>4. \A i \in 0 .. sz - 1 : wr <= i /\ i < wr + Len(d) => i - wr + 1 \in 1 .. Len(d)
  BY <1>1
<1>5. Copied(b, d) \in [0 .. sz - 1 -> Byte]
  BY <1>1, <1>2, <1>3, <1>4
<1>6. \A i \in 0 .. ReadableSize - 1 : Copied(b, d)[rd + i] = b.buffer[rd + i]
  BY <1>1, <1>2, <1>3
<1>7. \A i \in 1 .. Len(d) : Copied(b, d)[wr + i - 1] = d[i]
  BY <1>1, <1>2, <1>3
<1> QED
  BY <1>2, <1>5, <1>6, <1>7 DEF Room

\* The bytes from ReadPosition form a string.
LEMMA BytesAreBytes ==
  ASSUME TypeOK, NEW n \in Nat, n <= ReadableSize
  PROVE  /\ Bytes(n) \in Seq(Byte)
         /\ Len(Bytes(n)) = n
         /\ \A i \in 1 .. n : Bytes(n)[i] = buffer[read_idx + i - 1]
<1>1. \A i \in 1 .. n : read_idx + i - 1 \in 0 .. size - 1
  BY DEF TypeOK, ReadableSize
<1>2. \A i \in 1 .. n : buffer[read_idx + i - 1] \in Byte
  BY <1>1 DEF TypeOK
<1> QED
  BY <1>2 DEF Bytes

\* Reading moves the read offset by at most ReadableSize.
LEMMA ConsumeType ==
  ASSUME TypeOK, NEW op \in {"read", "line", "drop"}, NEW n \in Nat, n <= ReadableSize,
         Consume(op, n)
  PROVE  TypeOK'
<1>1. Bytes(n) \in Seq(Byte)
  BY BytesAreBytes
<1>2. last' \in [op : {"none", "write", "read", "line", "drop"}, bytes : Seq(Byte)]
  BY <1>1 DEF Consume, Call
<1>3. read_idx' \in Nat /\ read_idx' <= write_idx
  BY DEF Consume, TypeOK, ReadableSize
<1> QED
  BY <1>2, <1>3 DEF Consume, TypeOK

\* A write keeps the types.
LEMMA WriteType ==
  ASSUME TypeOK, NEW d \in Data, Write(d)
  PROVE  TypeOK'
<1>1. d \in Seq(Byte) /\ Len(d) \in Nat
  BY DataAssumption
<1>2. last' \in [op : {"none", "write", "read", "line", "drop"}, bytes : Seq(Byte)]
  BY <1>1 DEF Write, Call
<1>3. peak' \in Nat
  BY <1>1 DEF Write, Larger, ReadableSize, TypeOK
<1>4. CASE d = <<>>
  BY <1>2, <1>3, <1>4 DEF Write, TypeOK
<1>5. CASE d # <<>>
  <2> DEFINE b == EnsureWriteSpace(Len(d))
  <2>1. Room(b, Len(d))
    BY <1>1, EnsureMakesRoom
  <2>2. Copied(b, d) \in [0 .. b.size - 1 -> Byte]
    BY <1>1, <2>1, CopiedBytes
  <2>3. /\ buffer' = Copied(b, d) /\ size' = b.size
        /\ read_idx' = b.read /\ write_idx' = b.write + Len(d)
    BY <1>5 DEF Write
  <2>4. b.size \in Nat /\ b.read \in Nat /\ b.write \in Nat
        /\ b.read <= b.write /\ b.write + Len(d) <= b.size
    BY <2>1 DEF Room
  <2> HIDE DEF b
  <2>5. size' \in Nat /\ read_idx' \in Nat /\ write_idx' \in Nat
        /\ read_idx' <= write_idx' /\ write_idx' <= size'
    BY <1>1, <2>3, <2>4
  <2> QED
    BY <1>2, <1>3, <2>2, <2>3, <2>5 DEF TypeOK
<1> QED
  BY <1>4, <1>5

\* The types of the variables; 0 <= _read_idx <= _write_idx <= size in every state.
THEOREM TypeCorrect == Spec => []TypeOK
<1>1. Init => TypeOK
  BY DefaultSizeAssumption, ByteAssumption DEF Init, TypeOK, Call
<1>2. TypeOK /\ [Next]_vars => TypeOK'
  <2> SUFFICES ASSUME TypeOK, [Next]_vars PROVE TypeOK'
    OBVIOUS
  <2>1. ASSUME NEW d \in Data, Write(d) PROVE TypeOK'
    BY <2>1, WriteType
  <2>2. ASSUME NEW len \in Length, ReadAsString(len) PROVE TypeOK'
    <3>1. len \in Nat
      BY LengthAssumption
    <3>2. CASE len <= ReadableSize /\ Consume("read", len)
      BY <3>1, <3>2, ConsumeType
    <3>3. CASE last' = Call("read", [i \in 1 .. len |-> Fill])
               /\ UNCHANGED <<buffer, size, read_idx, write_idx, peak>>
      <4>1. [i \in 1 .. len |-> Fill] \in Seq(Byte)
        BY <3>1, ByteAssumption
      <4> QED
        BY <3>3, <4>1 DEF TypeOK, Call
    <3> QED
      BY <2>2, <3>2, <3>3 DEF ReadAsString
  <2>3. ASSUME NEW len \in Length, MoveReadOffset(len) PROVE TypeOK'
    BY <2>3, LengthAssumption, ConsumeType DEF MoveReadOffset
  <2>4. CASE Getline
    <3>1. ASSUME NEW n \in 1 .. size, FindCRLF(n), Consume("line", n) PROVE TypeOK'
      <4>1. n \in Nat /\ n <= ReadableSize
        BY <3>1 DEF FindCRLF, ReadableSize, TypeOK
      <4> QED
        BY <3>1, <4>1, ConsumeType
    <3>2. CASE last' = Call("line", <<>>)
               /\ UNCHANGED <<buffer, size, read_idx, write_idx, peak>>
      BY <3>2 DEF TypeOK, Call
    <3> QED
      BY <2>4, <3>1, <3>2 DEF Getline
  <2>5. CASE Clear
    <3>1. ReadableSize \in Nat
      BY DEF TypeOK, ReadableSize
    <3>2. Bytes(ReadableSize) \in Seq(Byte)
      BY <3>1, BytesAreBytes
    <3> QED
      BY <2>5, <3>2 DEF Clear, TypeOK, Call
  <2>6. CASE UNCHANGED vars
    BY <2>6 DEF vars, TypeOK
  <2> QED
    BY <2>1, <2>2, <2>3, <2>4, <2>5, <2>6 DEF Next
<1> QED
  BY <1>1, <1>2, PTL DEF Spec

-----------------------------------------------------------------------------
(* Growth.                                                                 *)

\* What is less than twice m is less than twice any larger n.
LEMMA Twice == \A s, m, n \in Nat : s < 2 * m /\ m <= n => s < 2 * n
OBVIOUS

\* The vector grows only when the readable bytes and the new ones exceed what it has,
\* so it never needs twice the most that was readable.
THEOREM GrowthIsBounded == Spec => []GrowthBounded
<1>1. Init => GrowthBounded
  BY DefaultSizeAssumption DEF Init, GrowthBounded
<1>2. TypeOK /\ GrowthBounded /\ [Next]_vars => GrowthBounded'
  <2> SUFFICES ASSUME TypeOK, GrowthBounded, [Next]_vars PROVE GrowthBounded'
    OBVIOUS
  <2>1. ASSUME NEW d \in Data, Write(d) PROVE GrowthBounded'
    <3>1. d \in Seq(Byte) /\ Len(d) \in Nat
      BY DataAssumption
    <3>2. peak' >= peak /\ peak' >= ReadableSize + Len(d) /\ peak' \in Nat
      BY <2>1, <3>1 DEF Write, Larger, TypeOK, ReadableSize
    <3>3. CASE size' = size
      <4>1. size \in Nat /\ peak \in Nat /\ (size <= DefaultSize \/ size < 2 * peak)
        BY DEF GrowthBounded, TypeOK
      <4>2. PICK p \in Nat : p = peak' /\ p >= peak
        BY <3>2
      <4>3. size < 2 * peak => size < 2 * p
        BY <4>1, <4>2, Twice
      <4> QED
        BY <3>3, <4>1, <4>2, <4>3 DEF GrowthBounded
    <3>4. CASE size' = write_idx + Len(d) /\ Len(d) > HeadIdleSize + TailIdleSize
      BY <3>1, <3>2, <3>4 DEF GrowthBounded, TypeOK, ReadableSize, HeadIdleSize, TailIdleSize
    <3>5. EnsureWriteSpace(Len(d)).size = size
          \/ /\ EnsureWriteSpace(Len(d)).size = write_idx + Len(d)
             /\ Len(d) > HeadIdleSize + TailIdleSize
      <4>1. Unmoved.size = size /\ Moved.size = size
            /\ Grown(Len(d)).size = write_idx + Len(d)
        BY DEF Unmoved, Moved, Grown
      <4>2. \/ Len(d) <= TailIdleSize
            \/ Len(d) > TailIdleSize /\ Len(d) <= HeadIdleSize + TailIdleSize
            \/ Len(d) > TailIdleSize /\ Len(d) > HeadIdleSize + TailIdleSize
        BY <3>1 DEF HeadIdleSize, TailIdleSize, TypeOK
      <4> QED
        BY <3>1, <4>1, <4>2, OneWay
    <3> QED
      BY <2>1, <3>3, <3>4, <3>5 DEF Write
  <2>2. CASE UNCHANGED <<size, peak>>
    BY <2>2 DEF GrowthBounded
  <2> QED
    BY <2>1, <2>2 DEF Next, vars, ReadAsString, MoveReadOffset, Getline, Clear, Consume
<1> QED
  BY <1>1, <1>2, TypeCorrect, PTL DEF Spec

-----------------------------------------------------------------------------
(* Every call is the call of a queue of bytes.                             *)

\* Dropping the first n of the readable bytes.
LEMMA DropBytes ==
  ASSUME TypeOK, NEW n \in Nat, n <= ReadableSize,
         read_idx' = read_idx + n, UNCHANGED <<buffer, write_idx>>
  PROVE  /\ Len(Content) = ReadableSize
         /\ Bytes(n) = SubSeq(Content, 1, n)
         /\ Content' = SubSeq(Content, n + 1, Len(Content))
<1>1. PICK r \in Nat : r = ReadableSize
  BY DEF TypeOK, ReadableSize
<1>2. /\ Content \in Seq(Byte) /\ Len(Content) = r
      /\ \A i \in 1 .. r : Content[i] = buffer[read_idx + i - 1]
  BY <1>1, BytesAreBytes DEF Content
<1>3. ReadableSize' = r - n /\ r - n \in Nat
  BY <1>1 DEF ReadableSize, TypeOK
<1>4. Content' = [i \in 1 .. r - n |-> buffer[read_idx + n + i - 1]]
  BY <1>3 DEF Content, Bytes
<1>5. Bytes(n) = SubSeq(Content, 1, n)
  <2>1. /\ SubSeq(Content, 1, n) \in Seq(Byte) /\ Len(SubSeq(Content, 1, n)) = n
        /\ \A i \in 1 .. n : SubSeq(Content, 1, n)[i] = Content[i]
    BY <1>1, <1>2
  <2>2. /\ Bytes(n) \in Seq(Byte) /\ Len(Bytes(n)) = n
        /\ \A i \in 1 .. n : Bytes(n)[i] = buffer[read_idx + i - 1]
    BY BytesAreBytes
  <2>3. \A i \in 1 .. n : i \in 1 .. r
    BY <1>1
  <2> QED
    BY <1>2, <2>1, <2>2, <2>3, SeqEqual
<1>6. Content' = SubSeq(Content, n + 1, r)
  <2>1. /\ SubSeq(Content, n + 1, r) \in Seq(Byte) /\ Len(SubSeq(Content, n + 1, r)) = r - n
        /\ \A i \in 1 .. r - n : SubSeq(Content, n + 1, r)[i] = Content[n + i]
    BY <1>1, <1>2, <1>3
  <2>2. \A i \in 1 .. r - n : n + i \in 1 .. r /\ read_idx + n + i - 1 = read_idx + (n + i) - 1
    BY <1>1, <1>3 DEF TypeOK
  <2>3. \A i \in 1 .. r - n : Content'[i] = Content[n + i]
    BY <1>2, <1>4, <2>2
  <2>4. \A i \in 1 .. r - n : Content[n + i] \in Byte
    BY <1>2, <2>2
  <2>5. Content' \in Seq(Byte) /\ Len(Content') = r - n
    BY <1>3, <1>4, <2>3, <2>4
  <2> QED
    BY <2>1, <2>3, <2>5, SeqEqual
<1> QED
  BY <1>1, <1>2, <1>5, <1>6

\* Writing appends.
LEMMA WriteAppends ==
  ASSUME TypeOK, NEW d \in Data, Write(d)
  PROVE  Content' = Content \o d
<1>1. d \in Seq(Byte) /\ Len(d) \in Nat
  BY DataAssumption
<1>2. PICK r \in Nat : r = ReadableSize
  BY DEF TypeOK, ReadableSize
<1>3. /\ Content \in Seq(Byte) /\ Len(Content) = r
      /\ \A i \in 1 .. r : Content[i] = buffer[read_idx + i - 1]
  BY <1>2, BytesAreBytes DEF Content
<1>4. CASE d = <<>>
  <2>1. Content' = Content
    BY <1>4 DEF Write, Content, Bytes, ReadableSize
  <2> QED
    BY <1>3, <1>4, <2>1
<1>5. CASE d # <<>>
  <2>1. PICK b : b = EnsureWriteSpace(Len(d))
    OBVIOUS
  <2>2. Room(b, Len(d))
    BY <1>1, <2>1, EnsureMakesRoom
  <2>3. PICK sz \in Nat, rd \in Nat, wr \in Nat :
           b.size = sz /\ b.read = rd /\ b.write = wr /\ rd <= wr /\ wr - rd = r
    BY <1>2, <2>2 DEF Room
  <2>4. buffer' = Copied(b, d) /\ read_idx' = rd /\ write_idx' = wr + Len(d)
    BY <1>5, <2>1, <2>3 DEF Write
  <2>5. ReadableSize' = r + Len(d)
    BY <1>1, <2>3, <2>4 DEF ReadableSize
  <2>6. Content' = [i \in 1 .. r + Len(d) |-> Copied(b, d)[rd + i - 1]]
    BY <2>4, <2>5 DEF Content, Bytes
  <2>7. /\ \A i \in 0 .. r - 1 : Copied(b, d)[rd + i] = buffer[read_idx + i]
        /\ \A i \in 1 .. Len(d) : Copied(b, d)[wr + i - 1] = d[i]
    BY <1>1, <1>2, <2>2, <2>3, CopiedBytes
  <2>8. \A i \in 1 .. r : Content'[i] = Content[i]
    <3> SUFFICES ASSUME NEW i \in 1 .. r PROVE Content'[i] = Content[i]
      OBVIOUS
    <3>1. i - 1 \in 0 .. r - 1 /\ i \in 1 .. r + Len(d)
          /\ rd + (i - 1) = rd + i - 1 /\ read_idx + (i - 1) = read_idx + i - 1
      BY <1>1, <1>2, <2>3 DEF TypeOK
    <3>2. Copied(b, d)[rd + (i - 1)] = buffer[read_idx + (i - 1)]
      BY <2>7, <3>1
    <3> QED
      BY <1>3, <2>6, <3>1, <3>2
  <2>9. \A i \in r + 1 .. r + Len(d) : Content'[i] = d[i - r]
    <3> SUFFICES ASSUME NEW i \in r + 1 .. r + Len(d) PROVE Content'[i] = d[i - r]
      OBVIOUS
    <3>1. i - r \in 1 .. Len(d) /\ i \in 1 .. r + Len(d) /\ wr + (i - r) - 1 = rd + i - 1
      BY <1>1, <1>2, <2>3
    <3>2. Copied(b, d)[wr + (i - r) - 1] = d[i - r]
      BY <2>7, <3>1
    <3> QED
      BY <2>6, <3>1, <3>2
  <2>10. /\ Content \o d \in Seq(Byte) /\ Len(Content \o d) = r + Len(d)
         /\ \A i \in 1 .. r + Len(d) :
               (Content \o d)[i] = IF i <= r THEN Content[i] ELSE d[i - r]
    BY <1>1, <1>3, ConcatProperties
  <2>11. \A i \in 1 .. r + Len(d) : Content'[i] = (Content \o d)[i]
    <3> SUFFICES ASSUME NEW i \in 1 .. r + Len(d) PROVE Content'[i] = (Content \o d)[i]
      OBVIOUS
    <3>1. CASE i \in 1 .. r
      <4>1. i <= r
        BY <1>2, <3>1
      <4> QED
        BY <2>8, <2>10, <3>1, <4>1
    <3>2. CASE i \in r + 1 .. r + Len(d)
      <4>1. ~(i <= r)
        BY <1>1, <1>2, <3>2
      <4> QED
        BY <2>9, <2>10, <3>2, <4>1
    <3>3. i \in 1 .. r \/ i \in r + 1 .. r + Len(d)
      BY <1>1, <1>2
    <3> QED
      BY <3>1, <3>2, <3>3
  <2>12. Content' \in Seq(Byte) /\ Len(Content') = r + Len(d)
    <3>1. \A i \in 1 .. r + Len(d) : Content'[i] \in Byte
      BY <2>10, <2>11
    <3>2. Content' \in [1 .. r + Len(d) -> Byte]
      BY <2>6, <3>1
    <3>3. r + Len(d) \in Nat
      BY <1>1, <1>2
    <3> QED
      BY <3>2, <3>3
  <2> QED
    BY <2>10, <2>11, <2>12, SeqEqual
<1> QED
  BY <1>4, <1>5

\* The first newline among the readable bytes ends the first line of the queue.
LEMMA LineFound ==
  ASSUME TypeOK
  PROVE  /\ Len(Content) = ReadableSize /\ ReadableSize \in Nat /\ ReadableSize <= size
         /\ \A n \in 1 .. ReadableSize : FindCRLF(n) <=> Queue!Line(n)
         /\ \A n : FindCRLF(n) => n \in 1 .. ReadableSize
<1>1. PICK r \in Nat : r = ReadableSize /\ r <= size
  BY DEF TypeOK, ReadableSize
<1>2. /\ Len(Content) = r
      /\ \A i \in 1 .. r : Content[i] = buffer[read_idx + i - 1]
  BY <1>1, BytesAreBytes DEF Content
<1>3. \A n \in 1 .. r : FindCRLF(n) <=> Queue!Line(n)
  <2> SUFFICES ASSUME NEW n \in 1 .. r PROVE FindCRLF(n) <=> Queue!Line(n)
    OBVIOUS
  <2>1. \A i \in 1 .. n : Bytes(n)[i] = Content[i]
    BY <1>1, <1>2 DEF Bytes
  <2>2. n \in 1 .. n /\ \A j \in 1 .. n - 1 : j \in 1 .. n
    OBVIOUS
  <2> QED
    BY <1>1, <2>1, <2>2 DEF FindCRLF, Queue!Line
<1> QED
  BY <1>1, <1>2, <1>3 DEF FindCRLF

\* Taking n readable bytes is dropping them from the queue.
LEMMA ConsumeDrops ==
  ASSUME TypeOK, NEW op, NEW n \in Nat, n <= ReadableSize, Consume(op, n)
  PROVE  /\ n <= Len(Content) /\ Queue!Drop(n)
         /\ last' = Queue!Call(op, SubSeq(Content, 1, n))
<1>1. read_idx' = read_idx + n /\ UNCHANGED <<buffer, write_idx>>
      /\ last' = Call(op, Bytes(n))
  BY DEF Consume
<1>2. /\ Len(Content) = ReadableSize /\ Bytes(n) = SubSeq(Content, 1, n)
      /\ Content' = SubSeq(Content, n + 1, Len(Content))
  BY <1>1, DropBytes
<1> QED
  BY <1>1, <1>2 DEF Queue!Drop, Queue!Call, Call

\* A call that changes no index and no byte leaves the queue as it is.
LEMMA ContentKept ==
  ASSUME UNCHANGED <<buffer, size, read_idx, write_idx, peak>>
  PROVE  Content' = Content
BY DEF Content, Bytes, ReadableSize

\* Every step of Buffer is a step of ByteQueue: whatever is moved or grown, the bytes
\* come out in the order in which they were written.
THEOREM StepsImplementByteQueue == Spec => ImplementsByteQueue
<1>1. Init => Queue!Init
  BY DEF Init, Queue!Init, Content, Bytes, ReadableSize, Call, Queue!Call
<1>2. TypeOK /\ [Next]_vars => [Queue!Next]_<<Content, last>>
  <2> SUFFICES ASSUME TypeOK, [Next]_vars PROVE [Queue!Next]_<<Content, last>>
    OBVIOUS
  <2>1. ASSUME NEW d \in Data, Write(d) PROVE Queue!Next
    <3>1. Content' = Content \o d
      BY <2>1, WriteAppends
    <3>2. Queue!Write(d)
      BY <2>1, <3>1 DEF Write, Queue!Write, Call, Queue!Call
    <3> QED
      BY <3>2 DEF Queue!Next
  <2>2. ASSUME NEW len \in Length, ReadAsString(len) PROVE Queue!Next
    <3>1. len \in Nat /\ Len(Content) = ReadableSize
      BY LengthAssumption, LineFound
    <3>2. CASE len <= ReadableSize /\ Consume("read", len)
      <4>1. Queue!Read(len)
        BY <3>1, <3>2, ConsumeDrops DEF Queue!Read
      <4> QED
        BY <4>1 DEF Queue!Next
    <3>3. CASE /\ len > ReadableSize
               /\ last' = Call("read", [i \in 1 .. len |-> Fill])
               /\ UNCHANGED <<buffer, size, read_idx, write_idx, peak>>
      <4>1. Queue!ReadTooMuch(len)
        BY <3>1, <3>3, ContentKept DEF Queue!ReadTooMuch, Call, Queue!Call
      <4> QED
        BY <4>1 DEF Queue!Next
    <3> QED
      BY <2>2, <3>2, <3>3 DEF ReadAsString
  <2>3. ASSUME NEW len \in Length, MoveReadOffset(len) PROVE Queue!Next
    <3>1. Queue!MoveReadOffset(len)
      BY <2>3, LengthAssumption, ConsumeDrops DEF MoveReadOffset, Queue!MoveReadOffset
    <3> QED
      BY <3>1 DEF Queue!Next
  <2>4. CASE Getline
    <3>1. ASSUME NEW n \in 1 .. size, FindCRLF(n), Consume("line", n) PROVE Queue!Getline
      <4>1. n \in 1 .. ReadableSize /\ n \in Nat /\ n <= ReadableSize
        BY <3>1, LineFound
      <4>2. n \in 1 .. Len(Content) /\ Queue!Line(n)
        BY <3>1, <4>1, LineFound
      <4> QED
        BY <3>1, <4>1, <4>2, ConsumeDrops DEF Queue!Getline
    <3>2. ASSUME \A n \in 1 .. size : ~FindCRLF(n), last' = Call("line", <<>>),
                 UNCHANGED <<buffer, size, read_idx, write_idx, peak>>
          PROVE  Queue!Getline
      <4>1. \A n \in 1 .. Len(Content) : ~Queue!Line(n)
        <5>1. \A n \in 1 .. ReadableSize : n \in 1 .. size
          BY LineFound DEF TypeOK
        <5> QED
          BY <3>2, <5>1, LineFound
      <4> QED
        BY <3>2, <4>1, ContentKept DEF Queue!Getline, Call, Queue!Call
    <3> QED
      BY <2>4, <3>1, <3>2 DEF Getline, Queue!Next
  <2>5. CASE Clear
    <3>1. ReadableSize \in Nat /\ Bytes(ReadableSize) = Content
      BY LineFound DEF Content
    <3>2. Content' = <<>>
      BY <2>5 DEF Clear, Content, Bytes, ReadableSize
    <3> QED
      BY <2>5, <3>1, <3>2 DEF Clear, Call, Queue!Call, Queue!Clear, Queue!Next
  <2>6. CASE UNCHANGED vars
    BY <2>6 DEF vars, Content, Bytes, ReadableSize
  <2> QED
    BY <2>1, <2>2, <2>3, <2>4, <2>5, <2>6 DEF Next
<1> QED
  BY <1>1, <1>2, TypeCorrect, PTL DEF Spec, ImplementsByteQueue
=============================================================================
