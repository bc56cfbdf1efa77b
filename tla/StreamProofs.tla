---------------------------- MODULE StreamProofs ----------------------------
(***************************************************************************)
(* Stream for every message, size of the buffers and the sockets, and      *)
(* however the bytes are cut on their way.                                 *)
(*                                                                         *)
(* The invariant says where each byte sent is, and where in the bytes sent *)
(* each message begins: the receiver is always at the frame of the first   *)
(* message that is not delivered, so that the header it reads is the one   *)
(* unpack::send wrote.  The lemmas on Buffer ask for the order of indices. *)
(***************************************************************************)
EXTENDS Stream, SequenceTheorems, TLAPS

-----------------------------------------------------------------------------
(* What the operations of Buffer do with the contents, for every size of   *)
(* the vector, of the room in front and of the data.                       *)

\* Bytes cut in two.
LEMMA SplitBytes ==
    ASSUME NEW data \in Seq(Byte), NEW k \in 0 .. Len(data)
    PROVE  /\ SubSeq(data, 1, k) \in Seq(Byte) /\ Len(SubSeq(data, 1, k)) = k
           /\ SubSeq(data, k + 1, Len(data)) \in Seq(Byte)
           /\ Len(SubSeq(data, k + 1, Len(data))) = Len(data) - k
           /\ SubSeq(data, 1, k) \o SubSeq(data, k + 1, Len(data)) = data
<1>1. Len(data) \in Nat /\ k \in Nat /\ k <= Len(data) /\ \A i \in 1 .. Len(data) : data[i] \in Byte
  BY LenProperties, ElementOfSeq
<1>2. /\ SubSeq(data, 1, k) \in Seq(Byte)
      /\ Len(SubSeq(data, 1, k)) = IF 1 <= k THEN k - 1 + 1 ELSE 0
  <2>1. \A i \in 1 .. k : data[i] \in Byte
    BY <1>1
  <2>2. QED  BY <1>1, <2>1, SubSeqProperties
<1>3. /\ SubSeq(data, k + 1, Len(data)) \in Seq(Byte)
      /\ Len(SubSeq(data, k + 1, Len(data))) =
            IF k + 1 <= Len(data) THEN Len(data) - (k + 1) + 1 ELSE 0
  <2>1. \A i \in k + 1 .. Len(data) : data[i] \in Byte
    BY <1>1
  <2>2. QED  BY <1>1, <2>1, SubSeqProperties
<1>4. SubSeq(data, 1, k) \o SubSeq(data, k + 1, Len(data)) = data
  <2>1. 1 \in 1 .. Len(data) + 1 /\ k \in 1 - 1 .. Len(data) /\ Len(data) \in k .. Len(data)
    BY <1>1
  <2>2. SubSeq(data, 1, k) \o SubSeq(data, k + 1, Len(data)) = SubSeq(data, 1, Len(data))
    BY <2>1, ConcatAdjacentSubSeq
  <2>3. QED  BY <2>2, SubSeqFull
<1>5. Len(SubSeq(data, 1, k)) = k /\ Len(SubSeq(data, k + 1, Len(data))) = Len(data) - k
  BY <1>1, <1>2, <1>3
<1>6. QED  BY <1>2, <1>3, <1>4, <1>5

\* The contents of a buffer are the bytes between its indices.
LEMMA ContentsOfBuffer ==
    ASSUME NEW b \in LooseBuffers
    PROVE  /\ Contents(b) \in Seq(Byte)
           /\ Len(Contents(b)) = Readable(b)
           /\ Readable(b) \in Nat /\ Writable(b) \in Nat
           /\ \A i \in 1 .. Readable(b) : Contents(b)[i] = b.buf[b.readIndex + i]
<1>1. /\ b.buf \in Seq(Byte) /\ b.readIndex \in Nat /\ b.writeIndex \in Nat
      /\ b.readIndex <= b.writeIndex /\ b.writeIndex <= Len(b.buf)
      /\ Len(b.buf) \in Nat
  BY LenProperties DEF LooseBuffers
<1>2. \A i \in b.readIndex + 1 .. b.writeIndex : b.buf[i] \in Byte
  BY <1>1, ElementOfSeq
<1>3. b.readIndex + 1 \in Int /\ b.writeIndex \in Int
  BY <1>1
<1>4. /\ SubSeq(b.buf, b.readIndex + 1, b.writeIndex) \in Seq(Byte)
      /\ Len(SubSeq(b.buf, b.readIndex + 1, b.writeIndex)) =
            IF b.readIndex + 1 <= b.writeIndex THEN b.writeIndex - (b.readIndex + 1) + 1 ELSE 0
      /\ \A i \in 1 .. b.writeIndex - (b.readIndex + 1) + 1 :
            SubSeq(b.buf, b.readIndex + 1, b.writeIndex)[i] = b.buf[b.readIndex + 1 + i - 1]
  BY <1>2, <1>3, SubSeqProperties
<1>5. Readable(b) \in Nat /\ Writable(b) \in Nat
  BY <1>1 DEF Readable, Writable
<1>6. Contents(b) \in Seq(Byte) /\ Len(Contents(b)) = Readable(b)
  BY <1>1, <1>4 DEF Contents, Readable
<1>7. ASSUME NEW i \in 1 .. Readable(b)
      PROVE  Contents(b)[i] = b.buf[b.readIndex + i]
  <2>1. i \in 1 .. b.writeIndex - (b.readIndex + 1) + 1 /\ b.readIndex + 1 + i - 1 = b.readIndex + i
    BY <1>1 DEF Readable
  <2>2. QED  BY <1>4, <2>1 DEF Contents
<1>8. QED  BY <1>5, <1>6, <1>7

\* Two buffers have the same contents when they have the same bytes there.
LEMMA SameContents ==
    ASSUME NEW b \in LooseBuffers, NEW s \in Seq(Byte), Len(s) = Readable(b),
           \A i \in 1 .. Readable(b) : b.buf[b.readIndex + i] = s[i]
    PROVE  Contents(b) = s
<1>1. /\ Contents(b) \in Seq(Byte) /\ Len(Contents(b)) = Len(s)
      /\ \A i \in 1 .. Len(Contents(b)) : Contents(b)[i] = s[i]
  BY ContentsOfBuffer
<1>2. QED  BY <1>1, SeqEqual

\* std::copy changes the bytes it writes over and no other.
LEMMA CopyToBytes ==
    ASSUME NEW buf \in Seq(Byte), NEW to \in Nat, NEW data \in Seq(Byte)
    PROVE  /\ CopyTo(buf, to, data) \in Seq(Byte)
           /\ Len(CopyTo(buf, to, data)) = Len(buf)
           /\ \A i \in 1 .. Len(buf) : CopyTo(buf, to, data)[i] =
                 IF to < i /\ i <= to + Len(data) THEN data[i - to] ELSE buf[i]
<1>1. Len(buf) \in Nat /\ Len(data) \in Nat
  BY LenProperties
<1>2. ASSUME NEW i \in 1 .. Len(buf)
      PROVE  (IF to < i /\ i <= to + Len(data) THEN data[i - to] ELSE buf[i]) \in Byte
  <2>1. CASE to < i /\ i <= to + Len(data)
    <3>1. i - to \in 1 .. Len(data)
      BY <1>1, <2>1
    <3>2. QED  BY <2>1, <3>1, ElementOfSeq
  <2>2. CASE ~(to < i /\ i <= to + Len(data))
    BY <2>2, ElementOfSeq
  <2>3. QED  BY <2>1, <2>2
<1>3. CopyTo(buf, to, data) \in [1 .. Len(buf) -> Byte]
  BY <1>2 DEF CopyTo
<1>4. QED  BY <1>1, <1>3 DEF CopyTo

\* Compacting keeps the contents, wherever they were.
LEMMA CompactedBuffer ==
    ASSUME NEW b \in LooseBuffers, (b.readIndex - PreAppend) + Writable(b) >= 0
    PROVE  /\ Compacted(b) \in Buffers
           /\ Contents(Compacted(b)) = Contents(b)
           /\ Writable(Compacted(b)) = Writable(b) + (b.readIndex - PreAppend)
<1> DEFINE c == Compacted(b)
<1>1. /\ b.buf \in Seq(Byte) /\ b.readIndex \in Nat /\ b.writeIndex \in Nat
      /\ PreAppend \in Nat /\ PreAppend + (b.writeIndex - b.readIndex) <= Len(b.buf)
      /\ b.readIndex <= b.writeIndex /\ b.writeIndex <= Len(b.buf)
      /\ Len(b.buf) \in Nat
  BY BufferAssumption, LenProperties DEF LooseBuffers, Writable
<1>2. /\ Contents(b) \in Seq(Byte) /\ Len(Contents(b)) = b.writeIndex - b.readIndex
  BY ContentsOfBuffer DEF Readable
<1>3. /\ c.buf = CopyTo(b.buf, PreAppend, Contents(b))
      /\ c.readIndex = PreAppend /\ c.writeIndex = PreAppend + (b.writeIndex - b.readIndex)
  BY DEF Compacted, Readable
<1>4. /\ c.buf \in Seq(Byte) /\ Len(c.buf) = Len(b.buf)
      /\ \A i \in 1 .. Len(b.buf) : c.buf[i] =
            IF PreAppend < i /\ i <= PreAppend + Len(Contents(b))
            THEN Contents(b)[i - PreAppend] ELSE b.buf[i]
  <2>1. /\ CopyTo(b.buf, PreAppend, Contents(b)) \in Seq(Byte)
        /\ Len(CopyTo(b.buf, PreAppend, Contents(b))) = Len(b.buf)
        /\ \A i \in 1 .. Len(b.buf) : CopyTo(b.buf, PreAppend, Contents(b))[i] =
              IF PreAppend < i /\ i <= PreAppend + Len(Contents(b))
              THEN Contents(b)[i - PreAppend] ELSE b.buf[i]
    BY <1>1, <1>2, CopyToBytes
  <2> HIDE DEF c
  <2>2. QED  BY <1>3, <2>1
<1>5. c \in Buffers /\ c \in LooseBuffers
  BY <1>1, <1>3, <1>4 DEF Buffers, LooseBuffers, Compacted
<1>6. Readable(c) = Len(Contents(b))
  BY <1>1, <1>2, <1>3 DEF Readable
<1>7. ASSUME NEW i \in 1 .. Readable(c)
      PROVE  c.buf[c.readIndex + i] = Contents(b)[i]
  <2>1. /\ PreAppend + i \in 1 .. Len(b.buf)
        /\ PreAppend < PreAppend + i /\ PreAppend + i <= PreAppend + Len(Contents(b))
        /\ (PreAppend + i) - PreAppend = i
    BY <1>1, <1>2, <1>6
  <2>2. QED  BY <1>3, <1>4, <2>1
<1>8. Contents(c) = Contents(b)
  BY <1>2, <1>5, <1>6, <1>7, SameContents
<1>9. Writable(c) = Writable(b) + (b.readIndex - PreAppend)
  BY <1>1, <1>3, <1>4 DEF Writable
<1>10. QED  BY <1>5, <1>8, <1>9

\* append finds or makes the room it needs, and keeps the contents.
LEMMA RoomyBuffer ==
    ASSUME NEW b \in LooseBuffers, NEW n \in Nat
    PROVE  /\ Roomy(b, n) \in LooseBuffers
           /\ b \in Buffers => Roomy(b, n) \in Buffers
           /\ Contents(Roomy(b, n)) = Contents(b)
           /\ Writable(Roomy(b, n)) >= n
<1>1. /\ b.buf \in Seq(Byte) /\ b.readIndex \in Nat /\ b.writeIndex \in Nat
      /\ PreAppend \in Nat /\ PreAppend <= b.writeIndex
      /\ b.readIndex <= b.writeIndex /\ b.writeIndex <= Len(b.buf)
      /\ Len(b.buf) \in Nat /\ 0 \in Byte
  BY BufferAssumption, LenProperties DEF LooseBuffers, Byte
<1>2. CASE Writable(b) >= n
  BY <1>2 DEF Roomy
<1>3. CASE ~(Writable(b) >= n) /\ (b.readIndex - PreAppend) + Writable(b) >= n
  <2>1. Roomy(b, n) = Compacted(b)
    BY <1>3 DEF Roomy
  <2>2. Writable(Compacted(b)) >= n
    <3>1. Writable(b) \in Nat
      BY <1>1 DEF Writable
    <3>2. QED  BY <1>1, <1>3, <3>1, CompactedBuffer
  <2>3. (b.readIndex - PreAppend) + Writable(b) >= 0
    BY <1>1, <1>3 DEF Writable
  <2>4. QED  BY <2>1, <2>2, <2>3, CompactedBuffer DEF Buffers
<1>4. CASE ~(Writable(b) >= n) /\ ~((b.readIndex - PreAppend) + Writable(b) >= n)
  <2> DEFINE size == b.writeIndex + n
             c == [b EXCEPT !.buf = Resize(b.buf, size)]
  <2>1. Roomy(b, n) = c
    BY <1>4 DEF Roomy
  <2>2. size \in Nat /\ Len(b.buf) <= size
    BY <1>1, <1>4 DEF Writable
  <2>3. \A i \in 1 .. size : (IF i <= Len(b.buf) THEN b.buf[i] ELSE 0) \in Byte
    <3>1. \A i \in 1 .. Len(b.buf) : b.buf[i] \in Byte
      BY <1>1, ElementOfSeq
    <3>2. QED  BY <1>1, <2>2, <3>1
  <2>4. Resize(b.buf, size) \in [1 .. size -> Byte]
    BY <2>3 DEF Resize
  <2>5. /\ Resize(b.buf, size) \in Seq(Byte) /\ Len(Resize(b.buf, size)) = size
        /\ \A i \in 1 .. size : Resize(b.buf, size)[i] = IF i <= Len(b.buf) THEN b.buf[i] ELSE 0
    BY <2>2, <2>4 DEF Resize
  <2>6. /\ c.buf = Resize(b.buf, size) /\ c.readIndex = b.readIndex /\ c.writeIndex = b.writeIndex
        /\ c \in [buf : Seq(Byte), readIndex : Nat, writeIndex : Nat]
    BY <1>1, <2>5 DEF LooseBuffers
  <2>7. c \in LooseBuffers /\ (b \in Buffers => c \in Buffers)
    <3>1. c \in LooseBuffers
      BY <1>1, <2>2, <2>5, <2>6 DEF LooseBuffers
    <3>2. QED  BY <2>6, <3>1 DEF Buffers
  <2>8. Readable(c) = Readable(b)
    BY <2>6 DEF Readable
  <2>9. ASSUME NEW i \in 1 .. Readable(c)
        PROVE  c.buf[c.readIndex + i] = Contents(b)[i]
    <3>1. /\ b.readIndex + i \in 1 .. size /\ b.readIndex + i <= Len(b.buf)
          /\ i \in 1 .. Readable(b)
      BY <1>1, <2>2, <2>8 DEF Readable
    <3>2. c.buf[c.readIndex + i] = b.buf[b.readIndex + i]
      BY <2>5, <2>6, <3>1
    <3>3. QED  BY <3>1, <3>2, ContentsOfBuffer
  <2>10. Contents(c) = Contents(b)
    BY <2>7, <2>8, <2>9, ContentsOfBuffer, SameContents
  <2>11. Writable(c) >= n
    BY <1>1, <2>5, <2>6 DEF Writable
  <2>12. QED  BY <2>1, <2>7, <2>10, <2>11
<1>5. QED  BY <1>2, <1>3, <1>4

\* Writing where there is room appends to the contents.
LEMMA StoredBuffer ==
    ASSUME NEW b \in LooseBuffers, NEW data \in Seq(Byte), Len(data) <= Writable(b)
    PROVE  /\ Stored(b, data) \in LooseBuffers
           /\ b \in Buffers => Stored(b, data) \in Buffers
           /\ Contents(Stored(b, data)) = Contents(b) \o data
<1> DEFINE c == Stored(b, data)
           s == Contents(b) \o data
<1>1. /\ b \in [buf : Seq(Byte), readIndex : Nat, writeIndex : Nat]
      /\ b.buf \in Seq(Byte) /\ b.readIndex \in Nat /\ b.writeIndex \in Nat
      /\ PreAppend <= b.writeIndex
      /\ b.readIndex <= b.writeIndex /\ b.writeIndex + Len(data) <= Len(b.buf)
      /\ Len(b.buf) \in Nat /\ Len(data) \in Nat
  BY LenProperties DEF LooseBuffers, Writable
<1>2. /\ CopyTo(b.buf, b.writeIndex, data) \in Seq(Byte)
      /\ Len(CopyTo(b.buf, b.writeIndex, data)) = Len(b.buf)
      /\ \A i \in 1 .. Len(b.buf) : CopyTo(b.buf, b.writeIndex, data)[i] =
            IF b.writeIndex < i /\ i <= b.writeIndex + Len(data)
            THEN data[i - b.writeIndex] ELSE b.buf[i]
  BY <1>1, CopyToBytes
<1>3. /\ c \in [buf : Seq(Byte), readIndex : Nat, writeIndex : Nat]
      /\ c.buf = CopyTo(b.buf, b.writeIndex, data)
      /\ c.readIndex = b.readIndex /\ c.writeIndex = b.writeIndex + Len(data)
  <2>1. c = [buf |-> CopyTo(b.buf, b.writeIndex, data),
             readIndex |-> b.readIndex, writeIndex |-> b.writeIndex + Len(data)]
    <3>1. b.writeIndex + Len(data) \in Nat
      BY <1>1
    <3>2. QED  BY <1>1, <1>2, <3>1 DEF Stored
  <2>2. QED  BY <1>1, <1>2, <2>1
<1> HIDE DEF c
<1>4. c \in LooseBuffers /\ (b \in Buffers => c \in Buffers)
  <2>1. PreAppend <= c.writeIndex /\ c.readIndex <= c.writeIndex /\ c.writeIndex <= Len(c.buf)
    BY <1>1, <1>2, <1>3, BufferAssumption
  <2>2. c \in LooseBuffers
    BY <1>3, <2>1 DEF LooseBuffers
  <2>3. QED  BY <1>3, <2>2 DEF Buffers
<1>5. /\ Contents(b) \in Seq(Byte) /\ Len(Contents(b)) = b.writeIndex - b.readIndex
  BY ContentsOfBuffer DEF Readable
<1>6. /\ s \in Seq(Byte) /\ Len(s) = Len(Contents(b)) + Len(data)
      /\ \A i \in 1 .. Len(Contents(b)) + Len(data) :
            s[i] = IF i <= Len(Contents(b)) THEN Contents(b)[i] ELSE data[i - Len(Contents(b))]
  BY <1>5, ConcatProperties
<1> HIDE DEF s
<1>7. Len(s) = Readable(c)
  BY <1>1, <1>3, <1>5, <1>6 DEF Readable
<1>8. ASSUME NEW i \in 1 .. Readable(c)
      PROVE  c.buf[c.readIndex + i] = s[i]
  <2>1. b.readIndex + i \in 1 .. Len(b.buf) /\ i \in 1 .. Len(Contents(b)) + Len(data)
    BY <1>1, <1>3, <1>5 DEF Readable
  <2>2. CASE i <= Len(Contents(b))
    <3>1. i \in 1 .. Readable(b) /\ ~(b.writeIndex < b.readIndex + i)
      BY <1>1, <1>5, <2>1, <2>2 DEF Readable
    <3>2. c.buf[c.readIndex + i] = b.buf[b.readIndex + i]
      BY <1>2, <1>3, <2>1, <3>1
    <3>3. QED  BY <1>6, <2>1, <2>2, <3>1, <3>2, ContentsOfBuffer
  <2>3. CASE ~(i <= Len(Contents(b)))
    <3>1. /\ b.writeIndex < b.readIndex + i /\ b.readIndex + i <= b.writeIndex + Len(data)
          /\ (b.readIndex + i) - b.writeIndex = i - Len(Contents(b))
      BY <1>1, <1>5, <2>1, <2>3
    <3>2. c.buf[c.readIndex + i] = data[i - Len(Contents(b))]
      BY <1>2, <1>3, <2>1, <3>1
    <3>3. QED  BY <1>6, <2>1, <2>3, <3>2
  <2>4. QED  BY <2>2, <2>3
<1>9. Contents(c) = s
  BY <1>4, <1>6, <1>7, <1>8, SameContents
<1>10. QED  BY <1>4, <1>9 DEF c, s

\* append adds the data behind the contents, also when it compacts or resizes.
THEOREM AppendKeepsContents ==
    ASSUME NEW b \in LooseBuffers, NEW data \in Seq(Byte)
    PROVE  /\ AppendTo(b, data) \in LooseBuffers
           /\ b \in Buffers => AppendTo(b, data) \in Buffers
           /\ Contents(AppendTo(b, data)) = Contents(b) \o data
<1>1. Len(data) \in Nat
  BY LenProperties
<1>2. /\ Roomy(b, Len(data)) \in LooseBuffers
      /\ b \in Buffers => Roomy(b, Len(data)) \in Buffers
      /\ Contents(Roomy(b, Len(data))) = Contents(b)
      /\ Writable(Roomy(b, Len(data))) >= Len(data)
  BY <1>1, RoomyBuffer
<1>3. Len(data) <= Writable(Roomy(b, Len(data)))
  BY <1>1, <1>2, ContentsOfBuffer
<1>4. QED  BY <1>2, <1>3, StoredBuffer DEF AppendTo

\* retrieve takes what it is asked to from the front of the contents.
THEOREM RetrieveTakesFront ==
    ASSUME NEW b \in LooseBuffers, NEW len \in 0 .. Readable(b)
    PROVE  /\ Retrieve(b, len) \in LooseBuffers
           /\ b \in Buffers => Retrieve(b, len) \in Buffers
           /\ Contents(Retrieve(b, len)) = SubSeq(Contents(b), len + 1, Readable(b))
           /\ Readable(Retrieve(b, len)) = Readable(b) - len
<1> DEFINE c == Retrieve(b, len)
           s == SubSeq(Contents(b), len + 1, Readable(b))
<1>1. /\ b \in [buf : Seq(Byte), readIndex : Nat, writeIndex : Nat]
      /\ b.buf \in Seq(Byte) /\ b.readIndex \in Nat /\ b.writeIndex \in Nat
      /\ PreAppend \in Nat /\ PreAppend <= b.writeIndex
      /\ b.readIndex <= b.writeIndex /\ b.writeIndex <= Len(b.buf)
      /\ Len(b.buf) \in Nat /\ len \in Nat
      /\ Readable(b) \in Nat /\ Readable(b) = b.writeIndex - b.readIndex /\ len <= Readable(b)
  BY BufferAssumption, LenProperties DEF LooseBuffers, Readable
<1>2. /\ Contents(b) \in Seq(Byte) /\ Len(Contents(b)) = Readable(b)
      /\ \A i \in 1 .. Readable(b) : Contents(b)[i] = b.buf[b.readIndex + i]
  BY ContentsOfBuffer
<1>3. /\ s \in Seq(Byte) /\ Len(s) = Readable(b) - len
      /\ \A i \in 1 .. Readable(b) - len : s[i] = Contents(b)[len + i]
  <2>1. \A i \in len + 1 .. Readable(b) : Contents(b)[i] \in Byte
    BY <1>1, <1>2, ElementOfSeq
  <2>2. /\ s \in Seq(Byte)
        /\ Len(s) = IF len + 1 <= Readable(b) THEN Readable(b) - (len + 1) + 1 ELSE 0
        /\ \A i \in 1 .. Readable(b) - (len + 1) + 1 : s[i] = Contents(b)[len + 1 + i - 1]
    BY <1>1, <2>1, SubSeqProperties
  <2>3. ASSUME NEW i \in 1 .. Readable(b) - len
        PROVE  i \in 1 .. Readable(b) - (len + 1) + 1 /\ len + 1 + i - 1 = len + i
    BY <1>1
  <2> HIDE DEF s
  <2>4. QED  BY <1>1, <2>2, <2>3
<1>4. CASE b.readIndex + len = b.writeIndex
  <2>1. c = [buf |-> b.buf, readIndex |-> PreAppend, writeIndex |-> PreAppend]
    BY <1>1, <1>4 DEF Retrieve
  <2> HIDE DEF c, s
  <2>2. c \in LooseBuffers /\ c \in Buffers
    <3>1. PreAppend <= Len(b.buf)
      BY <1>1
    <3>2. QED  BY <1>1, <2>1, <3>1 DEF LooseBuffers, Buffers
  <2>3. Readable(c) = 0 /\ Len(s) = 0
    BY <1>1, <1>3, <1>4, <2>1 DEF Readable
  <2>4. \A i \in 1 .. Readable(c) : c.buf[c.readIndex + i] = s[i]
    BY <2>3
  <2>5. Contents(c) = s
    BY <1>3, <2>2, <2>3, <2>4, SameContents
  <2>6. QED  BY <1>1, <1>4, <2>2, <2>3, <2>5 DEF c, s
<1>5. CASE b.readIndex + len # b.writeIndex
  <2>1. c = [b EXCEPT !.readIndex = b.readIndex + len]
    BY <1>1, <1>5 DEF Retrieve
  <2>2. /\ c \in LooseBuffers /\ Readable(c) = Readable(b) - len
        /\ c.readIndex = b.readIndex + len /\ c.buf = b.buf
        /\ b \in Buffers => c \in Buffers
    BY <1>1, <1>5, <2>1 DEF LooseBuffers, Buffers, Readable
  <2> HIDE DEF c, s
  <2>3. ASSUME NEW i \in 1 .. Readable(c)
        PROVE  c.buf[c.readIndex + i] = s[i]
    <3>1. /\ i \in 1 .. Readable(b) - len /\ len + i \in 1 .. Readable(b)
          /\ (b.readIndex + len) + i = b.readIndex + (len + i)
      BY <1>1, <2>2
    <3>2. QED  BY <1>2, <1>3, <2>2, <3>1
  <2>4. Contents(c) = s
    BY <1>3, <2>2, <2>3, SameContents
  <2>5. QED  BY <2>2, <2>4 DEF c, s
<1>6. QED  BY <1>4, <1>5

\* read appends what readv took, whether or not it needed extraBuff.
THEOREM ReadKeepsContents ==
    ASSUME NEW b \in LooseBuffers, NEW data \in Seq(Byte)
    PROVE  /\ ReadFd(b, data) \in LooseBuffers
           /\ b \in Buffers => ReadFd(b, data) \in Buffers
           /\ Contents(ReadFd(b, data)) = Contents(b) \o data
<1>1. CASE Len(data) <= Writable(b)
  BY <1>1, StoredBuffer DEF ReadFd
<1>2. CASE ~(Len(data) <= Writable(b))
  <2> DEFINE w == Writable(b)
             first == SubSeq(data, 1, w)
             rest == SubSeq(data, w + 1, Len(data))
  <2>1. w \in 0 .. Len(data)
    BY <1>2, ContentsOfBuffer, LenProperties
  <2> HIDE DEF w
  <2>2. /\ first \in Seq(Byte) /\ Len(first) = w
        /\ rest \in Seq(Byte) /\ first \o rest = data
    BY <2>1, SplitBytes
  <2> HIDE DEF first, rest
  <2>3. /\ Stored(b, first) \in LooseBuffers
        /\ b \in Buffers => Stored(b, first) \in Buffers
        /\ Contents(Stored(b, first)) = Contents(b) \o first
    <3>1. Len(first) <= Writable(b)
      BY <2>1, <2>2 DEF w
    <3>2. QED  BY <2>2, <3>1, StoredBuffer
  <2>4. /\ AppendTo(Stored(b, first), rest) \in LooseBuffers
        /\ b \in Buffers => AppendTo(Stored(b, first), rest) \in Buffers
        /\ Contents(AppendTo(Stored(b, first), rest)) = (Contents(b) \o first) \o rest
    BY <2>2, <2>3, AppendKeepsContents
  <2>5. (Contents(b) \o first) \o rest = Contents(b) \o data
    <3>1. Contents(b) \in Seq(Byte) /\ first \in Seq(Byte) /\ rest \in Seq(Byte)
      BY <2>2, ContentsOfBuffer
    <3>2. (Contents(b) \o first) \o rest = Contents(b) \o (first \o rest)
      BY <3>1, ConcatAssociative, SMTT(60)
    <3>3. QED  BY <2>2, <3>2
  <2>6. ReadFd(b, data) = AppendTo(Stored(b, first), rest)
    BY <1>2 DEF ReadFd, w, first, rest
  <2>7. QED  BY <2>4, <2>5, <2>6
<1>3. QED  BY <1>1, <1>2

\* retrieve of a negative length, as long as it does not lead in front of the
\* vector, and of -1 in particular.
LEMMA RetrieveBack ==
    ASSUME NEW b \in LooseBuffers, NEW len \in Int
    PROVE  /\ Retrieve(b, len).readIndex >= 0 => Retrieve(b, len) \in LooseBuffers
           /\ Readable(b) > 0 /\ len < 0 =>
                Readable(Retrieve(b, len)) \in Int /\ Readable(Retrieve(b, len)) > 0
<1> DEFINE read == IF len <= Readable(b) THEN b.readIndex + len ELSE b.readIndex
           c == Retrieve(b, len)
<1>1. /\ b \in [buf : Seq(Byte), readIndex : Nat, writeIndex : Nat]
      /\ b.buf \in Seq(Byte) /\ b.readIndex \in Nat /\ b.writeIndex \in Nat
      /\ PreAppend \in Nat /\ PreAppend <= b.writeIndex
      /\ b.readIndex <= b.writeIndex /\ b.writeIndex <= Len(b.buf)
      /\ Len(b.buf) \in Nat
  BY BufferAssumption, LenProperties DEF LooseBuffers
<1>2. read \in Int /\ read <= b.writeIndex
  BY <1>1 DEF Readable
<1>3. CASE read = b.writeIndex
  <2>1. c = [buf |-> b.buf, readIndex |-> PreAppend, writeIndex |-> PreAppend]
    BY <1>3 DEF Retrieve
  <2>2. c \in LooseBuffers
    BY <1>1, <2>1 DEF LooseBuffers
  <2>3. ~(Readable(b) > 0 /\ len < 0)
    BY <1>1, <1>3 DEF Readable
  <2>4. QED  BY <2>2, <2>3
<1>4. CASE read # b.writeIndex
  <2>1. c = [b EXCEPT !.readIndex = read]
    BY <1>4 DEF Retrieve
  <2>2. c.buf = b.buf /\ c.readIndex = read /\ c.writeIndex = b.writeIndex
    BY <1>1, <2>1
  <2>3. read >= 0 => c \in LooseBuffers
    BY <1>1, <1>2, <2>1, <2>2 DEF LooseBuffers
  <2>4. Readable(c) \in Int /\ Readable(c) > 0
    BY <1>1, <1>2, <1>4, <2>2 DEF Readable
  <2>5. QED  BY <2>2, <2>3, <2>4
<1>5. QED  BY <1>3, <1>4
-----------------------------------------------------------------------------
(* The invariant of Stream: what is claimed of writing, with the order of  *)
(* poll and the write callback; where the bytes sent are; and where in     *)
(* them the messages begin.                                                *)

Pending ==
    state # "closed" /\ Defined =>
        /\ writing <=> Readable(outputBuffer) > 0
        /\ reported => writing

\* In a connection that keeps to the pace the room that poll reported is still there.
Announced == paced /\ state = "up" /\ reported => Room > 0

\* The bytes sent begin with those that have arrived or are under way.
Accounted ==
    paced => \E rest \in Seq(Byte) :
        /\ sentBytes = ((takenBytes \o Contents(inputBuffer)) \o wire) \o rest
        /\ state = "up" => rest = Contents(outputBuffer)

\* The frames of the messages sent lie in the bytes sent at the positions `at', and
\* the receiver is at the frame of the first message that is not delivered.
AlignedAt(at) ==
    /\ at \in [1 .. Len(sent) + 1 -> Nat]
    /\ at[Len(delivered) + 1] = Len(takenBytes)
    /\ at[Len(sent) + 1] = Len(sentBytes)
    /\ \A i \in 1 .. Len(sent) + 1 : at[i] <= Len(sentBytes)
    /\ \A i \in 1 .. Len(sent) :
           /\ at[i + 1] = at[i] + Len(Frame(sent[i]))
           /\ \A j \in 1 .. Len(Frame(sent[i])) : sentBytes[at[i] + j] = Frame(sent[i])[j]

Aligned ==
    paced => /\ Len(delivered) <= Len(sent)
             /\ \A i \in 1 .. Len(delivered) : delivered[i] = sent[i]
             /\ \E at : AlignedAt(at)

IInv == TypeOK /\ Pending /\ Announced /\ Accounted /\ Aligned

\* Half and the powers of Base are natural numbers.
LEMMA Powers ==
    /\ Base \in Nat /\ Base > 1 /\ Base \div 2 \in Nat /\ Base \div 2 < Base
    /\ Base * Base * Base \in Nat /\ Half \in Nat
<1>1. Base \in Nat /\ Base > 1 /\ Base \div 2 \in Nat /\ Base \div 2 < Base
  BY BufferAssumption
<1>2. \A x, y \in Nat : x * y \in Nat
  OBVIOUS
<1>3. Base * Base * Base \in Nat
  BY <1>1, <1>2
<1>4. Half \in Nat
  BY <1>1, <1>2, <1>3 DEF Half
<1>5. QED  BY <1>1, <1>3, <1>4

\* A header is four bytes.
LEMMA HeaderBytes ==
    ASSUME NEW n \in Int
    PROVE  intToBytes(n) \in Seq(Byte) /\ Len(intToBytes(n)) = 4
<1>1. ASSUME NEW x \in Int
      PROVE  x % Base \in Byte /\ x \div Base \in Int
  BY BufferAssumption DEF Byte
<1>2. /\ n \div Base \in Int /\ (n \div Base) \div Base \in Int
      /\ ((n \div Base) \div Base) \div Base \in Int
  BY <1>1
<1>3. QED  BY <1>1, <1>2 DEF intToBytes

\* One digit is split off a number that is less than x digits' worth.
LEMMA Digit ==
    ASSUME NEW n \in Nat, NEW x \in Nat, n < Base * x
    PROVE  /\ n \div Base \in Nat /\ n % Base \in Nat
           /\ n = (n \div Base) * Base + (n % Base)
           /\ n \div Base < x
<1> DEFINE q == n \div Base
           r == n % Base
<1>1. Base \in Nat /\ Base > 0
  BY BufferAssumption
<1>2. q \in Nat /\ r \in Nat /\ n = q * Base + r
  BY <1>1
<1> HIDE DEF q, r
<1>3. q < x
  <2> DEFINE p == q * Base
             y == Base * x
  <2>1. x <= q => y <= p
    BY <1>1, <1>2
  <2>2. p \in Nat /\ y \in Nat /\ n = p + r /\ n < y
    BY <1>1, <1>2
  <2> HIDE DEF p, y
  <2>3. ~(x <= q)
    BY <1>2, <2>1, <2>2
  <2>4. QED  BY <1>2, <2>3
<1>4. QED  BY <1>2, <1>3 DEF q, r

\* A header is read back as the length it was made of.
LEMMA HeaderReadsBack ==
    ASSUME NEW n \in Nat, n < Half
    PROVE  bytesToInt(intToBytes(n)) = n
<1> DEFINE half == Base \div 2
           q1 == n \div Base
           q2 == q1 \div Base
           q3 == q2 \div Base
           r0 == n % Base
           r1 == q1 % Base
           r2 == q2 % Base
<1>1. Base \in Nat /\ Base > 1 /\ half \in Nat /\ half < Base
  BY Powers
<1> HIDE DEF half
<1>2. half \in Nat /\ Base * half \in Nat /\ Base * (Base * half) \in Nat
  BY <1>1
<1>3. Half = Base * (Base * (Base * half))
  BY <1>1 DEF Half, half
<1>4. q1 \in Nat /\ r0 \in Nat /\ n = q1 * Base + r0 /\ q1 < Base * (Base * half)
  BY <1>2, <1>3, Digit
<1>5. q2 \in Nat /\ r1 \in Nat /\ q1 = q2 * Base + r1 /\ q2 < Base * half
  <2> HIDE DEF q1
  <2>1. QED  BY <1>2, <1>4, Digit
<1>6. q3 \in Nat /\ r2 \in Nat /\ q2 = q3 * Base + r2 /\ q3 < half
  <2> HIDE DEF q2
  <2>1. QED  BY <1>2, <1>5, Digit
<1>7. q3 % Base = q3
  <2> HIDE DEF q3
  <2>1. QED  BY <1>1, <1>6
<1>8. intToBytes(n) = <<q3, r2, r1, r0>>
  <2>1. intToBytes(n) = <<q3 % Base, q2 % Base, q1 % Base, n % Base>>
    BY DEF intToBytes
  <2> HIDE DEF q1, q2, q3
  <2>2. QED  BY <1>7, <2>1
<1> HIDE DEF q1, q2, q3, r0, r1, r2
<1>9. Unsigned(intToBytes(n)) = ((q3 * Base + r2) * Base + r1) * Base + r0
  BY <1>8 DEF Unsigned
<1>10. Unsigned(intToBytes(n)) = n
  BY <1>4, <1>5, <1>6, <1>9
<1>11. QED  BY <1>10 DEF bytesToInt

\* A header is read as an int.
LEMMA HeaderSize ==
    ASSUME NEW h \in Seq(Byte), Len(h) = 4
    PROVE  bytesToInt(h) \in Int
<1>1. h[1] \in Int /\ h[2] \in Int /\ h[3] \in Int /\ h[4] \in Int
  <2>1. 1 \in 1 .. Len(h) /\ 2 \in 1 .. Len(h) /\ 3 \in 1 .. Len(h) /\ 4 \in 1 .. Len(h)
    OBVIOUS
  <2>2. h[1] \in Byte /\ h[2] \in Byte /\ h[3] \in Byte /\ h[4] \in Byte
    BY <2>1, ElementOfSeq
  <2>3. QED  BY <2>2, BufferAssumption DEF Byte
<1>2. \A x, y \in Int : x * Base + y \in Int
  BY Powers
<1>3. Unsigned(h) \in Int
  <2> DEFINE u == h[1] * Base + h[2]
             v == u * Base + h[3]
  <2>1. u \in Int
    BY <1>1, <1>2
  <2> HIDE DEF u
  <2>2. v \in Int
    BY <1>1, <1>2, <2>1
  <2> HIDE DEF v
  <2>3. v * Base + h[4] \in Int
    BY <1>1, <1>2, <2>2
  <2>4. QED  BY <2>3 DEF Unsigned, u, v
<1>4. QED  BY <1>3, Powers DEF bytesToInt

\* A new buffer is in order and empty.
LEMMA NewBufferOK ==
    /\ NewBuffer \in Buffers /\ NewBuffer \in LooseBuffers
    /\ NewBuffer.readIndex = PreAppend
    /\ Contents(NewBuffer) = <<>> /\ Readable(NewBuffer) = 0
<1>1. 0 \in Byte
  BY BufferAssumption DEF Byte
<1>2. /\ [i \in 1 .. InitialSize |-> 0] \in Seq(Byte)
      /\ Len([i \in 1 .. InitialSize |-> 0]) = InitialSize
  BY <1>1, BufferAssumption
<1>3. NewBuffer \in Buffers /\ NewBuffer \in LooseBuffers /\ Readable(NewBuffer) = 0
  BY <1>2, BufferAssumption DEF NewBuffer, Buffers, LooseBuffers, Readable
<1>4. Contents(NewBuffer) = <<>>
  BY <1>3, ContentsOfBuffer, EmptySeq
<1>5. QED  BY <1>3, <1>4 DEF NewBuffer

\* A part of one sequence goes over to its neighbour.
LEMMA Regroup ==
    \A a, b, c, d \in Seq(Byte) : (a \o (b \o c)) \o d = (a \o b) \o (c \o d)
<1> SUFFICES ASSUME NEW a \in Seq(Byte), NEW b \in Seq(Byte), NEW c \in Seq(Byte), NEW d \in Seq(Byte)
             PROVE  (a \o (b \o c)) \o d = (a \o b) \o (c \o d)
  OBVIOUS
<1>1. a \o (b \o c) = (a \o b) \o c
  BY ConcatAssociative, SMTT(60)
<1> DEFINE ab == a \o b
<1>2. ab \in Seq(Byte)
  BY ConcatProperties
<1> HIDE DEF ab
<1>3. (ab \o c) \o d = ab \o (c \o d)
  BY <1>2, ConcatAssociative, SMTT(60)
<1>4. QED  BY <1>1, <1>3 DEF ab

\* append leaves a buffer of which nothing was retrieved where it is.
LEMMA AppendAtFront ==
    ASSUME NEW b \in LooseBuffers, NEW data \in Seq(Byte), b.readIndex = PreAppend
    PROVE  AppendTo(b, data).readIndex = PreAppend
<1>1. Roomy(b, Len(data)).readIndex = PreAppend
  BY DEF Roomy, Compacted, LooseBuffers
<1>2. QED  BY <1>1 DEF AppendTo, Stored

\* What unpack::send makes of a message is its length and the message.
LEMMA FrameBytes ==
    ASSUME NEW m \in Messages
    PROVE  /\ m \in Seq(Byte) /\ Len(m) \in Nat /\ Len(m) + PacketSize < Half
           /\ Frame(m) \in Seq(Byte) /\ Len(Frame(m)) = PacketSize + Len(m)
           /\ \A j \in 1 .. PacketSize : Frame(m)[j] = intToBytes(Len(m))[j]
           /\ \A j \in 1 .. Len(m) : Frame(m)[PacketSize + j] = m[j]
<1> DEFINE junk == [i \in 1 .. PacketSize |-> 0]
           front == AppendTo(NewBuffer, junk)
           headPos == front.writeIndex - PacketSize
           data == AppendTo(front, m)
           head == intToBytes(Readable(data) - PacketSize)
           copy == CopyTo(data.buf, headPos, head)
           framed == [data EXCEPT !.buf = copy]
<1>1. m \in Seq(Byte) /\ Len(m) \in Nat /\ Len(m) + PacketSize < Half
  BY StreamAssumption, LenProperties
<1>2. junk \in Seq(Byte) /\ Len(junk) = 4
  <2>1. 0 \in Byte
    BY BufferAssumption DEF Byte
  <2>2. QED  BY <2>1 DEF PacketSize
<1> HIDE DEF junk
<1>3. front \in LooseBuffers /\ Contents(front) = junk /\ front.readIndex = PreAppend
  <2>1. front \in LooseBuffers /\ Contents(front) = <<>> \o junk
    BY <1>2, NewBufferOK, AppendKeepsContents
  <2>2. <<>> \o junk = junk
    BY <1>2, ConcatEmptySeq
  <2>3. front.readIndex = PreAppend
    BY <1>2, NewBufferOK, AppendAtFront
  <2>4. QED  BY <2>1, <2>2, <2>3
<1> HIDE DEF front
<1>4. headPos = PreAppend /\ headPos \in Nat
  <2>1. /\ Readable(front) = 4 /\ front.readIndex \in Nat /\ front.writeIndex \in Nat
        /\ front.readIndex = PreAppend
    BY <1>2, <1>3, ContentsOfBuffer DEF LooseBuffers
  <2>2. QED  BY <2>1 DEF Readable, PacketSize
<1>5. /\ data \in LooseBuffers /\ Contents(data) = junk \o m /\ data.readIndex = PreAppend
  BY <1>1, <1>3, AppendKeepsContents, AppendAtFront
<1> HIDE DEF data, headPos
<1>6. /\ Len(junk \o m) = 4 + Len(m)
      /\ \A j \in 1 .. Len(m) : (junk \o m)[4 + j] = m[j]
  <2>1. /\ Len(junk \o m) = Len(junk) + Len(m)
        /\ \A i \in 1 .. Len(junk) + Len(m) :
              (junk \o m)[i] = IF i <= Len(junk) THEN junk[i] ELSE m[i - Len(junk)]
    BY <1>1, <1>2, ConcatProperties
  <2>2. ASSUME NEW j \in 1 .. Len(m)
        PROVE  4 + j \in 1 .. Len(junk) + Len(m) /\ ~(4 + j <= Len(junk)) /\ 4 + j - Len(junk) = j
    BY <1>1, <1>2
  <2>3. QED  BY <1>2, <2>1, <2>2
<1>7. Readable(data) = PacketSize + Len(m)
  BY <1>5, <1>6, ContentsOfBuffer DEF PacketSize
<1>8. head = intToBytes(Len(m)) /\ head \in Seq(Byte) /\ Len(head) = 4
  <2>1. Readable(data) - PacketSize = Len(m)
    BY <1>1, <1>7 DEF PacketSize
  <2>2. QED  BY <1>1, <2>1, HeaderBytes
<1> HIDE DEF head
<1>9. /\ data.buf \in Seq(Byte) /\ copy \in Seq(Byte) /\ Len(copy) = Len(data.buf)
      /\ \A i \in 1 .. Len(data.buf) : copy[i] =
            IF headPos < i /\ i <= headPos + Len(head) THEN head[i - headPos] ELSE data.buf[i]
  <2> HIDE DEF framed
  <2>1. data.buf \in Seq(Byte)
    BY <1>5 DEF LooseBuffers
  <2>2. /\ CopyTo(data.buf, headPos, head) \in Seq(Byte)
        /\ Len(CopyTo(data.buf, headPos, head)) = Len(data.buf)
        /\ \A i \in 1 .. Len(data.buf) : CopyTo(data.buf, headPos, head)[i] =
              IF headPos < i /\ i <= headPos + Len(head) THEN head[i - headPos] ELSE data.buf[i]
    BY <1>4, <1>8, <2>1, CopyToBytes
  <2>3. copy = CopyTo(data.buf, headPos, head)
    BY DEF copy
  <2> HIDE DEF copy
  <2>4. QED  BY <2>1, <2>2, <2>3
<1> HIDE DEF copy
<1>10. /\ framed \in LooseBuffers /\ framed.buf = copy
       /\ framed.readIndex = PreAppend /\ framed.writeIndex = data.writeIndex
  BY <1>5, <1>9 DEF LooseBuffers
<1>11. Readable(framed) = PacketSize + Len(m)
  BY <1>5, <1>7, <1>10 DEF Readable
<1>12. Frame(m) = Contents(framed)
  BY DEF Frame, Framed, framed, copy, head, data, headPos, front, junk
<1> HIDE DEF framed
<1>13. /\ Frame(m) \in Seq(Byte) /\ Len(Frame(m)) = PacketSize + Len(m)
       /\ \A i \in 1 .. PacketSize + Len(m) : Frame(m)[i] = copy[PreAppend + i]
  BY <1>10, <1>11, <1>12, ContentsOfBuffer
<1>14. /\ PreAppend \in Nat /\ PreAppend + PacketSize + Len(m) <= Len(data.buf)
       /\ \A i \in 1 .. PacketSize + Len(m) : (junk \o m)[i] = data.buf[PreAppend + i]
  <2>1. data.writeIndex <= Len(data.buf) /\ data.writeIndex \in Nat /\ PreAppend \in Nat
    BY <1>5, BufferAssumption DEF LooseBuffers
  <2>2. PreAppend + PacketSize + Len(m) <= Len(data.buf)
    <3>1. data.writeIndex - PreAppend = PacketSize + Len(m) /\ Len(data.buf) \in Nat
      BY <1>5, <1>7, <1>9, LenProperties DEF Readable
    <3>2. QED  BY <1>1, <2>1, <3>1 DEF PacketSize
  <2>3. \A i \in 1 .. Readable(data) : Contents(data)[i] = data.buf[data.readIndex + i]
    BY <1>5, ContentsOfBuffer
  <2>4. QED  BY <1>5, <1>7, <2>1, <2>2, <2>3
<1>15. ASSUME NEW j \in 1 .. PacketSize
       PROVE  Frame(m)[j] = intToBytes(Len(m))[j]
  <2>1. /\ j \in 1 .. PacketSize + Len(m) /\ PreAppend + j \in 1 .. Len(data.buf)
        /\ headPos < PreAppend + j /\ PreAppend + j <= headPos + Len(head)
        /\ PreAppend + j - headPos = j
    BY <1>1, <1>4, <1>8, <1>9, <1>14, LenProperties DEF PacketSize
  <2> DEFINE p == PreAppend + j
  <2>2. p \in 1 .. Len(data.buf) /\ headPos < p /\ p <= headPos + Len(head) /\ p - headPos = j
    BY <1>4, <1>14, <2>1
  <2> HIDE DEF p
  <2>3. copy[p] = head[j]
    <3>1. copy[p] = IF headPos < p /\ p <= headPos + Len(head) THEN head[p - headPos] ELSE data.buf[p]
      BY <1>9, <2>2
    <3>2. QED  BY <2>2, <3>1
  <2>5. Frame(m)[j] = head[j]
    BY <1>13, <2>1, <2>3 DEF p
  <2>6. QED  BY <1>8, <2>5
<1>16. ASSUME NEW j \in 1 .. Len(m)
       PROVE  Frame(m)[PacketSize + j] = m[j]
  <2>1. /\ PacketSize + j \in 1 .. PacketSize + Len(m)
        /\ PreAppend + (PacketSize + j) \in 1 .. Len(data.buf)
        /\ ~(PreAppend + (PacketSize + j) <= headPos + Len(head))
    BY <1>1, <1>4, <1>8, <1>9, <1>14, LenProperties DEF PacketSize
  <2>2. Frame(m)[PacketSize + j] = data.buf[PreAppend + (PacketSize + j)]
    BY <1>9, <1>13, <2>1
  <2>3. Frame(m)[PacketSize + j] = (junk \o m)[PacketSize + j]
    BY <1>14, <2>1, <2>2
  <2>4. QED  BY <1>6, <2>3 DEF PacketSize
<1>17. QED  BY <1>1, <1>13, <1>15, <1>16

\* The invariant holds at the start.
LEMMA InitIInv == Init => IInv
<1> SUFFICES ASSUME Init PROVE IInv
  OBVIOUS
<1>1. <<>> \in Seq(Byte) /\ <<>> \in Seq(Messages) /\ <<>> \in Seq(Seq(Byte))
  BY EmptySeq
<1>2. TypeOK
  BY <1>1, NewBufferOK DEF Init, TypeOK
<1>3. Pending
  <2>1. writing = FALSE /\ reported = FALSE /\ ~(Readable(outputBuffer) > 0)
    BY NewBufferOK DEF Init
  <2>2. QED  BY <2>1 DEF Pending
<1>4. Accounted
  <2>1. <<>> \o <<>> = <<>>
    BY <1>1, ConcatEmptySeq
  <2>2. /\ sentBytes = ((takenBytes \o Contents(inputBuffer)) \o wire) \o <<>>
        /\ <<>> = Contents(outputBuffer)
    BY <2>1, NewBufferOK DEF Init
  <2>3. QED  BY <1>1, <2>2 DEF Accounted
<1>5. Aligned
  <2> DEFINE at == [i \in 1 .. 1 |-> 0]
  <2>1. sent = <<>> /\ delivered = <<>> /\ takenBytes = <<>> /\ sentBytes = <<>>
    BY DEF Init
  <2>2. Len(sent) = 0 /\ Len(delivered) = 0 /\ Len(takenBytes) = 0 /\ Len(sentBytes) = 0
    BY <2>1
  <2>3. at \in [1 .. 1 -> Nat] /\ at[1] = 0
    OBVIOUS
  <2> HIDE DEF at
  <2>4. AlignedAt(at)
    BY <2>2, <2>3 DEF AlignedAt
  <2>5. QED  BY <2>2, <2>4 DEF Aligned
<1>6. Announced
  BY DEF Init, Announced
<1>7. QED  BY <1>2, <1>3, <1>4, <1>5, <1>6 DEF IInv

\* In a connection that keeps to the pace, the next header that has arrived is that
\* of the first message that is not delivered, which follows it.
LEMMA NextMessage ==
    ASSUME IInv, paced, Readable(inputBuffer) >= PacketSize
    PROVE  /\ Len(delivered) + 1 \in 1 .. Len(sent)
           /\ Size = Len(sent[Len(delivered) + 1])
           /\ Size \in Nat /\ Size + PacketSize < Half
           /\ Readable(inputBuffer) >= Size + PacketSize =>
                SubSeq(Contents(inputBuffer), PacketSize + 1, PacketSize + Size)
                    = sent[Len(delivered) + 1]
<1> DEFINE in == Contents(inputBuffer)
           d == Len(delivered)
           t == Len(takenBytes)
           m == sent[d + 1]
           h == SubSeq(in, 1, PacketSize)
<1>1. TypeOK /\ Accounted /\ Aligned
  BY DEF IInv
<1>2. /\ takenBytes \in Seq(Byte) /\ wire \in Seq(Byte) /\ sentBytes \in Seq(Byte)
      /\ inputBuffer \in LooseBuffers
      /\ sent \in Seq(Messages) /\ delivered \in Seq(Seq(Byte))
  BY <1>1 DEF TypeOK, Buffers
<1>3. in \in Seq(Byte) /\ Len(in) = Readable(inputBuffer) /\ Len(in) \in Nat /\ Len(in) >= 4
  BY <1>2, ContentsOfBuffer DEF PacketSize
<1> HIDE DEF in
<1>4. t \in Nat /\ d \in Nat /\ Len(sent) \in Nat /\ Len(sentBytes) \in Nat
  BY <1>2, LenProperties
<1>5. PICK rest \in Seq(Byte) : sentBytes = ((takenBytes \o in) \o wire) \o rest
  BY <1>1 DEF Accounted, in
<1>6. /\ t + Len(in) <= Len(sentBytes)
      /\ \A i \in 1 .. Len(in) : sentBytes[t + i] = in[i]
  <2> DEFINE ti == takenBytes \o in
             tiw == ti \o wire
  <2>1. /\ ti \in Seq(Byte) /\ Len(ti) = t + Len(in)
        /\ \A i \in 1 .. t + Len(in) : ti[i] = IF i <= t THEN takenBytes[i] ELSE in[i - t]
    BY <1>2, <1>3, ConcatProperties
  <2> HIDE DEF ti
  <2>2. /\ tiw \in Seq(Byte) /\ Len(tiw) = Len(ti) + Len(wire)
        /\ \A i \in 1 .. Len(ti) + Len(wire) :
              tiw[i] = IF i <= Len(ti) THEN ti[i] ELSE wire[i - Len(ti)]
    BY <1>2, <2>1, ConcatProperties
  <2> HIDE DEF tiw
  <2>3. /\ sentBytes = tiw \o rest
        /\ Len(tiw \o rest) = Len(tiw) + Len(rest)
        /\ \A i \in 1 .. Len(tiw) + Len(rest) :
              (tiw \o rest)[i] = IF i <= Len(tiw) THEN tiw[i] ELSE rest[i - Len(tiw)]
    BY <1>5, <2>2, ConcatProperties DEF tiw, ti
  <2>4. Len(wire) \in Nat /\ Len(rest) \in Nat
    BY <1>2, LenProperties
  <2>5. ASSUME NEW i \in 1 .. Len(in)
        PROVE  sentBytes[t + i] = in[i]
    <3>1. /\ t + i \in 1 .. t + Len(in) /\ ~(t + i <= t) /\ (t + i) - t = i
          /\ t + i \in 1 .. Len(ti) + Len(wire) /\ t + i <= Len(ti)
          /\ t + i \in 1 .. Len(tiw) + Len(rest) /\ t + i <= Len(tiw)
      BY <1>3, <1>4, <2>1, <2>2, <2>4
    <3>2. sentBytes[t + i] = tiw[t + i] /\ tiw[t + i] = ti[t + i] /\ ti[t + i] = in[i]
      BY <2>1, <2>2, <2>3, <3>1
    <3>3. QED  BY <3>2
  <2>6. t + Len(in) <= Len(sentBytes)
    BY <1>3, <1>4, <2>1, <2>2, <2>3, <2>4
  <2>7. QED  BY <2>5, <2>6
<1>7. d <= Len(sent) /\ \E at : AlignedAt(at)
  BY <1>1 DEF Aligned
<1>8. PICK at : AlignedAt(at)
  BY <1>7
<1>9. at[d + 1] = t /\ at[Len(sent) + 1] = Len(sentBytes)
  BY <1>8 DEF AlignedAt
<1>10. d + 1 \in 1 .. Len(sent)
  <2>1. d # Len(sent)
    BY <1>3, <1>4, <1>6, <1>9
  <2>2. QED  BY <1>4, <1>7, <2>1
<1>11. m \in Messages
  BY <1>2, <1>10, ElementOfSeq
<1>12. \A j \in 1 .. Len(Frame(m)) : sentBytes[t + j] = Frame(m)[j]
  BY <1>8, <1>9, <1>10 DEF AlignedAt
<1> HIDE DEF m, d, t
<1>13. /\ m \in Seq(Byte) /\ Len(m) \in Nat /\ Len(m) + PacketSize < Half
       /\ Len(Frame(m)) = PacketSize + Len(m)
       /\ \A j \in 1 .. PacketSize : Frame(m)[j] = intToBytes(Len(m))[j]
       /\ \A j \in 1 .. Len(m) : Frame(m)[PacketSize + j] = m[j]
  BY <1>11, FrameBytes
<1>14. \A j \in 1 .. 4 : in[j] = intToBytes(Len(m))[j]
  <2> SUFFICES ASSUME NEW j \in 1 .. 4 PROVE in[j] = intToBytes(Len(m))[j]
    OBVIOUS
  <2>1. j \in 1 .. Len(in) /\ j \in 1 .. Len(Frame(m)) /\ j \in 1 .. PacketSize
    BY <1>3, <1>13 DEF PacketSize
  <2>2. sentBytes[t + j] = in[j] /\ sentBytes[t + j] = Frame(m)[j]
    BY <1>6, <1>12, <2>1
  <2>3. QED  BY <1>13, <2>1, <2>2
<1>15. h = intToBytes(Len(m))
  <2>1. 4 \in 0 .. Len(in)
    BY <1>3
  <2>2. h \in Seq(Byte) /\ Len(h) = 4
    BY <1>3, <2>1, SplitBytes DEF PacketSize
  <2>3. \A j \in 1 .. 4 : h[j] = in[j]
    <3>1. \A j \in 1 .. PacketSize : in[j] \in Byte
      BY <1>3, ElementOfSeq DEF PacketSize
    <3>2. \A j \in 1 .. PacketSize - 1 + 1 : h[j] = in[1 + j - 1]
      BY <3>1, SubSeqProperties DEF PacketSize
    <3>3. QED  BY <3>2 DEF PacketSize
  <2>4. intToBytes(Len(m)) \in Seq(Byte) /\ Len(intToBytes(Len(m))) = 4
    BY <1>13, HeaderBytes
  <2> HIDE DEF h
  <2>5. QED  BY <1>14, <2>2, <2>3, <2>4, SeqEqual
<1>16. Size = Len(m)
  <2>1. Len(m) < Half
    BY <1>13, Powers DEF PacketSize
  <2>2. Size = bytesToInt(h)
    BY DEF Size, in
  <2>3. QED  BY <1>13, <1>15, <2>1, <2>2, HeaderReadsBack
<1>17. ASSUME Readable(inputBuffer) >= Size + PacketSize
       PROVE  SubSeq(in, PacketSize + 1, PacketSize + Size) = m
  <2> DEFINE s == SubSeq(in, PacketSize + 1, PacketSize + Size)
  <2>1. 4 + Len(m) <= Len(in)
    BY <1>3, <1>13, <1>16, <1>17 DEF PacketSize
  <2>2. \A j \in 4 + 1 .. 4 + Len(m) : in[j] \in Byte
    BY <1>3, <1>13, <2>1, ElementOfSeq
  <2>3. /\ s \in Seq(Byte)
        /\ Len(s) = IF 4 + 1 <= 4 + Len(m) THEN 4 + Len(m) - (4 + 1) + 1 ELSE 0
        /\ \A j \in 1 .. 4 + Len(m) - (4 + 1) + 1 : s[j] = in[4 + 1 + j - 1]
    BY <1>13, <1>16, <2>2, SubSeqProperties DEF PacketSize
  <2> HIDE DEF s
  <2>4. Len(s) = Len(m)
    BY <1>13, <2>3
  <2>5. ASSUME NEW j \in 1 .. Len(m)
        PROVE  s[j] = m[j]
    <3>1. /\ j \in 1 .. 4 + Len(m) - (4 + 1) + 1 /\ 4 + 1 + j - 1 = 4 + j
          /\ 4 + j \in 1 .. Len(in) /\ 4 + j \in 1 .. Len(Frame(m))
      BY <1>3, <1>13, <2>1 DEF PacketSize
    <3>2. s[j] = in[4 + j]
      BY <2>3, <3>1
    <3>3. in[4 + j] = Frame(m)[4 + j]
      <4>1. sentBytes[t + (4 + j)] = in[4 + j] /\ sentBytes[t + (4 + j)] = Frame(m)[4 + j]
        BY <1>6, <1>12, <3>1
      <4>2. QED  BY <4>1
    <3>4. Frame(m)[4 + j] = m[j]
      BY <1>13 DEF PacketSize
    <3>5. QED  BY <3>2, <3>3, <3>4
  <2>6. s = m
    BY <1>13, <2>3, <2>4, <2>5, SeqEqual
  <2>7. QED  BY <2>6 DEF s
<1>18. QED  BY <1>10, <1>13, <1>16, <1>17 DEF in, m, d

\* A buffer's contents have as many bytes as are readable, before and after.
LEMMA ContentsPrimed ==
    ASSUME TRUE
    PROVE  /\ Contents(outputBuffer)' = Contents(outputBuffer')
           /\ Contents(inputBuffer)' = Contents(inputBuffer')
           /\ Readable(outputBuffer)' = Readable(outputBuffer')
           /\ Readable(inputBuffer)' = Readable(inputBuffer')
BY DEF Contents, Readable

\* The messages of a longer stream stay aligned.
LEMMA SendAligned ==
    ASSUME IInv, NEW m \in Messages, Send(m)
    PROVE  Aligned'
<1> SUFFICES ASSUME paced' PROVE Aligned'
  BY DEF Aligned
<1> DEFINE n == Len(sent)
           s == Len(sentBytes)
           f == Frame(m)
<1>1. /\ sent' = Append(sent, m) /\ sentBytes' = sentBytes \o f
      /\ delivered' = delivered /\ takenBytes' = takenBytes /\ paced
  BY DEF Send, receiver
<1>2. /\ TypeOK /\ Aligned
      /\ sent \in Seq(Messages) /\ sentBytes \in Seq(Byte) /\ delivered \in Seq(Seq(Byte))
  BY DEF IInv, TypeOK
<1>3. n \in Nat /\ s \in Nat /\ Len(delivered) \in Nat
  BY <1>2, LenProperties
<1>4. f \in Seq(Byte) /\ Len(f) \in Nat
  BY FrameBytes, LenProperties
<1> HIDE DEF f
<1>5. /\ Len(sent') = n + 1 /\ sent'[n + 1] = m
      /\ \A i \in 1 .. n : sent'[i] = sent[i]
  BY <1>1, <1>2, AppendProperties
<1>6. /\ Len(sentBytes') = s + Len(f)
      /\ \A i \in 1 .. s : sentBytes'[i] = sentBytes[i]
      /\ \A j \in 1 .. Len(f) : sentBytes'[s + j] = f[j]
  <2>1. /\ Len(sentBytes \o f) = s + Len(f)
        /\ \A i \in 1 .. s + Len(f) :
              (sentBytes \o f)[i] = IF i <= s THEN sentBytes[i] ELSE f[i - s]
    BY <1>2, <1>4, ConcatProperties
  <2>2. \A i \in 1 .. s : i \in 1 .. s + Len(f) /\ i <= s
    BY <1>3, <1>4
  <2>3. \A j \in 1 .. Len(f) : s + j \in 1 .. s + Len(f) /\ ~(s + j <= s) /\ s + j - s = j
    BY <1>3, <1>4
  <2>4. QED  BY <1>1, <2>1, <2>2, <2>3
<1> HIDE DEF n, s
<1>7. /\ Len(delivered) <= n /\ \A i \in 1 .. Len(delivered) : delivered[i] = sent[i]
      /\ \E at : AlignedAt(at)
  BY <1>1, <1>2 DEF Aligned, n
<1>8. PICK at : AlignedAt(at)
  BY <1>7
<1>9. /\ at \in [1 .. n + 1 -> Nat]
      /\ at[Len(delivered) + 1] = Len(takenBytes) /\ at[n + 1] = s
      /\ \A i \in 1 .. n + 1 : at[i] <= s
      /\ \A i \in 1 .. n :
             /\ at[i + 1] = at[i] + Len(Frame(sent[i]))
             /\ \A j \in 1 .. Len(Frame(sent[i])) : sentBytes[at[i] + j] = Frame(sent[i])[j]
  BY <1>8 DEF AlignedAt, n, s
<1> DEFINE bt == [i \in 1 .. (n + 1) + 1 |-> IF i <= n + 1 THEN at[i] ELSE s + Len(f)]
<1>10. /\ bt \in [1 .. (n + 1) + 1 -> Nat]
       /\ \A i \in 1 .. n + 1 : bt[i] = at[i]
       /\ bt[(n + 1) + 1] = s + Len(f)
  <2>1. \A i \in 1 .. n + 1 : i \in 1 .. (n + 1) + 1 /\ at[i] \in Nat
    BY <1>3, <1>9 DEF n
  <2>2. s + Len(f) \in Nat /\ n \in Nat
    BY <1>3, <1>4 DEF n, s
  <2>3. QED  BY <2>1, <2>2
<1> HIDE DEF bt
<1>11. n \in Nat /\ s \in Nat
  BY <1>3 DEF n, s
<1>12. bt[Len(delivered) + 1] = Len(takenBytes)
  <2>1. Len(delivered) + 1 \in 1 .. n + 1
    BY <1>3, <1>7, <1>11
  <2>2. QED  BY <1>9, <1>10, <2>1
<1>13. \A i \in 1 .. (n + 1) + 1 : bt[i] <= s + Len(f)
  <2> SUFFICES ASSUME NEW i \in 1 .. (n + 1) + 1 PROVE bt[i] <= s + Len(f)
    OBVIOUS
  <2>1. CASE i \in 1 .. n + 1
    <3>1. at[i] \in Nat /\ at[i] <= s
      BY <1>9, <2>1
    <3>2. QED  BY <1>4, <1>10, <1>11, <2>1, <3>1
  <2>2. CASE ~(i \in 1 .. n + 1)
    <3>1. i = (n + 1) + 1
      BY <1>11, <2>2
    <3>2. QED  BY <1>4, <1>10, <1>11, <3>1
  <2>3. QED  BY <2>1, <2>2
<1>14. ASSUME NEW i \in 1 .. n + 1
       PROVE  /\ bt[i + 1] = bt[i] + Len(Frame(sent'[i]))
              /\ \A j \in 1 .. Len(Frame(sent'[i])) : sentBytes'[bt[i] + j] = Frame(sent'[i])[j]
  <2>1. CASE i \in 1 .. n
    <3>1. i + 1 \in 1 .. n + 1 /\ i \in 1 .. n + 1 /\ sent'[i] = sent[i]
      BY <1>5, <1>11, <2>1
    <3>2. bt[i + 1] = at[i + 1] /\ bt[i] = at[i] /\ at[i + 1] = at[i] + Len(Frame(sent[i]))
      BY <1>9, <1>10, <2>1, <3>1
    <3>3. ASSUME NEW j \in 1 .. Len(Frame(sent[i]))
          PROVE  sentBytes'[at[i] + j] = Frame(sent[i])[j]
      <4>1. sent[i] \in Messages
        BY <1>2, <2>1, ElementOfSeq DEF n
      <4>2. Len(Frame(sent[i])) \in Nat
        BY <4>1, FrameBytes, LenProperties
      <4>3. at[i] \in Nat /\ at[i + 1] <= s
        BY <1>9, <3>1
      <4>4. at[i] + j \in 1 .. s
        BY <1>11, <3>2, <4>2, <4>3
      <4>5. QED  BY <1>6, <1>9, <2>1, <4>4 DEF s
    <3>4. QED  BY <3>1, <3>2, <3>3
  <2>2. CASE ~(i \in 1 .. n)
    <3>1. i = n + 1
      BY <1>11, <2>2
    <3>2. /\ sent'[i] = m /\ bt[i] = s /\ bt[i + 1] = s + Len(f)
      <4>1. n + 1 \in 1 .. n + 1
        BY <1>11
      <4>2. QED  BY <1>5, <1>9, <1>10, <3>1, <4>1 DEF n
    <3>3. QED  BY <1>6, <3>2 DEF f, s
  <2>3. QED  BY <2>1, <2>2
<1>15. \E ct : AlignedAt(ct)'
  <2>1. Len(sent') = n + 1 /\ Len(sentBytes') = s + Len(f)
    BY <1>5, <1>6 DEF n, s
  <2> HIDE DEF n, s, bt, f
  <2>2. /\ bt \in [1 .. Len(sent') + 1 -> Nat]
        /\ bt[Len(delivered') + 1] = Len(takenBytes')
        /\ bt[Len(sent') + 1] = Len(sentBytes')
        /\ \A i \in 1 .. Len(sent') + 1 : bt[i] <= Len(sentBytes')
    BY <1>1, <1>10, <1>12, <1>13, <2>1
  <2>3. \A i \in 1 .. Len(sent') :
           /\ bt[i + 1] = bt[i] + Len(Frame(sent'[i]))
           /\ \A j \in 1 .. Len(Frame(sent'[i])) : sentBytes'[bt[i] + j] = Frame(sent'[i])[j]
    BY <1>14, <2>1
  <2>4. PICK ct : ct = bt
    OBVIOUS
  <2>5. AlignedAt(ct)'
    BY <2>2, <2>3, <2>4 DEF AlignedAt
  <2>6. QED  BY <2>5
<1>16. /\ Len(delivered') <= Len(sent')
       /\ \A i \in 1 .. Len(delivered') : delivered'[i] = sent'[i]
  <2>1. \A i \in 1 .. Len(delivered) : i \in 1 .. n
    BY <1>3, <1>7, <1>11
  <2>2. Len(delivered) <= n + 1
    BY <1>3, <1>7, <1>11
  <2>3. Len(sent') = n + 1 /\ \A i \in 1 .. n : sent'[i] = sent[i]
    BY <1>5 DEF n
  <2>4. QED  BY <1>1, <1>7, <2>1, <2>2, <2>3
<1>17. QED  BY <1>15, <1>16 DEF Aligned

\* sendInLoop: what write() does not take goes behind what is buffered.
LEMMA SendStep ==
    ASSUME IInv, NEW m \in Messages, Send(m)
    PROVE  IInv'
<1> DEFINE data == Frame(m)
           n == Len(data)
           front == takenBytes \o Contents(inputBuffer)
<1>1. data \in Seq(Byte) /\ n \in Nat
  BY FrameBytes, LenProperties
<1>2. TypeOK /\ Pending /\ Defined /\ state # "closed"
  BY DEF IInv, Send
<1>3. /\ outputBuffer \in LooseBuffers /\ inputBuffer \in LooseBuffers
      /\ Contents(inputBuffer) \in Seq(Byte) /\ Contents(outputBuffer) \in Seq(Byte)
      /\ Readable(outputBuffer) = Len(Contents(outputBuffer))
  BY <1>2, ContentsOfBuffer DEF TypeOK, Defined
<1>4. front \in Seq(Byte) /\ wire \in Seq(Byte) /\ sentBytes \in Seq(Byte)
  BY <1>2, <1>3, ConcatProperties DEF TypeOK
<1>5. /\ sentBytes' = sentBytes \o data /\ sent' = Append(sent, m)
      /\ paced' = (paced /\ Readable(outputBuffer) = 0 /\ Room > 0)
      /\ UNCHANGED <<reported, state, inputBuffer, unpacking, delivered, takenBytes>>
  BY DEF Send, receiver
<1> HIDE DEF data, n
<1>6. /\ sentBytes' \in Seq(Byte) /\ sent' \in Seq(Messages) /\ paced' \in BOOLEAN
  <2>1. sentBytes \o data \in Seq(Byte)
    BY <1>1, <1>4, ConcatProperties
  <2>2. QED  BY <1>2, <1>5, <2>1 DEF TypeOK
<1>7. front' = front
  BY <1>5, ContentsPrimed
<1> HIDE DEF front
<1>8. ASSUME paced'
      PROVE  /\ paced /\ Room > 0
             /\ state = "up" => Contents(outputBuffer) = <<>>
             /\ \E rest \in Seq(Byte) : /\ sentBytes = (front \o wire) \o rest
                                        /\ state = "up" => rest = <<>>
  <2>1. paced /\ Readable(outputBuffer) = 0 /\ Room > 0
    BY <1>5, <1>8
  <2>2. Contents(outputBuffer) = <<>>
    BY <1>3, <2>1, EmptySeq
  <2>3. QED  BY <2>1, <2>2 DEF IInv, Accounted, front
<1>8a. Announced'
  <2>1. paced' /\ state' = "up" /\ reported' => FALSE
    <3>1. Readable(outputBuffer) = 0 => ~(Readable(outputBuffer) > 0)
      OBVIOUS
    <3>2. QED  BY <1>2, <1>5, <3>1 DEF Pending
  <2>2. QED  BY <2>1 DEF Announced
<1>9. CASE SendAll(m)
  <2>1. wire' = wire \o data /\ UNCHANGED <<outputBuffer, writing, fault>> /\ state = "up"
    BY <1>9 DEF SendAll, data, Taken
  <2>2. wire' \in Seq(Byte)
    BY <1>1, <1>4, <2>1, ConcatProperties
  <2>3. TypeOK'
    BY <1>2, <1>5, <1>6, <2>1, <2>2 DEF TypeOK
  <2>4. Pending'
    BY <1>2, <1>5, <2>1, ContentsPrimed DEF Pending, Defined
  <2>5. ASSUME paced' PROVE Accounted'
    <3>1. sentBytes = (front \o wire) \o <<>> /\ Contents(outputBuffer)' = <<>>
      BY <1>8, <2>1, <2>5, ContentsPrimed
    <3>2. (front \o wire) \in Seq(Byte)
      BY <1>4, ConcatProperties
    <3>3. (front \o wire) \o <<>> = front \o wire
      BY <3>2, ConcatEmptySeq
    <3>4. (front \o wire) \o data = front \o (wire \o data) /\ front \o (wire \o data) \in Seq(Byte)
      BY <1>1, <1>4, <2>1, <2>2, ConcatAssociative, ConcatProperties, SMTT(60)
    <3>5. (front \o (wire \o data)) \o <<>> = front \o (wire \o data)
      BY <3>4, ConcatEmptySeq
    <3>6. sentBytes' = (front' \o wire') \o <<>>
      BY <1>5, <1>7, <2>1, <3>1, <3>3, <3>4, <3>5
    <3>7. <<>> \in Seq(Byte)
      BY EmptySeq
    <3>8. QED  BY <3>1, <3>6, <3>7 DEF Accounted, front
  <2>6. Accounted'
    BY <2>5 DEF Accounted
  <2>7. QED  BY <1>8a, <2>3, <2>4, <2>6, SendAligned DEF IInv
<1>10. ASSUME NEW k \in Taken(Len(Frame(m))), SendPart(m, k)
       PROVE  IInv'
  <2> DEFINE first == SubSeq(data, 1, k)
             rest == SubSeq(data, k + 1, n)
  <2>1. /\ wire' = wire \o first /\ outputBuffer' = AppendTo(outputBuffer, rest)
        /\ fault' = (IF Overruns(outputBuffer, n - k) THEN "undefined" ELSE fault)
        /\ writing' = TRUE /\ k \in 0 .. n /\ k < n /\ state = "up"
    BY <1>1, <1>10 DEF SendPart, Taken, data, n
  <2>2. /\ first \in Seq(Byte) /\ rest \in Seq(Byte) /\ Len(rest) = n - k
        /\ first \o rest = data
    BY <1>1, <2>1, SplitBytes DEF n
  <2> HIDE DEF first, rest
  <2>3. /\ outputBuffer' \in LooseBuffers
        /\ outputBuffer \in Buffers => outputBuffer' \in Buffers
        /\ Contents(outputBuffer') = Contents(outputBuffer) \o rest
    BY <1>3, <2>1, <2>2, AppendKeepsContents
  <2>4. wire' \in Seq(Byte)
    BY <1>4, <2>1, <2>2, ConcatProperties
  <2>5. outputBuffer \in Buffers => fault' = fault
    <3>1. ASSUME outputBuffer \in Buffers
          PROVE  ~Overruns(outputBuffer, n - k)
      <4>1. /\ outputBuffer.readIndex \in Nat /\ PreAppend \in Nat
            /\ PreAppend <= outputBuffer.readIndex
        BY <3>1, BufferAssumption DEF Buffers, LooseBuffers
      <4>2. Writable(outputBuffer) \in Nat
        BY <1>3, ContentsOfBuffer
      <4>3. QED  BY <4>1, <4>2 DEF Overruns
    <3>2. QED  BY <2>1, <3>1
  <2>6. TypeOK'
    <3>1. fault' \in {"none", "negative", "undefined"} /\ (fault' = fault \/ fault' = "undefined")
      BY <1>2, <2>1 DEF TypeOK
    <3>2. paced' /\ state' = "up" => outputBuffer' \in Buffers /\ fault' = "none"
      BY <1>2, <1>5, <1>8, <2>3, <2>5 DEF TypeOK
    <3>3. paced' => inputBuffer' \in Buffers /\ fault' # "negative"
      BY <1>2, <1>5, <1>8, <3>1 DEF TypeOK
    <3>4. fault' # "undefined" => outputBuffer' \in LooseBuffers /\ inputBuffer' \in LooseBuffers
      BY <1>3, <1>5, <2>3
    <3>5. QED  BY <1>2, <1>5, <1>6, <2>1, <2>4, <3>1, <3>2, <3>3, <3>4 DEF TypeOK
  <2>7. Pending'
    <3>1. Len(Contents(outputBuffer) \o rest) > 0
      <4>1. Len(Contents(outputBuffer) \o rest) = Len(Contents(outputBuffer)) + Len(rest)
        BY <1>3, <2>2, ConcatProperties
      <4>2. Len(Contents(outputBuffer)) \in Nat /\ n - k > 0 /\ n - k \in Nat
        BY <1>1, <1>3, <2>1, LenProperties
      <4>3. QED  BY <2>2, <4>1, <4>2
    <3>2. Readable(outputBuffer') > 0
      BY <2>3, <3>1, ContentsOfBuffer
    <3>3. QED  BY <2>1, <3>2, ContentsPrimed DEF Pending
  <2>8. ASSUME paced' PROVE Accounted'
    <3>1. Contents(outputBuffer)' = rest
      <4>1. <<>> \o rest = rest
        BY <2>2, ConcatEmptySeq
      <4>2. QED  BY <1>8, <2>1, <2>3, <2>8, <4>1, ContentsPrimed
    <3>2. (front \o (wire \o first)) \o rest = (front \o wire) \o (first \o rest)
      <4>1. front \in Seq(Byte) /\ wire \in Seq(Byte) /\ first \in Seq(Byte) /\ rest \in Seq(Byte)
        BY <1>4, <2>2
      <4>2. QED  BY <4>1, Regroup, SMTT(60)
    <3>3. sentBytes = front \o wire
      <4>1. sentBytes = (front \o wire) \o <<>> /\ (front \o wire) \in Seq(Byte)
        BY <1>4, <1>8, <2>1, <2>8, ConcatProperties
      <4>2. QED  BY <4>1, ConcatEmptySeq
    <3>4. sentBytes' = (front' \o wire') \o rest
      BY <1>5, <1>7, <2>1, <2>2, <3>2, <3>3
    <3>5. QED  BY <2>2, <3>1, <3>4 DEF Accounted, front
  <2>9. Accounted'
    BY <2>8 DEF Accounted
  <2>10. QED  BY <1>8a, <2>6, <2>7, <2>9, SendAligned DEF IInv
<1>11. CASE SendFails
  <2>1. UNCHANGED <<wire, outputBuffer, writing, fault>> /\ (state # "up" \/ ~(Room > 0))
    <3>1. Room = 0 => ~(Room > 0)
      OBVIOUS
    <3>2. QED  BY <1>11, <3>1 DEF SendFails, WriteFails
  <2>2. Pending'
    BY <1>2, <1>5, <2>1, ContentsPrimed DEF Pending, Defined
  <2>3. TypeOK'
    BY <1>2, <1>5, <1>6, <2>1 DEF TypeOK
  <2>4. ASSUME paced' PROVE Accounted'
    <3>1. PICK rest \in Seq(Byte) : sentBytes = (front \o wire) \o rest
      BY <1>8, <2>4
    <3>2. state' # "up"
      BY <1>5, <1>8, <2>1, <2>4
    <3>3. (front \o wire) \in Seq(Byte) /\ rest \o data \in Seq(Byte)
      BY <1>1, <1>4, ConcatProperties
    <3>4. ((front \o wire) \o rest) \o data = (front \o wire) \o (rest \o data)
      BY <1>1, <3>3, ConcatAssociative, SMTT(60)
    <3>5. sentBytes' = (front' \o wire') \o (rest \o data)
      BY <1>5, <1>7, <2>1, <3>1, <3>4
    <3>6. QED  BY <3>2, <3>3, <3>5 DEF Accounted, front
  <2>5. Accounted'
    BY <2>4 DEF Accounted
  <2>6. QED  BY <1>8a, <2>2, <2>3, <2>5, SendAligned DEF IInv
<1>12. QED  BY <1>9, <1>10, <1>11 DEF Send

\* Steps that neither send nor deliver leave the messages aligned.
LEMMA StillAligned ==
    ASSUME IInv, UNCHANGED <<paced, sent, delivered, takenBytes, sentBytes>>
    PROVE  Aligned'
<1>1. ASSUME paced' PROVE Aligned'
  <2>1. /\ Len(delivered) <= Len(sent) /\ \A i \in 1 .. Len(delivered) : delivered[i] = sent[i]
        /\ \E at : AlignedAt(at)
    BY <1>1 DEF IInv, Aligned
  <2>2. PICK at : AlignedAt(at)
    BY <2>1
  <2>3. AlignedAt(at)'
    BY <2>2 DEF AlignedAt
  <2>4. QED  BY <2>1, <2>3 DEF Aligned
<1>2. QED  BY <1>1 DEF Aligned

\* poll reports room in the socket.
LEMMA PollStep == ASSUME IInv, Poll PROVE IInv'
<1>1. /\ UNCHANGED <<outputBuffer, writing, sent, sentBytes, paced, state, wire>>
      /\ UNCHANGED <<inputBuffer, unpacking, delivered, takenBytes, fault>>
      /\ reported' = TRUE /\ writing
  BY DEF Poll, receiver
<1>2. TypeOK'
  BY <1>1 DEF IInv, TypeOK
<1>3. Pending'
  BY <1>1, ContentsPrimed DEF IInv, Pending, Defined
<1>4. Accounted'
  BY <1>1, ContentsPrimed DEF IInv, Accounted
<1>5. Announced'
  BY <1>1 DEF Poll, Announced, Room
<1>6. QED  BY <1>1, <1>2, <1>3, <1>4, <1>5, StillAligned DEF IInv

\* WriteHandle: what write() takes leaves the front of outputBuffer.
LEMMA WriteStep ==
    ASSUME IInv, NEW k \in Taken(Readable(outputBuffer)), WriteHandle(k)
    PROVE  IInv'
<1> DEFINE out == Contents(outputBuffer)
           first == SubSeq(out, 1, k)
           rest == SubSeq(out, k + 1, Len(out))
           front == takenBytes \o Contents(inputBuffer)
<1>1. TypeOK /\ Pending /\ Defined
  BY DEF IInv, WriteHandle
<1>2. /\ out \in Seq(Byte) /\ Len(out) = Readable(outputBuffer) /\ Readable(outputBuffer) \in Nat
      /\ Contents(inputBuffer) \in Seq(Byte) /\ outputBuffer \in LooseBuffers
  BY <1>1, ContentsOfBuffer DEF TypeOK, Defined
<1>3. front \in Seq(Byte) /\ wire \in Seq(Byte)
  BY <1>1, <1>2, ConcatProperties DEF TypeOK
<1>4. k \in 0 .. Len(out) /\ k \in 0 .. Readable(outputBuffer) /\ state = "up"
  BY <1>2 DEF Taken
<1>5. /\ wire' = wire \o first
      /\ outputBuffer' = Retrieve(outputBuffer, k)
      /\ writing' = (writing /\ Readable(outputBuffer') # 0)
      /\ reported' = FALSE
      /\ UNCHANGED <<state, sent, sentBytes, paced, inputBuffer, unpacking, delivered, takenBytes, fault>>
  BY DEF WriteHandle, receiver
<1> HIDE DEF out
<1>6. first \in Seq(Byte) /\ rest \in Seq(Byte) /\ first \o rest = out
  BY <1>2, <1>4, SplitBytes
<1>7. /\ outputBuffer' \in LooseBuffers /\ Contents(outputBuffer') = rest
      /\ outputBuffer \in Buffers => outputBuffer' \in Buffers
      /\ Readable(outputBuffer') \in Nat
  <2>1. /\ Retrieve(outputBuffer, k) \in LooseBuffers
        /\ outputBuffer \in Buffers => Retrieve(outputBuffer, k) \in Buffers
        /\ Contents(Retrieve(outputBuffer, k)) = SubSeq(Contents(outputBuffer), k + 1, Readable(outputBuffer))
    BY <1>2, <1>4, RetrieveTakesFront
  <2>2. Readable(Retrieve(outputBuffer, k)) \in Nat
    BY <2>1, ContentsOfBuffer
  <2>3. QED  BY <1>2, <1>5, <2>1, <2>2 DEF out
<1> HIDE DEF first, rest
<1>8. wire' \in Seq(Byte)
  BY <1>3, <1>5, <1>6, ConcatProperties
<1>9. TypeOK'
  BY <1>1, <1>5, <1>7, <1>8 DEF TypeOK
<1>10. Pending'
  <2>1. (Readable(outputBuffer') # 0) <=> Readable(outputBuffer') > 0
    BY <1>7
  <2>2. writing
    BY <1>1, <1>4 DEF Pending, WriteHandle
  <2>3. QED  BY <1>5, <2>1, <2>2, ContentsPrimed DEF Pending
<1>11. ASSUME paced' PROVE Accounted'
  <2>1. sentBytes = (front \o wire) \o (first \o rest)
    BY <1>4, <1>5, <1>6, <1>11 DEF IInv, Accounted, out
  <2> HIDE DEF front
  <2>2. (front \o (wire \o first)) \o rest = (front \o wire) \o (first \o rest)
    <3>1. front \in Seq(Byte) /\ wire \in Seq(Byte) /\ first \in Seq(Byte) /\ rest \in Seq(Byte)
      BY <1>3, <1>6
    <3>2. QED  BY <3>1, Regroup, SMTT(60)
  <2>3. front' = front
    BY <1>5, ContentsPrimed DEF front
  <2>4. Contents(outputBuffer)' = rest
    BY <1>7, ContentsPrimed
  <2>5. sentBytes' = (front' \o wire') \o rest
    BY <1>5, <2>1, <2>2, <2>3
  <2>6. QED  BY <1>6, <2>4, <2>5 DEF Accounted, front
<1>12. Accounted'
  BY <1>11 DEF Accounted
<1>13. Announced'
  BY <1>5 DEF Announced
<1>14. QED  BY <1>5, <1>9, <1>10, <1>12, <1>13, StillAligned DEF IInv

\* WriteHandle when write() fails: in a connection that is up and keeps to the pace
\* that does not happen, since the socket has room while its outputBuffer has bytes.
LEMMA WriteFailsStep == ASSUME IInv, WriteHandleFails PROVE IInv'
<1>0. ~(paced /\ state = "up")
  <2>1. Room = 0 => ~(Room > 0)
    OBVIOUS
  <2>2. QED  BY <2>1 DEF IInv, Announced, WriteHandleFails, WriteFails
<1>1. TypeOK /\ Pending /\ Defined /\ reported
  BY DEF IInv, WriteHandleFails
<1>2. /\ outputBuffer' = Retrieve(outputBuffer, -1)
      /\ writing' = (writing /\ Readable(outputBuffer') # 0)
      /\ reported' = FALSE
      /\ fault' = (IF outputBuffer'.readIndex < 0 THEN "undefined" ELSE fault)
      /\ UNCHANGED <<wire, state, sent, sentBytes, paced, inputBuffer, unpacking, delivered, takenBytes>>
  BY DEF WriteHandleFails, receiver
<1>3. outputBuffer \in LooseBuffers /\ inputBuffer \in LooseBuffers
  BY <1>1 DEF TypeOK, Defined
<1>4. /\ Retrieve(outputBuffer, -1).readIndex >= 0 => outputBuffer' \in LooseBuffers
      /\ Readable(outputBuffer) > 0 => /\ Readable(outputBuffer') \in Int
                                       /\ Readable(outputBuffer') > 0
  BY <1>2, <1>3, RetrieveBack
<1>5. fault' # "undefined" => outputBuffer' \in LooseBuffers
  <2>1. Retrieve(outputBuffer, -1).readIndex \in Int
    <3>1. outputBuffer.readIndex \in Int /\ PreAppend \in Int
      BY <1>3, BufferAssumption DEF LooseBuffers
    <3>2. outputBuffer = [buf |-> outputBuffer.buf, readIndex |-> outputBuffer.readIndex,
                          writeIndex |-> outputBuffer.writeIndex]
      BY <1>3 DEF LooseBuffers
    <3>3. -1 + outputBuffer.readIndex \in Int
      BY <3>1
    <3>4. QED  BY <3>1, <3>2 DEF Retrieve
  <2>2. QED  BY <1>2, <1>4, <2>1
<1>6. TypeOK'
  <2>1. fault' \in {"none", "negative", "undefined"} /\ (fault' = fault \/ fault' = "undefined")
    BY <1>1, <1>2 DEF TypeOK
  <2>2. QED  BY <1>0, <1>1, <1>2, <1>3, <1>5, <2>1 DEF TypeOK
<1>7. Pending'
  <2>1. ASSUME state # "closed"
        PROVE  /\ writing /\ Readable(outputBuffer') > 0 /\ Readable(outputBuffer') # 0
    <3>1. writing /\ Readable(outputBuffer) > 0
      BY <1>1, <2>1 DEF Pending
    <3>2. Readable(outputBuffer') \in Int /\ Readable(outputBuffer') > 0
      BY <1>4, <3>1
    <3>3. QED  BY <3>1, <3>2
  <2>2. QED  BY <1>2, <2>1, ContentsPrimed DEF Pending
<1>8. Accounted'
  BY <1>0, <1>2, ContentsPrimed DEF IInv, Accounted
<1>9. Announced'
  BY <1>2 DEF Announced
<1>10. QED  BY <1>2, <1>6, <1>7, <1>8, <1>9, StillAligned DEF IInv

\* A reset takes the end of what is under way.
LEMMA ResetStep == ASSUME IInv, Reset PROVE IInv'
<1> DEFINE front == takenBytes \o Contents(inputBuffer)
<1>1. TypeOK /\ Pending /\ Defined /\ state = "up" /\ state' = "reset"
  BY DEF IInv, Reset
<1>2. UNCHANGED <<outputBuffer, writing, reported, sent, sentBytes, paced, inputBuffer,
                  unpacking, delivered, takenBytes, fault>>
  BY DEF Reset, sender, receiver
<1>3. PICK k \in 0 .. Len(wire) : wire' = SubSeq(wire, 1, k)
  BY DEF Reset
<1> DEFINE lost == SubSeq(wire, k + 1, Len(wire))
<1>4. /\ wire \in Seq(Byte) /\ Contents(inputBuffer) \in Seq(Byte) /\ takenBytes \in Seq(Byte)
  BY <1>1, ContentsOfBuffer DEF TypeOK, Defined
<1>5. wire' \in Seq(Byte) /\ lost \in Seq(Byte) /\ wire = wire' \o lost
  BY <1>3, <1>4, SplitBytes
<1> HIDE DEF lost
<1>6. TypeOK'
  BY <1>1, <1>2, <1>5 DEF TypeOK
<1>7. Pending'
  BY <1>1, <1>2, ContentsPrimed DEF Pending, Defined
<1>8. ASSUME paced' PROVE Accounted'
  <2>1. PICK rest \in Seq(Byte) : sentBytes = (front \o wire) \o rest
    BY <1>2, <1>8 DEF IInv, Accounted
  <2>2. front \in Seq(Byte)
    BY <1>4, ConcatProperties
  <2>3. front' = front
    BY <1>2, ContentsPrimed
  <2> HIDE DEF front
  <2>4. (front \o (wire' \o lost)) \o rest = (front \o wire') \o (lost \o rest)
    BY <1>5, <2>2, Regroup, SMTT(60)
  <2>5. lost \o rest \in Seq(Byte)
    BY <1>5, ConcatProperties
  <2>6. sentBytes' = (front' \o wire') \o (lost \o rest)
    BY <1>2, <1>5, <2>1, <2>3, <2>4
  <2>7. QED  BY <1>1, <2>5, <2>6 DEF Accounted, front
<1>9. Accounted'
  BY <1>8 DEF Accounted
<1>10. Announced'
  BY <1>1 DEF Announced
<1>11. QED  BY <1>2, <1>6, <1>7, <1>9, <1>10, StillAligned DEF IInv

\* ErrorHandel closes the connection and asks for no more events.
LEMMA ErrorStep == ASSUME IInv, ErrorHandel PROVE IInv'
<1>1. /\ UNCHANGED <<outputBuffer, sent, sentBytes, paced, wire, inputBuffer, unpacking,
                     delivered, takenBytes, fault>>
      /\ state' = "closed" /\ writing' = FALSE /\ reported' = writing
  BY DEF ErrorHandel, receiver
<1>2. TypeOK'
  BY <1>1 DEF IInv, TypeOK
<1>3. Pending'
  BY <1>1 DEF Pending
<1>4. Accounted'
  BY <1>1, ContentsPrimed DEF IInv, Accounted
<1>5. Announced'
  BY <1>1 DEF Announced
<1>6. QED  BY <1>1, <1>2, <1>3, <1>4, <1>5, StillAligned DEF IInv

\* ReadHandel: what has arrived goes behind what inputBuffer holds.
LEMMA ReadStep ==
    ASSUME IInv, NEW k \in 1 .. Len(wire), ReadHandel(k)
    PROVE  IInv'
<1> DEFINE in == Contents(inputBuffer)
           first == SubSeq(wire, 1, k)
           left == SubSeq(wire, k + 1, Len(wire))
<1>1. TypeOK /\ Pending /\ Defined
  BY DEF IInv, ReadHandel
<1>2. /\ wire \in Seq(Byte) /\ takenBytes \in Seq(Byte) /\ in \in Seq(Byte)
      /\ outputBuffer \in LooseBuffers /\ inputBuffer \in LooseBuffers
  BY <1>1, ContentsOfBuffer DEF TypeOK, Defined
<1>3. k \in 0 .. Len(wire)
  BY <1>2, LenProperties
<1>4. first \in Seq(Byte) /\ left \in Seq(Byte) /\ first \o left = wire
  BY <1>2, <1>3, SplitBytes
<1>5. /\ inputBuffer' = ReadFd(inputBuffer, first) /\ wire' = left /\ unpacking' = TRUE
      /\ fault' = (IF Writable(inputBuffer) < k /\ inputBuffer.readIndex < PreAppend
                   THEN "undefined" ELSE fault)
      /\ UNCHANGED <<outputBuffer, writing, reported, sent, sentBytes, paced, state, delivered, takenBytes>>
  BY DEF ReadHandel, sender
<1> HIDE DEF first, left
<1>6. /\ inputBuffer' \in LooseBuffers /\ Contents(inputBuffer') = in \o first
      /\ inputBuffer \in Buffers => inputBuffer' \in Buffers
  BY <1>2, <1>4, <1>5, ReadKeepsContents
<1>7. inputBuffer \in Buffers => fault' = fault
  <2>1. ASSUME inputBuffer \in Buffers PROVE ~(inputBuffer.readIndex < PreAppend)
    BY <2>1, BufferAssumption DEF Buffers, LooseBuffers
  <2>2. QED  BY <1>5, <2>1
<1>8. TypeOK'
  <2>1. fault' \in {"none", "negative", "undefined"} /\ (fault' = fault \/ fault' = "undefined")
    BY <1>1, <1>5 DEF TypeOK
  <2>2. paced' => inputBuffer' \in Buffers /\ fault' # "negative"
    BY <1>1, <1>5, <1>6, <1>7 DEF TypeOK
  <2>3. paced' /\ state' = "up" => outputBuffer' \in Buffers /\ fault' = "none"
    BY <1>1, <1>5, <1>7 DEF TypeOK
  <2>4. QED  BY <1>1, <1>2, <1>4, <1>5, <1>6, <2>1, <2>2, <2>3 DEF TypeOK
<1>9. Pending'
  <2>1. fault' # "undefined" => fault' = fault
    BY <1>5
  <2>2. QED  BY <1>1, <1>5, <2>1, ContentsPrimed DEF Pending, Defined
<1>10. ASSUME paced' PROVE Accounted'
  <2>1. PICK rest \in Seq(Byte) : /\ sentBytes = ((takenBytes \o in) \o (first \o left)) \o rest
                                  /\ state = "up" => rest = Contents(outputBuffer)
    BY <1>4, <1>5, <1>10 DEF IInv, Accounted
  <2> HIDE DEF in
  <2>2. (takenBytes \o (in \o first)) \o left = (takenBytes \o in) \o (first \o left)
    <3>1. takenBytes \in Seq(Byte) /\ in \in Seq(Byte) /\ first \in Seq(Byte) /\ left \in Seq(Byte)
      BY <1>2, <1>4
    <3>2. QED  BY <3>1, Regroup, SMTT(60)
  <2>3. Contents(inputBuffer)' = in \o first /\ Contents(outputBuffer)' = Contents(outputBuffer)
    BY <1>5, <1>6, ContentsPrimed
  <2>4. sentBytes' = ((takenBytes' \o Contents(inputBuffer)') \o wire') \o rest
    BY <1>5, <2>1, <2>2, <2>3
  <2>5. QED  BY <1>5, <2>1, <2>3, <2>4 DEF Accounted
<1>11. Accounted'
  BY <1>10 DEF Accounted
<1>12. Announced'
  <2>1. Len(wire) \in Nat /\ Len(left) = Len(wire) - k
    BY <1>2, <1>3, SplitBytes, LenProperties DEF left
  <2>2. SocketRoom - Len(wire) > 0 => SocketRoom - Len(left) > 0
    BY <1>3, <2>1, StreamAssumption
  <2>3. QED  BY <1>5, <2>2 DEF IInv, Announced, Room
<1>13. QED  BY <1>5, <1>8, <1>9, <1>11, <1>12, StillAligned DEF IInv

\* adapterChar: a message leaves the front of inputBuffer.
LEMMA DeliverStep ==
    ASSUME IInv, Deliver
    PROVE  IInv'
<1> DEFINE in == Contents(inputBuffer)
           n == Size + PacketSize
           first == SubSeq(in, 1, n)
           left == SubSeq(in, n + 1, Len(in))
           message == SubSeq(in, PacketSize + 1, PacketSize + Size)
<1>1. TypeOK /\ Pending /\ Defined
  BY DEF IInv, Deliver
<1>2. /\ in \in Seq(Byte) /\ Len(in) = Readable(inputBuffer) /\ Readable(inputBuffer) \in Nat
      /\ takenBytes \in Seq(Byte) /\ wire \in Seq(Byte)
      /\ outputBuffer \in LooseBuffers /\ inputBuffer \in LooseBuffers
  BY <1>1, ContentsOfBuffer DEF TypeOK, Defined
<1>3. Readable(inputBuffer) >= PacketSize /\ Readable(inputBuffer) >= n /\ Size >= 0
  BY DEF Deliver, Complete
<1>4. Size \in Int
  <2>1. 4 \in 0 .. Len(in)
    BY <1>2, <1>3 DEF PacketSize
  <2>2. SubSeq(in, 1, 4) \in Seq(Byte) /\ Len(SubSeq(in, 1, 4)) = 4
    BY <1>2, <2>1, SplitBytes
  <2>3. QED  BY <2>2, HeaderSize DEF Size, PacketSize
<1>5. n \in 0 .. Len(in) /\ n \in 0 .. Readable(inputBuffer) /\ Size \in Nat
  BY <1>2, <1>3, <1>4 DEF PacketSize
<1>6. first \in Seq(Byte) /\ left \in Seq(Byte) /\ first \o left = in /\ Len(first) = n
  BY <1>2, <1>5, SplitBytes
<1>7. message \in Seq(Byte)
  <2>1. \A i \in 1 .. Len(in) : in[i] \in Byte
    BY <1>2, ElementOfSeq
  <2>2. \A i \in PacketSize + 1 .. PacketSize + Size : in[i] \in Byte
    BY <1>2, <1>3, <1>5, <2>1 DEF PacketSize
  <2>3. PacketSize + 1 \in Int /\ PacketSize + Size \in Int
    BY <1>5 DEF PacketSize
  <2>4. QED  BY <2>2, <2>3, SubSeqProperties
<1>8. /\ delivered' = Append(delivered, message) /\ takenBytes' = takenBytes \o first
      /\ inputBuffer' = Retrieve(inputBuffer, n)
      /\ UNCHANGED <<outputBuffer, writing, reported, sent, sentBytes, paced, state, wire,
                     unpacking, fault>>
  BY DEF Deliver, sender
<1>9. paced => /\ Len(delivered) + 1 \in 1 .. Len(sent)
               /\ n = PacketSize + Len(sent[Len(delivered) + 1])
               /\ message = sent[Len(delivered) + 1]
  <2>1. ASSUME paced
        PROVE  /\ Len(delivered) + 1 \in 1 .. Len(sent)
               /\ Size = Len(sent[Len(delivered) + 1])
               /\ message = sent[Len(delivered) + 1]
    BY <1>3, <2>1, NextMessage
  <2>2. QED  BY <1>5, <2>1 DEF PacketSize
<1> HIDE DEF message, n
<1>10. /\ inputBuffer' \in LooseBuffers /\ Contents(inputBuffer') = left
       /\ inputBuffer \in Buffers => inputBuffer' \in Buffers
  <2>1. /\ Retrieve(inputBuffer, n) \in LooseBuffers
        /\ inputBuffer \in Buffers => Retrieve(inputBuffer, n) \in Buffers
        /\ Contents(Retrieve(inputBuffer, n)) = SubSeq(Contents(inputBuffer), n + 1, Readable(inputBuffer))
    BY <1>2, <1>5, RetrieveTakesFront
  <2>2. QED  BY <1>2, <1>8, <2>1
<1> HIDE DEF first, left, in
<1>11. takenBytes' \in Seq(Byte) /\ Len(takenBytes') = Len(takenBytes) + n
  BY <1>2, <1>6, <1>8, ConcatProperties
<1>12. TypeOK'
  <2>1. Append(delivered, message) \in Seq(Seq(Byte))
    BY <1>1, <1>7, AppendProperties DEF TypeOK
  <2>2. QED  BY <1>1, <1>2, <1>8, <1>10, <1>11, <2>1 DEF TypeOK
<1>13. Pending'
  BY <1>1, <1>8, ContentsPrimed DEF Pending, Defined
<1>14. Announced'
  BY <1>8 DEF IInv, Announced, Room
<1>15. ASSUME paced' PROVE Accounted'
  <2>1. PICK rest \in Seq(Byte) : /\ sentBytes = ((takenBytes \o (first \o left)) \o wire) \o rest
                                  /\ state = "up" => rest = Contents(outputBuffer)
    BY <1>6, <1>8, <1>15 DEF IInv, Accounted, in
  <2>2. takenBytes \o (first \o left) = (takenBytes \o first) \o left
    <3>1. takenBytes \in Seq(Byte) /\ first \in Seq(Byte) /\ left \in Seq(Byte)
      BY <1>2, <1>6
    <3>2. QED  BY <3>1, ConcatAssociative, SMTT(60)
  <2>3. Contents(inputBuffer)' = left /\ Contents(outputBuffer)' = Contents(outputBuffer)
    BY <1>8, <1>10, ContentsPrimed
  <2>4. sentBytes' = ((takenBytes' \o Contents(inputBuffer)') \o wire') \o rest
    BY <1>8, <2>1, <2>2, <2>3
  <2>5. QED  BY <1>8, <2>1, <2>3, <2>4 DEF Accounted
<1>16. Accounted'
  BY <1>15 DEF Accounted
<1>17. ASSUME paced' PROVE Aligned'
  <2> DEFINE d == Len(delivered)
  <2>1. /\ d + 1 \in 1 .. Len(sent) /\ n = PacketSize + Len(sent[d + 1])
        /\ message = sent[d + 1] /\ d \in Nat
    BY <1>1, <1>8, <1>9, <1>17, LenProperties DEF TypeOK
  <2>2. /\ Len(delivered') = d + 1 /\ delivered'[d + 1] = message
        /\ \A i \in 1 .. d : delivered'[i] = delivered[i]
    BY <1>1, <1>7, <1>8, AppendProperties DEF TypeOK
  <2>3. /\ \A i \in 1 .. d : delivered[i] = sent[i]
        /\ \E at : AlignedAt(at)
    BY <1>8, <1>17 DEF IInv, Aligned
  <2>4. PICK at : AlignedAt(at)
    BY <2>3
  <2>5. /\ at[d + 1] = Len(takenBytes)
        /\ at[(d + 1) + 1] = at[d + 1] + Len(Frame(sent[d + 1]))
    BY <2>1, <2>4 DEF AlignedAt
  <2>6. Len(Frame(sent[d + 1])) = n
    <3>1. sent[d + 1] \in Messages
      BY <1>1, <2>1, ElementOfSeq DEF TypeOK
    <3>2. QED  BY <2>1, <3>1, FrameBytes
  <2>7. at[Len(delivered') + 1] = Len(takenBytes')
    BY <1>11, <2>2, <2>5, <2>6
  <2>8. AlignedAt(at)'
    BY <1>8, <2>4, <2>7 DEF AlignedAt
  <2>9. \A i \in 1 .. Len(delivered') : delivered'[i] = sent'[i]
    <3> SUFFICES ASSUME NEW i \in 1 .. d + 1 PROVE delivered'[i] = sent[i]
      BY <1>8, <2>2
    <3>1. CASE i \in 1 .. d
      BY <2>2, <2>3, <3>1
    <3>2. CASE ~(i \in 1 .. d)
      <4>1. i = d + 1
        BY <2>1, <3>2
      <4>2. QED  BY <2>1, <2>2, <4>1
    <3>3. QED  BY <3>1, <3>2
  <2>10. Len(delivered') <= Len(sent')
    <3>1. d + 1 <= Len(sent)
      BY <2>1
    <3>2. QED  BY <1>8, <2>2, <3>1
  <2>11. QED  BY <2>8, <2>9, <2>10 DEF Aligned
<1>18. Aligned'
  BY <1>17 DEF Aligned
<1>19. QED  BY <1>12, <1>13, <1>14, <1>16, <1>18 DEF IInv

\* A negative length is only read when users did not keep to the pace.
LEMMA DeliverNegativeStep ==
    ASSUME IInv, DeliverNegative
    PROVE  IInv'
<1>1. TypeOK /\ Pending /\ Defined
  BY DEF IInv, DeliverNegative
<1>2. /\ Readable(inputBuffer) >= PacketSize /\ Readable(inputBuffer) >= Size + PacketSize
      /\ Size < 0 \/ fault = "negative"
      /\ inputBuffer' = Retrieve(inputBuffer, Size + PacketSize)
      /\ fault' = (IF inputBuffer'.readIndex < 0 THEN "undefined" ELSE "negative")
      /\ UNCHANGED <<outputBuffer, writing, reported, sent, sentBytes, paced, state, wire,
                     unpacking, delivered, takenBytes>>
  BY DEF DeliverNegative, Complete, sender
<1>3. outputBuffer \in LooseBuffers /\ inputBuffer \in LooseBuffers
  BY <1>1 DEF TypeOK, Defined
<1>4. ~paced
  <2>1. SUFFICES ASSUME paced PROVE FALSE
    OBVIOUS
  <2>2. Size \in Nat
    BY <1>2, <2>1, NextMessage
  <2>3. QED  BY <1>1, <1>2, <2>1, <2>2 DEF TypeOK
<1>5. Size \in Int
  <2>1. /\ Contents(inputBuffer) \in Seq(Byte)
        /\ Len(Contents(inputBuffer)) = Readable(inputBuffer) /\ Readable(inputBuffer) \in Nat
    BY <1>3, ContentsOfBuffer
  <2>2. 4 \in 0 .. Len(Contents(inputBuffer))
    BY <1>2, <2>1 DEF PacketSize
  <2>3. SubSeq(Contents(inputBuffer), 1, 4) \in Seq(Byte) /\ Len(SubSeq(Contents(inputBuffer), 1, 4)) = 4
    BY <2>1, <2>2, SplitBytes
  <2>4. QED  BY <2>3, HeaderSize DEF Size, PacketSize
<1>6. fault' # "undefined" => inputBuffer' \in LooseBuffers
  <2> DEFINE c == Retrieve(inputBuffer, Size + PacketSize)
  <2>1. Size + PacketSize \in Int
    BY <1>5 DEF PacketSize
  <2>2. c.readIndex >= 0 => c \in LooseBuffers
    BY <1>3, <2>1, RetrieveBack
  <2>3. c.readIndex \in Int
    <3>1. /\ inputBuffer.readIndex \in Int /\ PreAppend \in Int
          /\ inputBuffer = [buf |-> inputBuffer.buf, readIndex |-> inputBuffer.readIndex,
                            writeIndex |-> inputBuffer.writeIndex]
      BY <1>3, BufferAssumption DEF LooseBuffers
    <3>2. inputBuffer.readIndex + (Size + PacketSize) \in Int
      BY <2>1, <3>1
    <3>3. QED  BY <3>1, <3>2 DEF Retrieve
  <2> HIDE DEF c
  <2>4. ~(c.readIndex < 0) => c \in LooseBuffers
    BY <2>2, <2>3
  <2>5. QED  BY <1>2, <2>4 DEF c
<1>7. TypeOK'
  BY <1>1, <1>2, <1>3, <1>4, <1>6 DEF TypeOK
<1>8. Pending'
  BY <1>1, <1>2, ContentsPrimed DEF Pending, Defined
<1>9. Announced' /\ Accounted' /\ Aligned'
  BY <1>2, <1>4 DEF Announced, Accounted, Aligned
<1>10. QED  BY <1>7, <1>8, <1>9 DEF IInv

\* A length near the greatest int is only read when users did not keep to the pace.
LEMMA SumOverflowsStep ==
    ASSUME IInv, SumOverflows
    PROVE  IInv'
<1>1. /\ Readable(inputBuffer) >= PacketSize /\ Size + PacketSize >= Half
      /\ fault' = "undefined"
      /\ UNCHANGED <<outputBuffer, writing, reported, sent, sentBytes, paced, state, wire,
                     inputBuffer, unpacking, delivered, takenBytes>>
  BY DEF SumOverflows, sender, receiver
<1>2. ~paced
  <2>1. SUFFICES ASSUME paced PROVE FALSE
    OBVIOUS
  <2>2. Size \in Nat /\ Size + PacketSize < Half
    BY <1>1, <2>1, NextMessage
  <2>3. QED  BY <1>1, <2>2, Powers DEF PacketSize
<1>3. TypeOK'
  BY <1>1, <1>2 DEF IInv, TypeOK
<1>4. Pending' /\ Announced' /\ Accounted' /\ Aligned'
  BY <1>1, <1>2 DEF Pending, Defined, Announced, Accounted, Aligned
<1>5. QED  BY <1>3, <1>4 DEF IInv

\* Steps that leave the streams alone.
LEMMA StutterStep ==
    ASSUME IInv, UNCHANGED <<sender, state, wire, inputBuffer, delivered, takenBytes, fault>>,
           unpacking' \in BOOLEAN
    PROVE  IInv'
<1>1. UNCHANGED <<outputBuffer, writing, reported, sent, sentBytes, paced, state, wire,
                  inputBuffer, delivered, takenBytes, fault>>
  BY DEF sender
<1>2. TypeOK'
  BY <1>1 DEF IInv, TypeOK
<1>3. Pending' /\ Announced'
  BY <1>1, ContentsPrimed DEF IInv, Pending, Defined, Announced, Room
<1>4. Accounted'
  BY <1>1, ContentsPrimed DEF IInv, Accounted
<1>5. QED  BY <1>1, <1>2, <1>3, <1>4, StillAligned DEF IInv

\* Every step keeps the invariant.
LEMMA NextIInv == IInv /\ [Next]_vars => IInv'
<1> SUFFICES ASSUME IInv, [Next]_vars PROVE IInv'
  OBVIOUS
<1>1. ASSUME NEW m \in Messages, Send(m) PROVE IInv'
  BY <1>1, SendStep
<1>2. CASE Poll
  BY <1>2, PollStep
<1>3. CASE Write
  BY <1>3, WriteStep, WriteFailsStep DEF Write
<1>4. ASSUME NEW k \in 1 .. Len(wire), ReadHandel(k) PROVE IInv'
  BY <1>4, ReadStep
<1>5. CASE Deliver
  BY <1>5, DeliverStep
<1>6. CASE DeliverNegative
  BY <1>6, DeliverNegativeStep
<1>7. CASE SumOverflows
  BY <1>7, SumOverflowsStep
<1>8. CASE Return
  BY <1>8, StutterStep DEF Return
<1>9. CASE Reset
  BY <1>9, ResetStep
<1>10. CASE ErrorHandel
  BY <1>10, ErrorStep
<1>11. CASE UNCHANGED vars
  <2>1. unpacking' \in BOOLEAN
    BY <1>11 DEF vars, receiver, IInv, TypeOK
  <2>2. QED  BY <1>11, <2>1, StutterStep DEF vars, receiver
<1>12. QED
  BY <1>1, <1>2, <1>3, <1>4, <1>5, <1>6, <1>7, <1>8, <1>9, <1>10, <1>11 DEF Next, Receive, Unpack

\* The invariant holds always.
LEMMA Invariance == Spec => []IInv
<1>1. QED  BY InitIInv, NextIInv, PTL DEF Spec

\* The variables keep their types.  The indices of both buffers stay in order and
\* inside the vector until retrieve is called with a negative number too many or
\* append counts room that is not there; with users who keep to the pace neither
\* happens to inputBuffer, nor to outputBuffer before a reset, and adapterChar reads
\* no negative length.
THEOREM TypeCorrect == Spec => []TypeOK
<1>1. IInv => TypeOK
  BY DEF IInv
<1>2. QED  BY Invariance, <1>1, PTL

\* The sender waits for EPOLLOUT exactly while outputBuffer has contents,
\* whatever users send and when, and also after writes that fail.
THEOREM WritesWhilePending == Spec => []WritingWhilePending
<1>1. IInv => WritingWhilePending
  BY DEF IInv, Pending, Defined, WritingWhilePending
<1>2. QED  BY Invariance, <1>1, PTL

\* While users keep to the pace, the bytes of all messages are, in order, in
\* exactly one of the places on the way, so that none is lost or overtaken.
THEOREM PacedStreamIntact == Spec => []StreamIntact
<1>1. ASSUME IInv PROVE StreamIntact
  <2> SUFFICES ASSUME paced, state = "up"
               PROVE  sentBytes = ((takenBytes \o Contents(inputBuffer)) \o wire) \o Contents(outputBuffer)
    BY DEF StreamIntact
  <2>1. PICK rest \in Seq(Byte) :
            /\ sentBytes = ((takenBytes \o Contents(inputBuffer)) \o wire) \o rest
            /\ rest = Contents(outputBuffer)
    BY <1>1 DEF IInv, Accounted
  <2>2. QED  BY <2>1
<1>2. QED  BY Invariance, <1>1, PTL

\* While users keep to the pace, adapterChar gives its callback the messages as they
\* were sent, in their order and from the first on, also when the connection is reset.
THEOREM PacedDeliveredAsSent == Spec => []DeliveredAsSent
<1>1. ASSUME IInv PROVE DeliveredAsSent
  <2> SUFFICES ASSUME paced, NEW i \in 1 .. Len(delivered)
               PROVE  i <= Len(sent) /\ delivered[i] = sent[i]
    BY DEF DeliveredAsSent
  <2>1. /\ Len(delivered) <= Len(sent) /\ delivered[i] = sent[i]
        /\ Len(delivered) \in Nat /\ Len(sent) \in Nat
    BY <1>1, LenProperties DEF IInv, Aligned, TypeOK
  <2>2. QED  BY <2>1
<1>2. QED  BY Invariance, <1>1, PTL
=============================================================================
