------------------------------- MODULE Buffer -------------------------------
(***************************************************************************)
(* fm/Buffer: the bytes of a connection between readIndex and writeIndex   *)
(* of a vector, with some room in front.  Every operation is an operator   *)
(* on the record of the three.                                             *)
(***************************************************************************)
EXTENDS Integers, Sequences

CONSTANTS Base,        \* a byte has Base values: 256 in the code
          PreAppend,   \* preAppendIndex: BUFFER_PREAPPEND
          InitialSize, \* the size of a new vector
          ExtraRoom    \* what one read takes beyond the room in the vector

ASSUME BufferAssumption ==
    /\ Base \in Nat /\ Base > 1
    /\ PreAppend \in Nat /\ InitialSize \in Nat /\ PreAppend <= InitialSize
    /\ ExtraRoom \in Nat

Byte == 0 .. Base - 1

\* The indices lie in the vector and in their order.
LooseBuffers == {b \in [buf : Seq(Byte), readIndex : Nat, writeIndex : Nat] :
                    /\ b.readIndex <= b.writeIndex /\ PreAppend <= b.writeIndex
                    /\ b.writeIndex <= Len(b.buf)}

\* The buffers of which no more is retrieved than there was: the room in front
\* is left alone.
Buffers == {b \in LooseBuffers : PreAppend <= b.readIndex}

NewBuffer == [buf |-> [i \in 1 .. InitialSize |-> 0],
              readIndex |-> PreAppend, writeIndex |-> PreAppend]

Writable(b) == Len(b.buf) - b.writeIndex
Readable(b) == b.writeIndex - b.readIndex
Contents(b) == SubSeq(b.buf, b.readIndex + 1, b.writeIndex)

\* std::copy of data to the position `to' of the vector.
CopyTo(buf, to, data) ==
    [i \in 1 .. Len(buf) |->
        IF to < i /\ i <= to + Len(data) THEN data[i - to] ELSE buf[i]]

\* vector::resize to n, which is more than there is.
Resize(buf, n) == [i \in 1 .. n |-> IF i <= Len(buf) THEN buf[i] ELSE 0]

\* Compacting with writeIndex computed as if nothing had been retrieved.
CompactedInPlace(b) ==
    [buf |-> CopyTo(b.buf, PreAppend, Contents(b)),
     readIndex |-> PreAppend, writeIndex |-> b.writeIndex]

\* append: what was not retrieved moves to the front.
Compacted(b) ==
    [buf |-> CopyTo(b.buf, PreAppend, Contents(b)),
     readIndex |-> PreAppend, writeIndex |-> PreAppend + Readable(b)]

\* append: the buffer with room for n bytes behind its contents.
Roomy(b, n) ==
    IF Writable(b) >= n THEN b
    ELSE IF (b.readIndex - PreAppend) + Writable(b) >= n
         THEN Compacted(b)
         ELSE [b EXCEPT !.buf = Resize(b.buf, b.writeIndex + n)]

\* append of n bytes writes past the vector.  The sum of the room in front and
\* behind is a size_t: with readIndex in the room of PreAppend it may wrap around,
\* and what is there is moved although there is no room for it.
Overruns(b, n) == Writable(b) < n /\ (b.readIndex - PreAppend) + Writable(b) < 0

Stored(b, data) ==
    [buf |-> CopyTo(b.buf, b.writeIndex, data),
     readIndex |-> b.readIndex, writeIndex |-> b.writeIndex + Len(data)]

AppendTo(b, data) == Stored(Roomy(b, Len(data)), data)

\* retrieve: a length that is not there is ignored, a negative one moves readIndex
\* back.
Retrieve(b, len) ==
    LET read == IF len <= Readable(b) THEN b.readIndex + len ELSE b.readIndex
    IN IF read = b.writeIndex
       THEN [buf |-> b.buf, readIndex |-> PreAppend, writeIndex |-> PreAppend]
       ELSE [b EXCEPT !.readIndex = read]

\* A read that appends all it has read once more when it had to use extraBuff.
ReadFdTwice(b, data) ==
    IF Len(data) <= Writable(b) THEN Stored(b, data)
    ELSE AppendTo(Stored(b, SubSeq(data, 1, Writable(b))), data)

\* read: readv fills the vector first and extraBuff with the rest.
ReadFd(b, data) ==
    IF Len(data) <= Writable(b) THEN Stored(b, data)
    ELSE AppendTo(Stored(b, SubSeq(data, 1, Writable(b))),
                  SubSeq(data, Writable(b) + 1, Len(data)))
=============================================================================
