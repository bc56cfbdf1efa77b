------------------------------- MODULE Stream -------------------------------
(***************************************************************************)
(* One direction of a connection between two loops of this library:        *)
(* unpack::send and TcpConnection::sendInLoop with its outputBuffer on one *)
(* side, a socket that takes a limited number of bytes, and inputBuffer    *)
(* with unpack::adapterChar on the other.  The connection may be reset.    *)
(***************************************************************************)
EXTENDS Buffer

CONSTANTS Messages,    \* byte sequences that users send
          MaxMessages, \* bound: how many of them
          SocketRoom   \* what the two sockets take before write() fails

PacketSize == 4        \* unpack::PACKET_SIZE

\* The numbers of four bytes from which on an int is negative: 2^31.
Half == (Base * Base * Base) * (Base \div 2)

\* Messages are so short that their lengths and frames are counted by an int.
ASSUME StreamAssumption ==
    /\ Base % 2 = 0
    /\ Messages \subseteq Seq(Byte)
    /\ \A m \in Messages : Len(m) + PacketSize < Half
    /\ MaxMessages \in Nat /\ SocketRoom \in Nat \ {0}

VARIABLES
    outputBuffer, \* of the sending TcpConnection
    writing,      \* its channel waits for EPOLLOUT
    reported,     \* poll has reported EPOLLOUT and the write callback has yet to run
    state,        \* "up", "reset" by the peer, "closed" by ErrorHandel
    wire,         \* bytes in the two sockets and between them
    inputBuffer,  \* of the receiving TcpConnection
    unpacking,    \* the receiver is in the loop of adapterChar
    sent,         \* messages users passed to unpack::send, in order
    delivered,    \* messages adapterChar passed to its callback
    sentBytes,    \* history: the bytes sendInLoop was called with
    paced,        \* history: users only sent when the message before was written
                  \* out and the socket had room, as in a dialogue
    takenBytes,   \* history: the bytes adapterChar retrieved
    fault         \* history: "negative" once adapterChar has read a negative length,
                  \* "undefined" once an index has left its vector; "none" before

sender == <<outputBuffer, writing, reported, sent, sentBytes, paced>>
receiver == <<inputBuffer, unpacking, delivered, takenBytes>>
vars == <<sender, state, wire, receiver, fault>>

Init ==
    /\ outputBuffer = NewBuffer /\ inputBuffer = NewBuffer
    /\ writing = FALSE /\ reported = FALSE /\ unpacking = FALSE
    /\ state = "up"
    /\ wire = <<>>
    /\ sent = <<>> /\ delivered = <<>>
    /\ sentBytes = <<>> /\ takenBytes = <<>> /\ paced = TRUE /\ fault = "none"

\* Nothing is said of what comes after an access outside of a vector.
Defined == fault # "undefined"
-----------------------------------------------------------------------------
(* unpack: a header of four bytes, the most significant one first.         *)

intToBytes(n) == <<((n \div Base) \div Base) \div Base % Base, (n \div Base) \div Base % Base,
                   n \div Base % Base, n % Base>>

\* The four bytes as a number without a sign.
Unsigned(h) == ((h[1] * Base + h[2]) * Base + h[3]) * Base + h[4]

\* The four bytes as an int.
bytesToInt(h) == IF Unsigned(h) < Half THEN Unsigned(h) ELSE Unsigned(h) - 2 * Half

\* A header that counts itself.
FrameCountsHeader(m) ==
    LET front == AppendTo(NewBuffer, [i \in 1 .. PacketSize |-> 0])
        headPos == front.writeIndex - PacketSize
        data == AppendTo(front, m)
    IN [data EXCEPT !.buf = CopyTo(data.buf, headPos, intToBytes(Readable(data)))]

\* unpack::send: front and append on a new buffer, then encode.  The bytes front
\* appends are uninitialised; encode writes over all of them.
Framed(m) ==
    LET front == AppendTo(NewBuffer, [i \in 1 .. PacketSize |-> 0])
        headPos == front.writeIndex - PacketSize
        data == AppendTo(front, m)
    IN [data EXCEPT !.buf = CopyTo(data.buf, headPos, intToBytes(Readable(data) - PacketSize))]

Frame(m) == Contents(Framed(m))
-----------------------------------------------------------------------------
(* The sending side.                                                       *)

Room == SocketRoom - Len(wire)

\* The numbers of bytes write() can take out of n.
Taken(n) == {k \in 1 .. n : state = "up" /\ k <= Room}

\* write() returns -1.
WriteFails == state # "up" \/ Room = 0

\* sendInLoop that keeps the rest but does not ask for EPOLLOUT.
SendPartSilently(m, k) ==
    LET data == Frame(m)
    IN /\ k \in Taken(Len(data)) /\ k < Len(data)
       /\ wire' = wire \o SubSeq(data, 1, k)
       /\ outputBuffer' = AppendTo(outputBuffer, SubSeq(data, k + 1, Len(data)))
       /\ fault' = IF Overruns(outputBuffer, Len(data) - k) THEN "undefined" ELSE fault
       /\ UNCHANGED writing

\* sendInLoop when write() takes k bytes but not all: the rest is buffered, and
\* the channel asks for EPOLLOUT.
SendPart(m, k) ==
    LET data == Frame(m)
    IN /\ k \in Taken(Len(data)) /\ k < Len(data)
       /\ wire' = wire \o SubSeq(data, 1, k)
       /\ outputBuffer' = AppendTo(outputBuffer, SubSeq(data, k + 1, Len(data)))
       /\ fault' = IF Overruns(outputBuffer, Len(data) - k) THEN "undefined" ELSE fault
       /\ writing' = TRUE

SendAll(m) ==
    /\ Len(Frame(m)) \in Taken(Len(Frame(m)))
    /\ wire' = wire \o Frame(m)
    /\ UNCHANGED <<outputBuffer, writing, fault>>

\* sendInLoop when write() fails: its -1 is not less than the size as a size_t, so
\* that nothing is left to do.
SendFails ==
    /\ WriteFails
    /\ UNCHANGED <<wire, outputBuffer, writing, fault>>

\* unpack::send of a connected TcpConnection, on the thread of its loop.
Send(m) ==
    /\ Defined
    /\ state # "closed"
    /\ Len(sent) < MaxMessages
    /\ sent' = Append(sent, m)
    /\ sentBytes' = sentBytes \o Frame(m)
    /\ paced' = (paced /\ Readable(outputBuffer) = 0 /\ Room > 0)
    /\ \/ SendAll(m)
       \/ \E k \in Taken(Len(Frame(m))) : SendPart(m, k)
       \/ SendFails
    /\ UNCHANGED <<reported, state, receiver>>

\* poll reports that the socket can be written to.
Poll ==
    /\ Defined
    /\ state = "up" /\ writing /\ ~reported
    /\ Room > 0
    /\ reported' = TRUE
    /\ UNCHANGED <<outputBuffer, writing, sent, sentBytes, paced, state, wire, receiver, fault>>

\* TcpConnection::WriteHandle when write() takes k bytes.
WriteHandle(k) ==
    /\ Defined
    /\ reported /\ reported' = FALSE
    /\ k \in Taken(Readable(outputBuffer))
    /\ wire' = wire \o SubSeq(Contents(outputBuffer), 1, k)
    /\ outputBuffer' = Retrieve(outputBuffer, k)
    /\ writing' = (writing /\ Readable(outputBuffer') # 0)
    /\ UNCHANGED <<state, sent, sentBytes, paced, receiver, fault>>

\* TcpConnection::WriteHandle when write() fails, since users of the same poll have
\* filled the socket or the connection is gone: retrieve gets -1.
WriteHandleFails ==
    /\ Defined
    /\ reported /\ reported' = FALSE
    /\ WriteFails
    /\ outputBuffer' = Retrieve(outputBuffer, -1)
    /\ writing' = (writing /\ Readable(outputBuffer') # 0)
    /\ fault' = IF outputBuffer'.readIndex < 0 THEN "undefined" ELSE fault
    /\ UNCHANGED <<wire, state, sent, sentBytes, paced, receiver>>

\* The peer resets the connection; some of what is under way may yet be read.
Reset ==
    /\ Defined
    /\ state = "up" /\ state' = "reset"
    /\ \E k \in 0 .. Len(wire) : wire' = SubSeq(wire, 1, k)
    /\ UNCHANGED <<sender, receiver, fault>>

\* poll reports the reset, for reading and, if that is asked for, for writing: the
\* read callback runs ReadHandel and ErrorHandel, and the write callback is next.
ErrorHandel ==
    /\ Defined
    /\ state = "reset" /\ state' = "closed"
    /\ writing' = FALSE
    /\ reported' = writing
    /\ UNCHANGED <<outputBuffer, sent, sentBytes, paced, wire, receiver, fault>>
-----------------------------------------------------------------------------
(* The receiving side.                                                     *)

\* TcpConnection::ReadHandel: k bytes have arrived.
ReadHandel(k) ==
    /\ Defined
    /\ ~unpacking
    /\ k <= Writable(inputBuffer) + ExtraRoom
    /\ inputBuffer' = ReadFd(inputBuffer, SubSeq(wire, 1, k))
    /\ fault' = IF Writable(inputBuffer) < k /\ inputBuffer.readIndex < PreAppend
                THEN "undefined" ELSE fault
    /\ wire' = SubSeq(wire, k + 1, Len(wire))
    /\ unpacking' = TRUE
    /\ UNCHANGED <<sender, state, delivered, takenBytes>>

\* The size in the header at readIndex.
Size == bytesToInt(SubSeq(Contents(inputBuffer), 1, PacketSize))

\* The conditions of the loop of adapterChar.
Complete ==
    /\ Readable(inputBuffer) >= PacketSize
    /\ Readable(inputBuffer) >= Size + PacketSize

\* One round of adapterChar: the callback gets the message, which is retrieved.
Deliver ==
    /\ Defined
    /\ unpacking
    /\ Complete
    /\ Size >= 0 /\ fault = "none"
    /\ delivered' = Append(delivered, SubSeq(Contents(inputBuffer), PacketSize + 1, PacketSize + Size))
    /\ takenBytes' = takenBytes \o SubSeq(Contents(inputBuffer), 1, Size + PacketSize)
    /\ inputBuffer' = Retrieve(inputBuffer, Size + PacketSize)
    /\ UNCHANGED <<sender, state, wire, unpacking, fault>>

\* A round with a negative length, or after one: the callback gets it, and retrieve
\* may go back.  The histories do not follow what adapterChar reads from then on.
DeliverNegative ==
    /\ Defined
    /\ unpacking
    /\ Complete
    /\ Size < 0 \/ fault = "negative"
    /\ inputBuffer' = Retrieve(inputBuffer, Size + PacketSize)
    /\ fault' = IF inputBuffer'.readIndex < 0 THEN "undefined" ELSE "negative"
    /\ UNCHANGED <<sender, state, wire, unpacking, delivered, takenBytes>>

\* The length is so near to the greatest int that its sum with PacketSize is none.
SumOverflows ==
    /\ Defined
    /\ unpacking
    /\ Readable(inputBuffer) >= PacketSize /\ Size + PacketSize >= Half
    /\ fault' = "undefined"
    /\ UNCHANGED <<sender, state, wire, receiver>>

\* adapterChar leaves an incomplete message in the buffer.
Return ==
    /\ Defined
    /\ unpacking
    /\ ~Complete
    /\ unpacking' = FALSE
    /\ UNCHANGED <<sender, state, wire, inputBuffer, delivered, takenBytes, fault>>

Write == (\E k \in Taken(Readable(outputBuffer)) : WriteHandle(k)) \/ WriteHandleFails
Unpack == Deliver \/ DeliverNegative \/ SumOverflows \/ Return
Receive == (\E k \in 1 .. Len(wire) : ReadHandel(k)) \/ Unpack

Next ==
    \/ \E m \in Messages : Send(m)
    \/ Poll \/ Write \/ Receive
    \/ Reset \/ ErrorHandel

\* Both loops go on polling and run what is reported; users need not send.
Spec ==
    /\ Init /\ [][Next]_vars
    /\ WF_vars(Poll \/ ErrorHandel) /\ WF_vars(Write) /\ WF_vars(Receive)
-----------------------------------------------------------------------------
\* The types, and the indices of both buffers: they lie in their order in their
\* vectors, as long as no step has gone beyond them, which needs users who send
\* without waiting or a reset; with neither, the room in front is left alone too.
TypeOK ==
    /\ fault # "undefined" => outputBuffer \in LooseBuffers /\ inputBuffer \in LooseBuffers
    /\ paced => inputBuffer \in Buffers /\ fault # "negative"
    /\ paced /\ state = "up" => outputBuffer \in Buffers /\ fault = "none"
    /\ writing \in BOOLEAN /\ reported \in BOOLEAN
    /\ unpacking \in BOOLEAN /\ paced \in BOOLEAN
    /\ state \in {"up", "reset", "closed"} /\ fault \in {"none", "negative", "undefined"}
    /\ wire \in Seq(Byte) /\ sentBytes \in Seq(Byte) /\ takenBytes \in Seq(Byte)
    /\ sent \in Seq(Messages) /\ delivered \in Seq(Seq(Byte))

\* While users keep to the pace, and whatever is written at once, kept, compacted
\* and read in pieces: the bytes sent are those the receiver took, has buffered,
\* are under way and the sender has buffered, in this order.
StreamIntact ==
    paced /\ state = "up" =>
        sentBytes = takenBytes \o Contents(inputBuffer) \o wire \o Contents(outputBuffer)

\* While users keep to the pace adapterChar cuts the stream where unpack::send
\* joined it: what its callback got are the first of the messages sent, each as it
\* was, also when the connection was reset in the middle of one.
DeliveredAsSent ==
    paced => \A i \in 1 .. Len(delivered) : i <= Len(sent) /\ delivered[i] = sent[i]

\* Until it is closed the sender wants EPOLLOUT exactly while it has something to
\* write, so that neither the rest of a message is forgotten nor the loop kept busy;
\* also after writes that fail.
WritingWhilePending ==
    state # "closed" /\ fault # "undefined" => (writing <=> Readable(outputBuffer) > 0)

\* While users keep to the pace every message that is sent is delivered, as the
\* message it was and in its turn, unless the connection is reset.
PacedArrives ==
    \A n \in 1 .. MaxMessages :
        (Len(sent) = n) ~> \/ [](Len(delivered) >= n /\ delivered[n] = sent[n])
                           \/ ~paced \/ state # "up"

\* Claimed by TcpConnection.h of outputBuffer: what cannot be written is put into
\* the buffer.  Then a connection that is up has every byte that was sent somewhere.
UnwrittenIsBuffered ==
    state = "up" /\ fault = "none" =>
        Len(sentBytes) = Len(takenBytes) + Readable(inputBuffer) + Len(wire) + Readable(outputBuffer)
=============================================================================
