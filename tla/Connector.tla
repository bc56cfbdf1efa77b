------------------------------ MODULE Connector ------------------------------
(***************************************************************************)
(* fm/Connector and fm/TcpClient on the thread of one event loop: attempts *)
(* to connect, retries, and the hand-over of a socket to a TcpConnection.  *)
(* Other connections of the same loop come and go, and the descriptor      *)
(* numbers that one closes are given to the next.                          *)
(*                                                                         *)
(* The tables are those of Descriptors without the channels of the loop    *)
(* itself: whose entries come first in pollfds, so that epoll_wait, as     *)
(* long as it returns no more than two descriptors, writes over no other   *)
(* (WatchedWhileFewReady in module Poller).                                *)
(***************************************************************************)
EXTENDS Descriptors

CONSTANTS Others,      \* connections that the connector has nothing to do with
          MaxAttempts, \* bound: calls of Connector::connect
          MaxStarts    \* bound: calls of TcpClient::connect

ASSUME ConnectorAssumption ==
    /\ Fds \subseteq Nat \ {0}
    /\ MaxAttempts \in Nat /\ MaxStarts \in Nat

Attempts == 1 .. MaxAttempts

\* The channel of an attempt, which also names its socket, and the channel of
\* the TcpConnection that the socket becomes.
Try(k) == <<"try", k>>
Conn(k) == <<"conn", k>>

Tries == {Try(k) : k \in Attempts}
Conns == {Conn(k) : k \in Attempts} \cup Others
Sockets == Tries \cup Others
Channels == Tries \cup Conns

ASSUME ChannelAssumption ==
    /\ (Tries \cup {Conn(k) : k \in Attempts}) \cap (Others \cup {None}) = {}
    /\ None \notin Others \cup Attempts

VARIABLES
    reg,       \* the tables of Descriptors
    fd_,       \* of Connector, which the constructor leaves uninitialized
    state_,    \* of Connector
    channel,   \* of Connector: the attempt whose channel it is, or None
    pending,   \* calls of startInLoop that are posted or wait for their timer
    attempts,  \* history: calls of connect so far
    starts,    \* history: calls of TcpClient::connect so far
    outcome,   \* the kernel: what became of every connect()
    state,     \* of every TcpConnection
    overdrawn  \* the TcpConnections whose outputBuffer has a byte too many

vars == <<reg, fd_, state_, channel, pending, attempts, starts, outcome, state,
          overdrawn>>

Init ==
    /\ reg = [pollfds |-> <<>>,
              channelList |-> [f \in Fds |-> None],
              index |-> [c \in Channels |-> -1],
              fd |-> [c \in Channels |-> 0],
              interest |-> [f \in {} |-> {}],
              socket |-> [f \in Fds |-> None]]
    /\ fd_ \in {0} \cup Fds
    /\ state_ = "disconnected" /\ channel = None
    /\ pending = 0 /\ attempts = 0 /\ starts = 0
    /\ outcome = [s \in Sockets |-> IF s \in Others THEN "ok" ELSE "pending"]
    /\ state = [c \in Conns |-> "none"]
    /\ overdrawn = {}
-----------------------------------------------------------------------------
(* Connector.                                                              *)

\* TcpClient::connect, from any thread and as often as the user likes.
Start ==
    /\ starts < MaxStarts
    /\ starts' = starts + 1
    /\ pending' = pending + 1
    /\ UNCHANGED <<reg, fd_, state_, channel, attempts, outcome, state, overdrawn>>

\* A connect() that leaves it to its callers to close what it had.
KeptOpen(r) == r

\* connect() closes the number it used last, whoever has it now.
Released(r) == IF fd_ = 0 THEN r ELSE Close(r, fd_)

\* A connecting() that removes the old channel when the new one is in place.
ConnectingFirst(r, k) ==
    LET new == UpdateChannel(r, Try(k), {"out"})
    IN IF channel = None THEN new
       ELSE RemoveChannel(UpdateChannel(new, Try(channel), {}), Try(channel))

\* connecting: the old channel is removed, which may be long after its number
\* was closed, and the new one waits until its socket is writable.
Connecting(r, k) ==
    LET cleared == IF channel = None THEN r
                   ELSE RemoveChannel(UpdateChannel(r, Try(channel), {}), Try(channel))
    IN UpdateChannel(cleared, Try(k), {"out"})

\* startInLoop and connect() up to the answer of ::connect: the tables with a
\* new socket of the number f.
NewSocket(f) == Open(Released(reg), Try(attempts + 1), f)

StartInLoop(f) ==
    /\ pending > 0 /\ attempts < MaxAttempts
    /\ Released(reg).socket[f] = None
    /\ attempts' = attempts + 1
    /\ fd_' = f
    /\ UNCHANGED <<starts, outcome, state, overdrawn>>

\* The connection is under way.
ConnectBegins(f) ==
    /\ StartInLoop(f)
    /\ reg' = Connecting(NewSocket(f), attempts + 1)
    /\ state_' = "connecting" /\ channel' = attempts + 1
    /\ pending' = pending - 1

\* It is refused at once: retry, with startInLoop again after a second.
ConnectRefused(f) ==
    /\ StartInLoop(f)
    /\ reg' = Close(NewSocket(f), f)
    /\ state_' = "disconnected"
    /\ UNCHANGED <<pending, channel>>

\* It is an error: the socket is closed and nothing else will happen.
ConnectFails(f) ==
    /\ StartInLoop(f)
    /\ reg' = Close(NewSocket(f), f)
    /\ state_' = "disconnected"
    /\ pending' = pending - 1
    /\ UNCHANGED channel

\* The kernel: an attempt succeeds or fails.
Resolve(s, what) ==
    /\ outcome[s] = "pending"
    /\ \E f \in Fds : reg.socket[f] = s
    /\ outcome' = [outcome EXCEPT ![s] = what]
    /\ UNCHANGED <<reg, fd_, state_, channel, pending, attempts, starts, state,
                   overdrawn>>

\* The peer of an established connection, or one whose channel does not know it
\* yet, resets it.  Until handleWrite asks, the attempt has failed.
ResetByPeer(s) ==
    /\ outcome[s] = "ok"
    /\ \E f \in Fds : reg.socket[f] = s
    /\ outcome' = [outcome EXCEPT ![s] = "error"]
    /\ UNCHANGED <<reg, fd_, state_, channel, pending, attempts, starts, state,
                   overdrawn>>

\* The loop calls c for the event ev.
Reported(c, ev) ==
    LET f == reg.fd[c]
    IN f \in Watched(reg) /\ reg.channelList[f] = c /\ ev \in reg.interest[f]

\* The socket that the number of c denotes.
SocketOf(c) == reg.socket[reg.fd[c]]

\* The loop calls Connector::handleWrite.
Writable ==
    /\ channel # None /\ Reported(Try(channel), "out")
    /\ outcome[SocketOf(Try(channel))] # "pending"

\* A retry that forgets that the attempt is over.
HandleErrorOpenEnded ==
    /\ Writable /\ state_ = "connecting"
    /\ outcome[SocketOf(Try(channel))] = "error"
    /\ reg' = Close(reg, reg.fd[Try(channel)])
    /\ pending' = pending + 1
    /\ UNCHANGED <<fd_, state_, channel, attempts, starts, outcome, state, overdrawn>>

\* handleWrite of an attempt that failed: retry closes the socket and leaves fd_
\* and the channel as they are.
HandleError ==
    /\ Writable /\ state_ = "connecting"
    /\ outcome[SocketOf(Try(channel))] = "error"
    /\ reg' = Close(reg, reg.fd[Try(channel)])
    /\ state_' = "disconnected"
    /\ pending' = pending + 1
    /\ UNCHANGED <<fd_, channel, attempts, starts, outcome, state, overdrawn>>

\* TcpClient::handelConnect: a second channel for the number, while the first
\* one is still registered, and the number watched for "out".
HandelConnect(k) ==
    UpdateChannel([reg EXCEPT !.fd[Conn(k)] = reg.fd[Try(k)]], Conn(k), {"in"})

\* handleWrite of an attempt that succeeded.
HandleConnected ==
    /\ Writable /\ state_ = "connecting"
    /\ outcome[SocketOf(Try(channel))] = "ok"
    /\ state_' = "connected"
    /\ reg' = HandelConnect(channel)
    /\ state' = [state EXCEPT ![Conn(channel)] = "open"]
    /\ UNCHANGED <<fd_, channel, pending, attempts, starts, outcome, overdrawn>>

HandleWrite == HandleError \/ HandleConnected
-----------------------------------------------------------------------------
(* The TcpConnections of the loop.                                         *)

\* A connection of another owner is accepted and registered.
Accept(o, f) ==
    /\ state[o] = "none"
    /\ reg.socket[f] = None
    /\ reg' = UpdateChannel(Open(reg, o, f), o, {"in"})
    /\ state' = [state EXCEPT ![o] = "open"]
    /\ UNCHANGED <<fd_, state_, channel, pending, attempts, starts, outcome, overdrawn>>

\* A WriteHandle that returns at once if there is nothing to write.
WriteHandleEarly(c) ==
    /\ Reported(c, "out")
    /\ UNCHANGED vars

\* WriteHandle with nothing to write, or with the byte of the buffer that a call
\* before it has moved back to: disableWriting.
WriteHandle(c) ==
    /\ Reported(c, "out") /\ outcome[SocketOf(c)] # "error"
    /\ reg' = UpdateChannel(reg, c, {"in"})
    /\ overdrawn' = overdrawn \ {c}
    /\ UNCHANGED <<fd_, state_, channel, pending, attempts, starts, outcome, state>>

\* WriteHandle after a reset: write fails, its -1 is retrieved from outputBuffer,
\* which then seems to hold a byte more, and writing is not disabled.
WriteHandleFails(c) ==
    /\ Reported(c, "out") /\ outcome[SocketOf(c)] = "error"
    /\ overdrawn' = overdrawn \cup {c}
    /\ UNCHANGED <<reg, fd_, state_, channel, pending, attempts, starts, outcome, state>>

\* CloseHandel and ErrorHandel: the peer has hung up.
CloseHandel(c) ==
    /\ Reported(c, "in")
    /\ reg' = Close(RemoveChannel(UpdateChannel(reg, c, {}), c), reg.fd[c])
    /\ state' = [state EXCEPT ![c] = "closed"]
    /\ UNCHANGED <<fd_, state_, channel, pending, attempts, starts, outcome, overdrawn>>

\* The user calls shutdown() of a connection that it sees open: disableAll and
\* close, without remove.
ShutdownWriteInLoop(c) ==
    /\ state[c] = "open"
    /\ reg' = Close(UpdateChannel(reg, c, {}), reg.fd[c])
    /\ state' = [state EXCEPT ![c] = "closed"]
    /\ UNCHANGED <<fd_, state_, channel, pending, attempts, starts, outcome, overdrawn>>

Next ==
    \/ Start \/ HandleWrite
    \/ \E f \in Fds : ConnectBegins(f) \/ ConnectRefused(f) \/ ConnectFails(f)
    \/ \E s \in Tries, what \in {"ok", "error"} : Resolve(s, what)
    \/ \E s \in Sockets : ResetByPeer(s)
    \/ \E o \in Others, f \in Fds : Accept(o, f)
    \/ \E c \in Conns : \/ WriteHandle(c) \/ WriteHandleFails(c)
                       \/ CloseHandel(c) \/ ShutdownWriteInLoop(c)

\* The loop polls again and again, and calls the handler of a descriptor that
\* stays ready.  Nobody is obliged to connect, to answer or to close.
Fairness == WF_vars(HandleWrite) /\ \A c \in Conns : WF_vars(WriteHandle(c))

Spec == Init /\ [][Next]_vars /\ Fairness
-----------------------------------------------------------------------------
Tables == [pollfds : Seq(Fds),
           channelList : [Fds -> Channels \cup {None}],
           index : [Channels -> Int],
           fd : [Channels -> {0} \cup Fds],
           interest : UNION {[F -> SUBSET {"in", "out"}] : F \in SUBSET Fds},
           socket : [Fds -> Sockets \cup {None}]]

\* Every index is -1 or that of an entry of pollfds.
IsTables(r) ==
    /\ r \in Tables
    /\ \A c \in Channels : r.index[c] \in -1 .. Len(r.pollfds) - 1

TypeOK ==
    /\ IsTables(reg)
    /\ fd_ \in {0} \cup Fds
    /\ state_ \in {"disconnected", "connecting", "connected"}
    /\ channel \in Attempts \cup {None}
    /\ pending \in 0 .. MaxStarts
    /\ attempts \in 0 .. MaxAttempts /\ starts \in 0 .. MaxStarts
    /\ outcome \in [Sockets -> {"pending", "ok", "error"}]
    /\ state \in [Conns -> {"none", "open", "closed"}]
    /\ overdrawn \subseteq Conns

\* No socket leaks: of all the sockets Connector::connect has made, at most the
\* one of fd_ is open, whoever was to close the others, so that the next call of
\* connect closes it.
NoSocketLeaks == \A f \in Fds : reg.socket[f] \in Tries => f = fd_

\* Retries do not multiply: however attempts fail, for every call of
\* TcpClient::connect there is at most one attempt, connection or retry timer.
UnderWay == IF state_ = "disconnected" THEN 0 ELSE 1
RetriesDoNotMultiply == pending + UnderWay <= starts

\* The number of attempt k still denotes its socket.
Owns(k) == reg.fd[Try(k)] \in Fds /\ SocketOf(Try(k)) = Try(k)

\* Connector::handleWrite asserts that it is not called any more when the socket
\* has become a connection; and although TcpClient::handelConnect registers the
\* number a second time, which the kernel refuses, the connection is watched for
\* input in the end, unless the peer resets it first: from then on every
\* WriteHandle fails, and the connection never hears that it is over.
HandedOverIsHeard ==
    /\ [](Writable => state_ # "connected")
    /\ \A k \in Attempts :
          state[Conn(k)] = "open" /\ Owns(k)
              ~> \/ ~Owns(k) \/ outcome[Try(k)] = "error"
                 \/ "in" \in reg.interest[reg.fd[Try(k)]]

\* An attempt whose outcome is known is noticed, although the channel of an
\* earlier one may still be registered under the same number.
AttemptIsResolved ==
    \A k \in Attempts :
        LET Waits == state_ = "connecting" /\ channel = k /\ Owns(k)
        IN Waits /\ outcome[Try(k)] # "pending" ~> ~Waits
=============================================================================
