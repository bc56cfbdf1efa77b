------------------------------- MODULE Poller -------------------------------
(***************************************************************************)
(* fm/Poller and fm/Channel on the thread of one event loop, with the life *)
(* of the TCP connections whose channels are registered there.             *)
(*                                                                         *)
(* The point of the module is the numbers: a channel knows its descriptor  *)
(* and its index in pollfds, the kernel hands a closed descriptor out      *)
(* again, and epoll_wait writes its results over pollfds.                  *)
(***************************************************************************)
EXTENDS Descriptors, FiniteSets, SequencesExt

CONSTANTS Conns,      \* connections, each accepted at most once
          Wake, Timer,\* the channels every EventLoop registers for itself
          Listen,     \* the channel of an Acceptor, when this loop has one
          Listening,  \* the kinds of loops: whether they have one
          MaxReady,   \* bound: descriptors that are ready at the same time
          Kicks       \* the kinds of loops whose users call TcpConnection::shutdown

WakeFd == 1     \* eventfd() comes before timerfd_create() in the
TimerFd == 2    \* constructor of EventLoop; the socket of an Acceptor is
ListenFd == 3   \* created later, and before that of any connection

ASSUME PollerAssumption ==
    /\ Fds \subseteq Nat \ 0 .. 3 /\ IsFiniteSet(Fds)
    /\ MaxReady \in Nat \ {0} /\ Listening \subseteq BOOLEAN /\ Kicks \subseteq BOOLEAN
    /\ {Wake, Timer, Listen, None} \cap Conns = {}
    /\ Cardinality({Wake, Timer, Listen, None}) = 4

Events == {"in", "out"}

VARIABLES
    pc,        \* the phase of EventLoop::loop
    reg,       \* all that relates channels and descriptors: pollfds and channelList
               \* of Poller, index and fd of every channel, and of the kernel the
               \* epoll set (`interest' maps each watched descriptor to what it is
               \* watched for) and whose `socket' a number denotes
    events_,   \* of every channel
    state,     \* of every connection
    input,     \* the kernel: descriptors with something to read
    room,      \* the kernel: descriptors that became writable again
    hungUp,    \* connections whose peer has closed
    active,    \* activeChannelList: channels and events still to be handled
    posted,    \* callables posted by other threads: registrations, shutdowns
    most,      \* history: the most descriptors that one poll has returned
    listening  \* whether this loop has an Acceptor; its connections come from there,
               \* or else from the Acceptor of another thread

kernelVars == <<input, room, hungUp>>
vars == <<pc, reg, events_, state, kernelVars, active, posted, most, listening>>

\* The channels registered before the first connection, in that order: the
\* member timerQueue registers before the body of EventLoop's constructor does.
Registry == <<TimerFd, WakeFd>> \o (IF listening THEN <<ListenFd>> ELSE <<>>)
Fixed == {Wake, Timer} \cup (IF listening THEN {Listen} ELSE {})
FixedFds == Range(Registry)

AllFds == Fds \cup FixedFds
Channels == Conns \cup Fixed

Init ==
    /\ listening \in Listening
    /\ pc = "poll"
    /\ reg = [pollfds |-> Registry,
              channelList |-> [f \in AllFds |-> CASE f = WakeFd -> Wake
                                                  [] f = TimerFd -> Timer
                                                  [] f = ListenFd -> Listen
                                                  [] OTHER -> None],
              index |-> [c \in Channels |-> CASE c = Timer -> 0
                                              [] c = Wake -> 1
                                              [] c = Listen -> 2
                                              [] OTHER -> -1],
              fd |-> [c \in Channels |-> CASE c = Wake -> WakeFd
                                           [] c = Timer -> TimerFd
                                           [] c = Listen -> ListenFd
                                           [] OTHER -> 0],
              interest |-> [f \in FixedFds |-> {"in"}],
              socket |-> [f \in Fds |-> None]]
    /\ events_ = [c \in Channels |-> IF c \in Conns THEN {} ELSE {"in"}]
    /\ state = [c \in Conns |-> "none"]
    /\ input = {} /\ room = {} /\ hungUp = {}
    /\ active = {} /\ posted = {} /\ most = 0
-----------------------------------------------------------------------------
(* The other threads and the network.                                      *)

MoreReady(f) == Cardinality(input \cup room \cup {f}) <= MaxReady

\* runInLoop of another thread.  Its tasks can overtake each other (see module
\* EventLoop), so they form a set.
Post(what, c) ==
    /\ MoreReady(WakeFd)
    /\ posted' = posted \cup {<<what, c>>}
    /\ input' = input \cup {WakeFd}

\* accept() gives the lowest free number, which, with the other loops of the
\* process opening and closing theirs, can be any.
Accepted(c, f) ==
    /\ state[c] = "none"
    /\ reg.socket[f] = None
    /\ events_' = [events_ EXCEPT ![c] = {"in"}]
    /\ state' = [state EXCEPT ![c] = "open"]

\* The loop of another thread accepts, and posts the registration of the new
\* channel (enableReading) to this loop.
AcceptElsewhere(c, f) ==
    /\ ~listening
    /\ Accepted(c, f)
    /\ reg' = Open(reg, c, f)
    /\ Post("update", c)
    /\ UNCHANGED <<pc, room, hungUp, active, most, listening>>

\* Another thread calls shutdown() of a connection that it sees open.
PostShutdown(c) ==
    /\ listening \in Kicks
    /\ state[c] = "open"
    /\ Post("shutdown", c)
    /\ UNCHANGED <<pc, reg, events_, state, room, hungUp, active, most, listening>>

\* Data or a connection arrives, or another thread calls wakeUp().  The timer
\* is one more channel like that of wakeUp(): one of the two has input here.
Input(f) ==
    /\ IsOpen(reg, f) /\ f # TimerFd
    /\ MoreReady(f)
    /\ input' = input \cup {f}
    /\ UNCHANGED <<pc, reg, events_, state, room, hungUp, active, posted, most, listening>>

\* The loop has read what there was and the peer closes: the descriptor is
\* readable from now on, and every read returns 0.
HangUp(f) ==
    /\ IsOpen(reg, f)
    /\ f \notin input
    /\ MoreReady(f)
    /\ input' = input \cup {f}
    /\ hungUp' = hungUp \cup {reg.socket[f]}
    /\ UNCHANGED <<pc, reg, events_, state, room, active, posted, most, listening>>

\* The peer reads: a socket that was full has room again.
Room(f) ==
    /\ IsOpen(reg, f)
    /\ "out" \in events_[reg.socket[f]]
    /\ MoreReady(f)
    /\ room' = room \cup {f}
    /\ UNCHANGED <<pc, reg, events_, state, input, hungUp, active, posted, most, listening>>

-----------------------------------------------------------------------------
(* The loop thread: poll, then the handlers, then the posted tasks.        *)

\* What epoll_wait can return: level-triggered readiness.
Ready == {f \in Watched(reg) : \/ "in" \in reg.interest[f] /\ f \in input
                               \/ "out" \in reg.interest[f] /\ f \in room}

\* What epoll_wait leaves in pollfds when it returns the descriptors of order.
Overwrite(pollfds, order) ==
    order \o SubSeq(pollfds, Len(order) + 1, Len(pollfds))

\* Poller::poll.  The kernel returns the ready descriptors in any order, and
\* channelList names the channel of each; an absent one is a null pointer.
Poll ==
    /\ pc = "poll"
    /\ Ready # {}
    /\ \E order \in SetToSeqs(Ready) :
          reg' = [reg EXCEPT !.pollfds = Overwrite(reg.pollfds, order)]
    /\ active' = {e \in Channels \X Events :
                     \E f \in Ready :
                        /\ e[1] = reg.channelList[f]
                        /\ e[2] \in reg.interest[f]
                        /\ f \in (IF e[2] = "in" THEN input ELSE room)}
    /\ pc' = IF \E f \in Ready : reg.channelList[f] = None THEN "crashed" ELSE "dispatch"
    /\ most' = Max({most, Cardinality(Ready)})
    /\ UNCHANGED <<events_, state, kernelVars, posted, listening>>

\* loop() handles the channels in the order of their descriptors, and
\* Channel::handle calls the read callback before the write callback.
IsNext(e) ==
    /\ pc \in {"dispatch", "callback"}
    /\ e \in active
    /\ \A g \in active : \/ reg.fd[e[1]] < reg.fd[g[1]]
                         \/ e[1] = g[1] /\ (e[2] = "in" \/ g[2] = "out")

Dispatched(c, ev) ==
    /\ IsNext(<<c, ev>>)
    /\ active' = active \ {<<c, ev>>}
    /\ pc' = "callback"

\* EventLoop::handleRead and TimerQueue::readTimerfd.
HandleFixed(c) ==
    /\ Dispatched(c, "in")
    /\ input' = input \ {reg.fd[c]}
    /\ UNCHANGED <<reg, events_, state, room, hungUp, posted, most, listening>>

\* Acceptor::handleRead on this loop: the new channel is registered in place.
AcceptHere(c, f) ==
    /\ Dispatched(Listen, "in")
    /\ Accepted(c, f)
    /\ reg' = UpdateChannel(Open(reg, c, f), c, {"in"})
    /\ input' = input \ {ListenFd}
    /\ UNCHANGED <<room, hungUp, posted, most, listening>>

\* TcpConnection::ReadHandel when there is something to read.
ReadData(c) ==
    /\ Dispatched(c, "in")
    /\ reg.fd[c] \in input /\ reg.socket[reg.fd[c]] \notin hungUp
    /\ input' = input \ {reg.fd[c]}
    /\ UNCHANGED <<reg, events_, state, room, hungUp, posted, most, listening>>

\* ReadHandel when read returns 0 (CloseHandel) or -1 (ErrorHandel: nothing to
\* read, or the number is closed): disableAll, remove and close.
ReadFails(c) ==
    LET f == reg.fd[c]
    IN /\ Dispatched(c, "in")
       /\ f \notin input \/ reg.socket[f] \in hungUp
       /\ reg' = Close(RemoveChannel(UpdateChannel(reg, c, {}), c), f)
       /\ events_' = [events_ EXCEPT ![c] = {}]
       /\ state' = [state EXCEPT ![c] = "closed"]
       /\ input' = input \ {f} /\ room' = room \ {f}
       /\ hungUp' = hungUp \ {reg.socket[f]}
       /\ UNCHANGED <<posted, most, listening>>

\* TcpConnection::WriteHandle when write takes all that was left.
WriteAll(c) ==
    LET ev == events_[c] \ {"out"}
    IN /\ Dispatched(c, "out")
       /\ IsOpen(reg, reg.fd[c])
       /\ events_' = [events_ EXCEPT ![c] = ev]
       /\ reg' = UpdateChannel(reg, c, ev)
       /\ UNCHANGED <<state, kernelVars, posted, most, listening>>

\* WriteHandle when write takes a part of it, or fails.
WritePart(c) ==
    /\ Dispatched(c, "out")
    /\ room' = room \ {reg.fd[c]}
    /\ UNCHANGED <<reg, events_, state, input, hungUp, posted, most, listening>>

\* No handler is left.
EndDispatch ==
    /\ pc = "callback"
    /\ active = {}
    /\ pc' = "tasks"
    /\ UNCHANGED <<reg, events_, state, kernelVars, active, posted, most, listening>>

InUserCode == pc \in {"callback", "tasks"}

\* TcpConnection::sendInLoop that cannot write everything: enableWriting.  The
\* registration, posted first, is assumed to have run before anything is sent.
SendPart(c) ==
    LET ev == events_[c] \cup {"out"}
    IN /\ InUserCode
       /\ state[c] = "open" /\ reg.index[c] >= 0
       /\ events_' = [events_ EXCEPT ![c] = ev]
       /\ reg' = UpdateChannel(reg, c, ev)
       /\ room' = room \ {reg.fd[c]}
       /\ UNCHANGED <<pc, state, input, hungUp, active, posted, most, listening>>

\* TcpConnection::shutdownWriteInLoop: disableAll and close, without remove.
ShutdownWriteInLoop(c) ==
    LET f == reg.fd[c]
    IN /\ reg' = Close(UpdateChannel(reg, c, {}), f)
       /\ events_' = [events_ EXCEPT ![c] = {}]
       /\ state' = [state EXCEPT ![c] = "closed"]
       /\ input' = input \ {f} /\ room' = room \ {f}
       /\ hungUp' = hungUp \ {reg.socket[f]}
       /\ UNCHANGED <<pc, active, most, listening>>

\* User code on the loop thread calls shutdown() of a connection it sees open.
ShutdownInPlace(c) ==
    /\ listening \in Kicks
    /\ InUserCode
    /\ state[c] = "open"
    /\ ShutdownWriteInLoop(c)
    /\ UNCHANGED posted

\* The loop runs a posted updateInLoop: what it registers is events_ as it is now.
RunUpdate(c) ==
    /\ pc = "tasks"
    /\ <<"update", c>> \in posted
    /\ posted' = posted \ {<<"update", c>>}
    /\ reg' = UpdateChannel(reg, c, events_[c])
    /\ UNCHANGED <<pc, events_, state, kernelVars, active, most, listening>>

\* The loop runs a posted shutdownWriteInLoop, whatever has happened meanwhile.
RunShutdown(c) ==
    /\ pc = "tasks"
    /\ <<"shutdown", c>> \in posted
    /\ posted' = posted \ {<<"shutdown", c>>}
    /\ ShutdownWriteInLoop(c)

EndTasks ==
    /\ pc = "tasks"
    /\ pc' = "poll"
    /\ UNCHANGED <<reg, events_, state, kernelVars, active, posted, most, listening>>

LoopStep ==
    \/ Poll \/ EndDispatch \/ EndTasks
    \/ \E c \in Fixed : HandleFixed(c)
    \/ \E c \in Conns, f \in Fds : AcceptHere(c, f)
    \/ \E c \in Conns : ReadData(c) \/ ReadFails(c) \/ WriteAll(c) \/ WritePart(c)

Next ==
    \/ LoopStep
    \/ \E c \in Conns :
          \/ SendPart(c) \/ ShutdownInPlace(c) \/ PostShutdown(c)
          \/ RunUpdate(c) \/ RunShutdown(c)
          \/ \E f \in Fds : AcceptElsewhere(c, f)
    \/ \E f \in AllFds : Input(f)
    \/ \E f \in Fds : HangUp(f) \/ Room(f)

\* When the loop runs its tasks is up to module EventLoop.
Spec == Init /\ [][Next]_vars
-----------------------------------------------------------------------------
TypeOK ==
    /\ pc \in {"poll", "dispatch", "callback", "tasks", "crashed"}
    /\ reg.pollfds \in Seq(AllFds)
    /\ reg.channelList \in [AllFds -> Channels \cup {None}]
    /\ reg.index \in [Channels -> -1 .. Len(reg.pollfds) - 1]
    /\ Watched(reg) \subseteq AllFds
    /\ \A f \in Watched(reg) : reg.interest[f] \subseteq Events
    /\ reg.fd \in [Channels -> AllFds \cup {0}]
    /\ reg.socket \in [Fds -> Conns \cup {None}]
    /\ events_ \in [Channels -> SUBSET Events]
    /\ state \in [Conns -> {"none", "open", "closed"}]
    /\ input \subseteq AllFds /\ room \subseteq Fds /\ hungUp \subseteq Conns
    /\ active \subseteq Channels \X Events
    /\ posted \subseteq {"update", "shutdown"} \X Conns
    /\ most \in 0 .. Cardinality(AllFds) /\ listening \in BOOLEAN

\* A loop that accepts its own connections, which nobody shuts down.
Undisturbed == listening /\ listening \notin Kicks

Registered(c) == reg.index[c] >= 0 /\ (c \in Conns => state[c] = "open")

\* Poller::removeChannel unwatches nothing but the channel it is called for: a
\* channel that is registered and not closed is watched for what it asked for.
\* The descriptor to unwatch comes from pollfds, where the comment of updateChannel
\* says the channel has the position of its index; epoll_wait writes there too.
RegisteredIsWatched ==
    \A c \in Channels :
        Registered(c) => /\ reg.fd[c] \in Watched(reg)
                         /\ reg.interest[reg.fd[c]] = events_[c]

\* So it does on an undisturbed loop as long as no poll has returned more
\* descriptors than had entries before the first connection.
WatchedWhileFewReady == Undisturbed /\ most <= Len(Registry) => RegisteredIsWatched

\* Poller.h: one descriptor corresponds to one channel.  The channel found under
\* the descriptor of a registered connection is that connection's.
OneChannelPerFd ==
    \A c \in Channels : Registered(c) => reg.channelList[reg.fd[c]] = c

\* That is so on an undisturbed loop, where numbers are reused as well; and whoever
\* closes a descriptor there closes its own: an open connection has its socket.
OneChannelWhileUndisturbed ==
    Undisturbed => /\ OneChannelPerFd
                   /\ \A c \in Conns : state[c] = "open" => reg.socket[reg.fd[c]] = c

\* poll() never takes a null channel out of channelList; and pollfds, which is also
\* the buffer of epoll_wait, has room for every watched descriptor, so that one
\* poll returns all that are ready.
PollServesAll == pc # "crashed" /\ Cardinality(Watched(reg)) <= Len(reg.pollfds)
=============================================================================
