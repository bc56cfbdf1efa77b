------------------------------- MODULE Server -------------------------------
(***************************************************************************)
(* fm/TcpServer with its Acceptor and the pool of loops behind it          *)
(* (EventLoopThreadPool, EventLoopThread): how the loops are started, and  *)
(* how a fresh connection is handed to one of them while that loop already *)
(* serves it.                                                              *)
(*                                                                         *)
(* Loops are numbered: 0 is the loop of the server, the one the thread     *)
(* created k-th builds on its stack is k.  A callback that another thread  *)
(* is just setting is seen either as set or as empty.                      *)
(*                                                                         *)
(* What the loops do not promise is not assumed: a posted registration may *)
(* wait for ever (EveryPostedTaskRuns in EventLoop), and the removal of    *)
(* one channel may unwatch another's descriptor (RegisteredIsWatched in    *)
(* Poller).  Users do not call shutdown().                                 *)
(***************************************************************************)
EXTENDS Integers, Sequences, FiniteSets

CONSTANTS Conns,     \* connections, each accepted once
          MaxSize,   \* bound: what setThreadNums is called with
          MaxReads,  \* bound: how often data arrives for a connection
          None

ASSUME ServerAssumption ==
    /\ MaxSize \in Nat /\ MaxReads \in Nat
    /\ None \notin Conns \cup Nat

Pool == 1 .. MaxSize
Loops == {0} \cup Pool

\* The callbacks of the user, in the order in which handelAccept sets them.
CallBacks == <<"connect", "read", "close", "error">>

VARIABLES
    size,      \* the number of loops of the pool
    mpc,       \* the server's thread: in startLoop, in its loop ("serve"), or in
               \* handelAccept between two of its statements
    tpc,       \* where the thread of each loop of the pool is
    loop_,     \* of the one EventLoopThread that loopThread holds size times
    eventLoop, \* EventLoopThreadPool::eventLoop, as far as it is filled
    next,      \* of EventLoopThreadPool
    conn,      \* the connection handelAccept works on, or None
    home,      \* the loop of each connection, None before it is accepted
    posted,    \* connections whose registration has been posted to their loop
    watched,   \* connections whose channel is registered
    forwarding,\* connections whose channel has its callbacks
    equipped,  \* of each connection: how many of the user's CallBacks it has
    state,     \* of each connection
    data,      \* the kernel: connections with something to read
    hungUp,    \* the kernel: connections whose peer has closed
    reset,     \* the kernel: connections whose peer has reset them
    closed,    \* the kernel: connections whose descriptor has been closed here
    closing,   \* of each loop: the connection it is closing, or None
    told,      \* closed connections whose connectCallBack has had its turn
    log,       \* history: what the user was told of each connection, in order
    reads,     \* history: how often each connection was read from
    early,     \* history: connections that handled an event before handelAccept
               \* had ended
    deafened   \* history: connections unwatched by the removal of another

startVars == <<size, tpc, loop_, eventLoop>>
kernelVars == <<data, hungUp, reset, closed>>
history == <<log, reads, early, deafened>>
connVars == <<home, posted, watched, forwarding, equipped, state, kernelVars, closing, told, history>>
vars == <<startVars, mpc, next, conn, connVars>>

Init ==
    /\ size \in 0 .. MaxSize
    /\ mpc = "start" /\ tpc = [l \in Pool |-> "none"]
    /\ loop_ = None /\ eventLoop = <<>> /\ next = 0
    /\ conn = None /\ home = [c \in Conns |-> None]
    /\ posted = {} /\ watched = {} /\ forwarding = {}
    /\ equipped = [c \in Conns |-> 0]
    /\ state = [c \in Conns |-> "connecting"]
    /\ data = {} /\ hungUp = {} /\ reset = {} /\ closed = {}
    /\ closing = [l \in Loops |-> None] /\ told = {}
    /\ log = [c \in Conns |-> <<>>] /\ reads = [c \in Conns |-> 0]
    /\ early = {} /\ deafened = {}
-----------------------------------------------------------------------------
(* EventLoopThreadPool::start: the same EventLoopThread starts every loop. *)

\* A start that counts on loop_ being null from the beginning.
StartLoopUnreset ==
    /\ mpc = "start"
    /\ Len(eventLoop) < size
    /\ tpc' = [tpc EXCEPT ![Len(eventLoop) + 1] = "func"]
    /\ mpc' = "wait"
    /\ UNCHANGED <<size, eventLoop, loop_, next, conn, connVars>>

\* startLoop, up to its wait.
StartLoop ==
    /\ mpc = "start"
    /\ Len(eventLoop) < size
    /\ loop_' = None
    /\ tpc' = [tpc EXCEPT ![Len(eventLoop) + 1] = "func"]
    /\ mpc' = "wait"
    /\ UNCHANGED <<size, eventLoop, next, conn, connVars>>

\* A wait without the predicate.
WaitUnguarded ==
    /\ mpc = "wait"
    /\ eventLoop' = Append(eventLoop, loop_) /\ mpc' = "start"
    /\ UNCHANGED <<size, tpc, loop_, next, conn, connVars>>

\* cv.wait tests its predicate under mutex_ and either returns or sleeps.
Wait ==
    /\ mpc = "wait"
    /\ IF loop_ # None
       THEN eventLoop' = Append(eventLoop, loop_) /\ mpc' = "start"
       ELSE mpc' = "asleep" /\ UNCHANGED eventLoop
    /\ UNCHANGED <<size, tpc, loop_, next, conn, connVars>>

Spurious ==
    /\ mpc = "asleep"
    /\ mpc' = "wait"
    /\ UNCHANGED <<startVars, next, conn, connVars>>

\* func, under mutex_: the loop is published and the waiter woken.
Publish(l) ==
    /\ tpc[l] = "func"
    /\ loop_' = l
    /\ tpc' = [tpc EXCEPT ![l] = "published"]
    /\ mpc' = IF mpc = "asleep" THEN "wait" ELSE mpc
    /\ UNCHANGED <<size, eventLoop, next, conn, connVars>>

\* func calls loop().
BeginLoop(l) ==
    /\ tpc[l] = "published"
    /\ tpc' = [tpc EXCEPT ![l] = "loop"]
    /\ UNCHANGED <<size, loop_, eventLoop, mpc, next, conn, connVars>>

\* Every loop is started, and the server's own loop begins.
Serve ==
    /\ mpc = "start"
    /\ Len(eventLoop) = size
    /\ mpc' = "serve"
    /\ UNCHANGED <<startVars, next, conn, connVars>>
-----------------------------------------------------------------------------
(* handelAccept on the server's thread.                                    *)

GetNext == IF size = 0 THEN next ELSE (next + 1) % size

\* Acceptor::handleRead, getNext, and enableReading of the new channel, which
\* registers it in place or posts the registration to its loop.
Accept(c) ==
    /\ mpc = "serve" /\ closing[0] = None
    /\ home[c] = None
    /\ next' = GetNext
    /\ home' = [home EXCEPT ![c] = IF size = 0 THEN 0 ELSE eventLoop[next' + 1]]
    /\ IF size = 0 THEN watched' = watched \cup {c} /\ UNCHANGED posted
                   ELSE posted' = posted \cup {c} /\ UNCHANGED watched
    /\ conn' = c /\ mpc' = "forward"
    /\ UNCHANGED <<startVars, forwarding, equipped, state, kernelVars, closing, told, history>>

\* setReadCallBack and setWriteCallBack of the channel.
SetForwarding ==
    /\ mpc = "forward"
    /\ forwarding' = forwarding \cup {conn}
    /\ mpc' = "equip"
    /\ UNCHANGED <<startVars, next, conn, home, posted, watched, equipped, state, kernelVars,
                   closing, told, history>>

\* One of setConnectCallBack to setErrorCallBack of the connection.
SetCallBack ==
    /\ mpc = "equip"
    /\ equipped' = [equipped EXCEPT ![conn] = @ + 1]
    /\ mpc' = IF equipped[conn] + 1 = Len(CallBacks) THEN "connect" ELSE "equip"
    /\ UNCHANGED <<startVars, next, conn, home, posted, watched, forwarding, state, kernelVars,
                   closing, told, history>>

SetConnected ==
    /\ mpc = "connect"
    /\ state' = [state EXCEPT ![conn] = "connected"]
    /\ mpc' = "tell"
    /\ UNCHANGED <<startVars, next, conn, home, posted, watched, forwarding, equipped, kernelVars,
                   closing, told, history>>

\* The user's callback i of c is called for what, if it is set.
Told(c, i, what) ==
    log' = [log EXCEPT ![c] = IF i <= equipped[c] THEN Append(@, what) ELSE @]

\* connectCallBack is called for a new connection and for one that is gone; the
\* user tells them apart by isConnected().
Seen(c) == IF state[c] = "connected" THEN "up" ELSE "down"

TellConnected ==
    /\ mpc = "tell"
    /\ Told(conn, 1, Seen(conn))
    /\ mpc' = "serve" /\ conn' = None
    /\ UNCHANGED <<startVars, next, home, posted, watched, forwarding, equipped, state, kernelVars,
                   closing, told, reads, early, deafened>>
-----------------------------------------------------------------------------
(* The loops, and the peers.                                               *)

\* Loop l is between two handlers.
Free(l) ==
    /\ closing[l] = None
    /\ IF l = 0 THEN mpc = "serve" ELSE tpc[l] = "loop"

\* A loop runs a posted updateInLoop.
Register(c) ==
    /\ c \in posted /\ Free(home[c])
    /\ posted' = posted \ {c}
    /\ watched' = watched \cup {c}
    /\ UNCHANGED <<startVars, mpc, next, conn, home, forwarding, equipped, state, kernelVars,
                   closing, told, history>>

Handles(c) == c \in watched /\ Free(home[c])

Early(c) == early' = early \cup ({c} \cap {conn})

\* ReadHandel reads something and tells the user, if he has been introduced.
ReadData(c) ==
    /\ Handles(c) /\ c \in forwarding
    /\ c \in data
    /\ data' = data \ {c}
    /\ reads' = [reads EXCEPT ![c] = @ + 1]
    /\ Told(c, 2, "read")
    /\ Early(c)
    /\ UNCHANGED <<startVars, mpc, next, conn, home, posted, watched, forwarding, equipped,
                   state, hungUp, reset, closed, closing, told, deafened>>

\* CloseHandel and ErrorHandel up to the callbacks: the state changes, the channel
\* is removed and the descriptor closed.  The removal takes the descriptor it
\* unwatches from pollfds, where epoll_wait may have put another one of the loop.
Leave(c, what) ==
    /\ Handles(c) /\ c \in forwarding
    /\ c \notin data
    /\ state' = [state EXCEPT ![c] = what]
    /\ \E v \in {w \in watched : home[w] = home[c]} :
          /\ watched' = watched \ {c, v}
          /\ deafened' = deafened \cup ({v} \ {c})
    /\ closed' = closed \cup {c}
    /\ closing' = [closing EXCEPT ![home[c]] = c]
    /\ Early(c)
    /\ UNCHANGED <<startVars, mpc, next, conn, home, posted, forwarding, equipped, data, hungUp,
                   reset, told, log, reads>>

\* ReadHandel reads the end of the stream.
CloseHandel(c) == c \in hungUp /\ Leave(c, "close")

\* ReadHandel fails.
ErrorHandel(c) == c \in reset /\ Leave(c, "error")

\* connectCallBack of a connection that is gone, as far as it is set.
TellDown(l) ==
    LET c == closing[l]
    IN /\ c # None /\ c \notin told
       /\ told' = told \cup {c}
       /\ Told(c, 1, Seen(c))
       /\ UNCHANGED <<startVars, mpc, next, conn, home, posted, watched, forwarding, equipped,
                      state, kernelVars, closing, reads, early, deafened>>

\* A close that calls closeCallBack or errorCallBack first.
TellEndFirst(l) ==
    LET c == closing[l]
    IN /\ c # None
       /\ closing' = [closing EXCEPT ![l] = IF c \in told THEN None ELSE c]
       /\ told' = told \cup {c}
       /\ IF c \in told THEN Told(c, 1, Seen(c))
          ELSE IF c \in reset THEN Told(c, 4, "error") ELSE Told(c, 3, "closed")
       /\ UNCHANGED <<startVars, mpc, next, conn, home, posted, watched, forwarding, equipped,
                      state, kernelVars, reads, early, deafened>>

\* closeCallBack, or errorCallBack after an error.
TellEnd(l) ==
    LET c == closing[l]
    IN /\ c # None /\ c \in told
       /\ closing' = [closing EXCEPT ![l] = None]
       /\ IF c \in reset THEN Told(c, 4, "error") ELSE Told(c, 3, "closed")
       /\ UNCHANGED <<startVars, mpc, next, conn, home, posted, watched, forwarding, equipped,
                      state, kernelVars, told, reads, early, deafened>>

Happens(c) == c \in data \cup hungUp \cup reset

\* Channel::handle of an edge-triggered poller, while readCallBack is empty.
HandleOnce(c) ==
    /\ Handles(c) /\ c \notin forwarding
    /\ Happens(c)
    /\ watched' = watched \ {c}
    /\ Early(c)
    /\ UNCHANGED <<startVars, mpc, next, conn, home, posted, forwarding, equipped, state,
                   kernelVars, closing, told, log, reads, deafened>>

\* Channel::handle while readCallBack is empty: nothing happens, and the next poll
\* reports the event again.
HandleInVain(c) ==
    /\ Handles(c) /\ c \notin forwarding
    /\ Happens(c)
    /\ Early(c)
    /\ UNCHANGED <<startVars, mpc, next, conn, home, posted, watched, forwarding, equipped,
                   state, kernelVars, closing, told, log, reads, deafened>>

Arrive(c) ==
    /\ home[c] # None /\ c \notin hungUp \cup reset \cup closed \cup data
    /\ reads[c] < MaxReads
    /\ data' = data \cup {c}
    /\ UNCHANGED <<startVars, mpc, next, conn, home, posted, watched, forwarding, equipped, state,
                   hungUp, reset, closed, closing, told, history>>

HangUp(c) ==
    /\ home[c] # None /\ c \notin hungUp \cup reset \cup closed
    /\ hungUp' = hungUp \cup {c}
    /\ UNCHANGED <<startVars, mpc, next, conn, home, posted, watched, forwarding, equipped, state,
                   data, reset, closed, closing, told, history>>

\* What has arrived before may still be read.
PeerResets(c) ==
    /\ home[c] # None /\ c \notin hungUp \cup reset \cup closed
    /\ reset' = reset \cup {c}
    /\ data' \in {data, data \ {c}}
    /\ UNCHANGED <<startVars, mpc, next, conn, home, posted, watched, forwarding, equipped, state,
                   hungUp, closed, closing, told, history>>
-----------------------------------------------------------------------------
Main == \/ StartLoop \/ Wait \/ Serve
        \/ SetForwarding \/ SetCallBack \/ SetConnected \/ TellConnected

Thread(l) == Publish(l) \/ BeginLoop(l)

Tells(l) == TellDown(l) \/ TellEnd(l)

Serves(c) == ReadData(c) \/ CloseHandel(c) \/ ErrorHandel(c)

Next ==
    \/ Main \/ Spurious
    \/ \E l \in Pool : Thread(l)
    \/ \E l \in Loops : Tells(l)
    \/ \E c \in Conns :
          \/ Accept(c) \/ Register(c) \/ Serves(c) \/ HandleInVain(c)
          \/ Arrive(c) \/ HangUp(c) \/ PeerResets(c)

\* Every thread goes on, and a poll reports every registered channel that is ready.
\* Nothing obliges a loop to run what has been posted.
Spec ==
    /\ Init /\ [][Next]_vars
    /\ WF_vars(Main)
    /\ \A l \in Pool : WF_vars(Thread(l))
    /\ \A l \in Loops : WF_vars(Tells(l))
    /\ \A c \in Conns : SF_vars(Serves(c))
-----------------------------------------------------------------------------
Ends == {"closed", "error"}
Connects == {"up", "down"}
Stories == Seq(Connects \cup {"read"} \cup Ends)

TypeOK ==
    /\ size \in 0 .. MaxSize
    /\ mpc \in {"start", "wait", "asleep", "serve", "forward", "equip", "connect", "tell"}
    /\ tpc \in [Pool -> {"none", "func", "published", "loop"}]
    /\ loop_ \in Pool \cup {None} /\ eventLoop \in Seq(Pool) /\ Len(eventLoop) <= size
    /\ next \in Nat /\ (next = 0 \/ next < size)
    /\ conn \in Conns \cup {None} /\ home \in [Conns -> Loops \cup {None}]
    /\ posted \subseteq Conns /\ watched \subseteq Conns /\ forwarding \subseteq Conns
    /\ equipped \in [Conns -> 0 .. Len(CallBacks)]
    /\ state \in [Conns -> {"connecting", "connected", "close", "error"}]
    /\ data \subseteq Conns /\ hungUp \subseteq Conns /\ reset \subseteq Conns
    /\ closed \subseteq Conns
    /\ closing \in [Loops -> Conns \cup {None}] /\ told \subseteq Conns
    /\ log \in [Conns -> Stories] /\ reads \in [Conns -> Nat]
    /\ early \subseteq Conns /\ deafened \subseteq Conns

\* Although all entries of loopThread are one EventLoopThread with one loop_
\* (EventLoopThreadPool::setThreadNum), startLoop returns the loop of the thread
\* it has created, and every loop is in the pool once.
EachItsOwnLoop == \A i \in DOMAIN eventLoop : eventLoop[i] = i

\* The user hears of the end of a connection at most once, after an end of nothing
\* that was read, and at most once more that it is up or down.
EndsOnce(s) ==
    \A i, j \in DOMAIN s : s[i] \in Ends /\ i < j => j = Len(s) /\ j = i + 1 /\ s[j] \in Connects

\* The user hears that the connection is up, then what it reads, then that it is
\* down and then that it is closed, or in error, as its peer has it.
InOrder(c, s) ==
    \A i \in DOMAIN s :
        /\ s[i] = "up" <=> i = 1
        /\ s[i] \in Ends <=> i > 1 /\ s[i - 1] = "down"
        /\ s[i] \in Ends => i = Len(s)
        /\ s[i] = "down" /\ i = Len(s) => c \in {closing[l] : l \in Loops}
        /\ s[i] = "closed" => c \in hungUp
        /\ s[i] = "error" => c \in reset

\* Whatever happens while handelAccept is still at work, the end of a connection is
\* told once and reading stops with it.  And every connection on the server's own
\* loop, and one of another loop that nothing happens to before handelAccept has
\* ended, tells everything in order; and isConnected() agrees with it.
ToldInOrder ==
    \A c \in Conns :
        /\ EndsOnce(log[c])
        /\ size = 0 \/ c \notin early =>
              /\ InOrder(c, log[c])
              /\ log[c] # <<>> /\ c # conn /\ c \notin {closing[l] : l \in Loops} =>
                    (state[c] = "connected" <=> log[c][Len(log[c])] \notin Ends)

\* Events that come before the channel has its callbacks are not lost: once it is
\* registered, a connection whose peer closes or resets it is closed here, unless
\* the removal of another one has unwatched it.
HangUpIsHandled ==
    \A c \in Conns : (c \in hungUp \cup reset /\ c \in watched) ~> (c \in closed \cup deafened)

\* Claimed by TcpServer.cpp of the callbacks of the channel: what ReadHandel reads
\* is passed on to the user.
Reads(c) == Cardinality({i \in DOMAIN log[c] : log[c][i] = "read"})
ReadsAreForwarded == \A c \in Conns : Reads(c) = reads[c]
=============================================================================
