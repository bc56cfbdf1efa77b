----------------------------- MODULE RetryProofs -----------------------------
(***************************************************************************)
(* Theorems about Connector, for any number of descriptors, attempts,      *)
(* starts and other connections: its types, that sockets do not leak, and  *)
(* that retries do not multiply.  And about the TimerQueue in which its    *)
(* retries wait, for every set of timers and every finite choice of        *)
(* delays.                                                                 *)
(*                                                                         *)
(* Of the timers, SetInOrder alone is not inductive: where a timer is      *)
(* inserted is told by the whole order of TimerEvent, so that timers which *)
(* are due together must lie by their addresses, as long as they are not   *)
(* due yet.  And a callback may add timers, but none in front of its own,  *)
(* which has expired while every new one has time left.                    *)
(***************************************************************************)
EXTENDS Connector, TimerQueue, FiniteSetTheorems, SequenceTheorems, TLAPS

Events == {"in", "out"}

-----------------------------------------------------------------------------
(* What the operators of Descriptors do to the tables.                     *)

\* Watching and unwatching a descriptor changes the epoll set only, and leaves a
\* map of descriptors to events.
LEMMA WatchTables ==
    ASSUME NEW r, IsTables(r), NEW f \in Fds, NEW ev \in SUBSET Events
    PROVE  /\ IsTables(Watch(r, f, ev))
           /\ Watch(r, f, ev).socket = r.socket
           /\ Watch(r, f, ev).fd = r.fd
           /\ Watch(r, f, ev).pollfds = r.pollfds
           /\ Watch(r, f, ev).index = r.index
<1> DEFINE i == [g \in Watched(r) \cup {f} |-> IF g = f THEN ev ELSE r.interest[g]]
<1>1. PICK F \in SUBSET Fds : r.interest \in [F -> SUBSET Events]
  BY DEF IsTables, Tables, Events
<1>2. i \in [F \cup {f} -> SUBSET Events]
  BY <1>1 DEF Watched
<1> HIDE DEF i
<1>3. i \in UNION {[G -> SUBSET {"in", "out"}] : G \in SUBSET Fds}
<2>1. F \cup {f} \in SUBSET Fds
  OBVIOUS
<2>2. QED
  BY <1>2, <2>1 DEF Events
<1>4. Watch(r, f, ev) = [r EXCEPT !.interest = i]
  BY DEF Watch, i
<1>5. QED
  BY <1>3, <1>4 DEF IsTables, Tables

\* Unwatching takes a number out of the epoll set.
LEMMA UnwatchTables ==
    ASSUME NEW r, IsTables(r), NEW f
    PROVE  /\ IsTables(Unwatch(r, f))
           /\ Unwatch(r, f).socket = r.socket
           /\ Unwatch(r, f).fd = r.fd
           /\ Unwatch(r, f).pollfds = r.pollfds
           /\ Unwatch(r, f).index = r.index
<1> DEFINE i == [g \in Watched(r) \ {f} |-> r.interest[g]]
<1>1. PICK F \in SUBSET Fds : r.interest \in [F -> SUBSET Events]
  BY DEF IsTables, Tables, Events
<1>2. i \in [F \ {f} -> SUBSET Events]
  BY <1>1 DEF Watched
<1> HIDE DEF i
<1>3. i \in UNION {[G -> SUBSET {"in", "out"}] : G \in SUBSET Fds}
<2>1. F \ {f} \in SUBSET Fds
  OBVIOUS
<2>2. QED
  BY <1>2, <2>1 DEF Events
<1>4. Unwatch(r, f) = [r EXCEPT !.interest = i]
  BY DEF Unwatch, i
<1>5. QED
  BY <1>3, <1>4 DEF IsTables, Tables

\* So do an entry of channelList and an index that changes.
Listed(r, f, c) == [r EXCEPT !.channelList[f] = c]

\* channelList may get any channel, or none.
LEMMA ListTables ==
    ASSUME NEW r, IsTables(r), NEW f, NEW c \in Channels \cup {None}
    PROVE  /\ IsTables(Listed(r, f, c))
           /\ Listed(r, f, c).socket = r.socket
           /\ Listed(r, f, c).fd = r.fd
           /\ Listed(r, f, c).pollfds = r.pollfds
           /\ Listed(r, f, c).index = r.index
<1> DEFINE l == [r.channelList EXCEPT ![f] = c]
           x == [r EXCEPT !.channelList = l]
<1>1. l \in [Fds -> Channels \cup {None}]
  BY DEF IsTables, Tables
<1> HIDE DEF l
<1>2. /\ x \in Tables /\ x.socket = r.socket /\ x.fd = r.fd
      /\ x.pollfds = r.pollfds /\ x.index = r.index
  BY <1>1 DEF IsTables, Tables
<1> HIDE DEF x
<1>3. IsTables(x)
  BY <1>2 DEF IsTables
<1>4. QED
  BY <1>2, <1>3 DEF Listed, x, l

Indexed(r, c, n, s) == [r EXCEPT !.index[c] = n, !.pollfds = s]

\* An index may get any place of a pollfds that is not shorter.
LEMMA IndexTables ==
    ASSUME NEW r, IsTables(r), NEW c \in Channels, NEW s \in Seq(Fds),
           Len(r.pollfds) <= Len(s), NEW n \in -1 .. Len(s) - 1
    PROVE  /\ IsTables(Indexed(r, c, n, s))
           /\ Indexed(r, c, n, s).socket = r.socket
           /\ Indexed(r, c, n, s).fd = r.fd
<1> DEFINE i == [r.index EXCEPT ![c] = n]
           x == [r EXCEPT !.index = i, !.pollfds = s]
<1>1. i \in [Channels -> Int]
  BY LenProperties DEF IsTables, Tables
<1>2. \A d \in Channels : i[d] \in -1 .. Len(s) - 1
<2>1. Len(s) \in Nat /\ Len(r.pollfds) \in Nat
  BY LenProperties DEF IsTables, Tables
<2>2. QED
  BY <2>1 DEF IsTables, Tables
<1> HIDE DEF i
<1>3. /\ x \in Tables /\ x.socket = r.socket /\ x.fd = r.fd
      /\ x.pollfds = s /\ x.index = i
  BY <1>1 DEF IsTables, Tables
<1> HIDE DEF x
<1>4. IsTables(x)
  BY <1>2, <1>3 DEF IsTables
<1>5. QED
  BY <1>3, <1>4 DEF Indexed, x, i

\* close frees the number and changes nothing else but the epoll set.
LEMMA CloseTables ==
    ASSUME NEW r, IsTables(r), NEW f
    PROVE  /\ IsTables(Close(r, f))
           /\ Close(r, f).socket = [r.socket EXCEPT ![f] = None]
           /\ Close(r, f).fd = r.fd
  BY UnwatchTables DEF Close, IsTables, Tables

\* A new socket has its number, and its channel knows it.
LEMMA OpenTables ==
    ASSUME NEW r, IsTables(r), NEW f \in Fds, NEW c \in Sockets
    PROVE  /\ IsTables(Open(r, c, f))
           /\ Open(r, c, f).socket = [r.socket EXCEPT ![f] = c]
           /\ Open(r, c, f).fd = [r.fd EXCEPT ![c] = f]
  BY DEF Open, IsTables, Tables, Sockets, Channels, Conns

\* A channel is made for a number.
Numbering(r, c, f) == [r EXCEPT !.fd[c] = f]

\* Its number may be any.
LEMMA NumberTables ==
    ASSUME NEW r, IsTables(r), NEW f \in Fds, NEW c \in Channels
    PROVE  /\ IsTables(Numbering(r, c, f))
           /\ Numbering(r, c, f).socket = r.socket
           /\ Numbering(r, c, f).fd = [r.fd EXCEPT ![c] = f]
  BY DEF Numbering, IsTables, Tables

\* updateChannel and removeChannel change neither sockets nor numbers.
LEMMA AddTables ==
    ASSUME NEW r, IsTables(r), NEW c \in Channels, r.fd[c] \in Fds,
           NEW ev \in SUBSET Events
    PROVE  /\ IsTables(AddChannel(r, c, ev))
           /\ AddChannel(r, c, ev).socket = r.socket
           /\ AddChannel(r, c, ev).fd = r.fd
<1> DEFINE f == r.fd[c]
           a == IF f \notin Watched(r) /\ IsOpen(r, f) THEN Watch(r, f, ev) ELSE r
           s == Append(r.pollfds, f)
<1>1. /\ IsTables(a) /\ a.socket = r.socket /\ a.fd = r.fd
      /\ a.pollfds = r.pollfds /\ a.index = r.index
  BY WatchTables
<1>2. r.pollfds \in Seq(Fds)
  BY DEF IsTables, Tables
<1>3. s \in Seq(Fds) /\ Len(s) = Len(r.pollfds) + 1 /\ Len(r.pollfds) \in Nat
  BY <1>2, AppendProperties, LenProperties
<1> DEFINE b == Listed(a, f, c)
<1>4. /\ IsTables(b) /\ b.socket = r.socket /\ b.fd = r.fd
      /\ b.pollfds = r.pollfds
  BY <1>1, ListTables
<1>5. AddChannel(r, c, ev) = Indexed(b, c, Len(r.pollfds), s)
  BY <1>1 DEF AddChannel, Indexed, Listed, IsTables, Tables
<1> HIDE DEF a, b, s
<1>6. QED
  BY <1>3, <1>4, <1>5, IndexTables

\* The same for an update of a channel that has a place already.
LEMMA UpdateTables ==
    ASSUME NEW r, IsTables(r), NEW c \in Channels, r.fd[c] \in Fds,
           NEW ev \in SUBSET Events
    PROVE  /\ IsTables(UpdateChannel(r, c, ev))
           /\ UpdateChannel(r, c, ev).socket = r.socket
           /\ UpdateChannel(r, c, ev).fd = r.fd
<1> DEFINE f == r.fd[c]
           m == IF ev # {} /\ f \in Watched(r) THEN Watch(r, f, ev) ELSE r
<1>1. IsTables(m) /\ m.socket = r.socket /\ m.fd = r.fd
  BY WatchTables
<1>2. ModifyChannel(r, c, ev) = Listed(m, f, c)
  BY DEF ModifyChannel, Listed
<1> HIDE DEF m
<1>3. /\ IsTables(ModifyChannel(r, c, ev))
      /\ ModifyChannel(r, c, ev).socket = r.socket
      /\ ModifyChannel(r, c, ev).fd = r.fd
  BY <1>1, <1>2, ListTables
<1>4. QED
  BY <1>3, AddTables DEF UpdateChannel

\* And for a removal.
LEMMA RemoveTables ==
    ASSUME NEW r, IsTables(r), NEW c \in Channels
    PROVE  /\ IsTables(RemoveChannel(r, c))
           /\ RemoveChannel(r, c).socket = r.socket
           /\ RemoveChannel(r, c).fd = r.fd
<1> DEFINE u == Unwatch(r, r.pollfds[r.index[c] + 1])
<1>1. /\ IsTables(u) /\ u.socket = r.socket /\ u.fd = r.fd
      /\ u.pollfds = r.pollfds /\ u.index = r.index
  BY UnwatchTables
<1>2. u.pollfds \in Seq(Fds) /\ Len(u.pollfds) \in Nat
  BY <1>1, LenProperties DEF IsTables, Tables
<1> DEFINE b == Listed(u, r.fd[c], None)
<1>3. /\ IsTables(b) /\ b.socket = r.socket /\ b.fd = r.fd
      /\ b.pollfds = u.pollfds
  BY <1>1, ListTables
<1> DEFINE x == Indexed(b, c, -1, u.pollfds)
<1>4. [u EXCEPT !.channelList[r.fd[c]] = None, !.index[c] = -1] = x
  BY <1>1 DEF Indexed, Listed, IsTables, Tables
<1> HIDE DEF u, b, x
<1>5. IsTables(x) /\ x.socket = r.socket /\ x.fd = r.fd
  BY <1>2, <1>3, IndexTables DEF x
<1>6. QED
  BY <1>4, <1>5 DEF RemoveChannel, u
-----------------------------------------------------------------------------
(* The invariant.                                                          *)

\* Whatever disableAll will be called for has a number.
Numbered ==
    /\ channel # None => reg.fd[Try(channel)] \in Fds
    /\ \A c \in Conns : state[c] = "open" => reg.fd[c] \in Fds

Inv == TypeOK /\ Numbered /\ NoSocketLeaks /\ RetriesDoNotMultiply

\* Attempts, connections and the other sockets do not share channels.
LEMMA ChannelsDiffer ==
    /\ \A k \in Attempts : Try(k) \in Tries /\ Conn(k) \in Conns /\ Try(k) \notin Conns
    /\ Tries \subseteq Sockets /\ Tries \subseteq Channels /\ Conns \subseteq Channels
    /\ Others \subseteq Sockets /\ Others \subseteq Conns
    /\ Others \cap Tries = {} /\ None \notin Tries /\ None \notin Attempts
  BY ChannelAssumption DEF Tries, Conns, Sockets, Channels, Try, Conn

\* Before the first start there is nothing to keep.
LEMMA InitInv == Init => Inv
<1> SUFFICES ASSUME Init PROVE Inv
  OBVIOUS
<1>1. IsTables(reg)
<2>1. [f \in {} |-> {}] \in [{} -> SUBSET {"in", "out"}]
  OBVIOUS
<2>2. reg.interest \in UNION {[F -> SUBSET {"in", "out"}] : F \in SUBSET Fds}
  BY <2>1 DEF Init
<2>3. reg.pollfds = <<>> /\ Len(reg.pollfds) = 0
  BY EmptySeq DEF Init
<2>4. reg \in Tables
  <3> DEFINE p == <<>>
             l == [f \in Fds |-> None]
             x == [c \in Channels |-> -1]
             n == [c \in Channels |-> 0]
             i == [f \in {} |-> {}]
  <3>1. /\ p \in Seq(Fds) /\ l \in [Fds -> Channels \cup {None}]
        /\ x \in [Channels -> Int] /\ n \in [Channels -> {0} \cup Fds]
        /\ l \in [Fds -> Sockets \cup {None}]
    BY EmptySeq
  <3>2. i \in UNION {[F -> SUBSET {"in", "out"}] : F \in SUBSET Fds}
    BY <2>2 DEF Init
  <3>3. reg = [pollfds |-> p, channelList |-> l, index |-> x, fd |-> n,
               interest |-> i, socket |-> l]
    BY DEF Init
  <3> HIDE DEF p, l, x, n, i
  <3>4. QED
    BY <3>1, <3>2, <3>3 DEF Tables
<2>5. QED
  BY <2>3, <2>4 DEF IsTables, Init
<1>2. TypeOK
  BY <1>1, ConnectorAssumption DEF Init, TypeOK
<1>3. Numbered /\ NoSocketLeaks /\ RetriesDoNotMultiply
  BY ChannelsDiffer DEF Init, Numbered, NoSocketLeaks, RetriesDoNotMultiply, UnderWay
<1>4. QED
  BY <1>2, <1>3 DEF Inv

\* After connect() has closed fd_, no socket of the connector is open, and the one
\* it makes then is the only one.
LEMMA NewSocketIsOnly ==
    ASSUME Inv, NEW f \in Fds, attempts < MaxAttempts
    PROVE  /\ attempts + 1 \in Attempts
           /\ IsTables(NewSocket(f))
           /\ NewSocket(f).fd = [reg.fd EXCEPT ![Try(attempts + 1)] = f]
           /\ \A g \in Fds : NewSocket(f).socket[g] \in Tries => g = f
<1>1. attempts + 1 \in Attempts
  BY ConnectorAssumption DEF Inv, TypeOK, Attempts
<1>2. /\ IsTables(Released(reg)) /\ Released(reg).fd = reg.fd
      /\ \A g \in Fds : Released(reg).socket[g] \notin Tries
<2>1. CASE fd_ = 0
  BY <2>1, ConnectorAssumption DEF Released, Inv, TypeOK, NoSocketLeaks
<2>2. CASE fd_ # 0
  <3>1. /\ IsTables(Close(reg, fd_)) /\ Close(reg, fd_).fd = reg.fd
        /\ Close(reg, fd_).socket = [reg.socket EXCEPT ![fd_] = None]
    BY CloseTables DEF Inv, TypeOK
  <3>2. reg.socket \in [Fds -> Sockets \cup {None}]
    BY DEF Inv, TypeOK, IsTables, Tables
  <3>3. QED
    BY <2>2, <3>1, <3>2, ChannelsDiffer DEF Released, Inv, NoSocketLeaks
<2>3. QED
  BY <2>1, <2>2
<1>3. /\ IsTables(NewSocket(f))
      /\ NewSocket(f).fd = [reg.fd EXCEPT ![Try(attempts + 1)] = f]
      /\ NewSocket(f).socket = [Released(reg).socket EXCEPT ![f] = Try(attempts + 1)]
  BY <1>1, <1>2, OpenTables, ChannelsDiffer DEF NewSocket
<1>4. Released(reg).socket \in [Fds -> Sockets \cup {None}]
  BY <1>2 DEF IsTables, Tables
<1>5. QED
  BY <1>1, <1>2, <1>3, <1>4

\* A step that only closes sockets, and gives numbers of Fds to channels, keeps
\* the part of the invariant that is about the tables.
LEMMA TablesStep ==
    ASSUME Inv, IsTables(reg'), fd_' = fd_, channel' = channel,
           \A g \in Fds : reg'.socket[g] \in Tries => reg.socket[g] \in Tries,
           \A c \in Channels : reg.fd[c] \in Fds => reg'.fd[c] \in Fds,
           \A c \in Conns : state'[c] = "open" => reg'.fd[c] \in Fds
    PROVE  Numbered' /\ NoSocketLeaks'
  BY ChannelsDiffer DEF Inv, TypeOK, Numbered, NoSocketLeaks

\* Every handler keeps the tables, the numbers and the count of attempts.
LEMMA NextInv == Inv /\ [Next]_vars => Inv'
<1> SUFFICES ASSUME Inv, [Next]_vars PROVE Inv'
  OBVIOUS
<1> USE ChannelsDiffer
<1>1. /\ IsTables(reg) /\ fd_ \in {0} \cup Fds
      /\ channel \in Attempts \cup {None}
      /\ pending \in Nat /\ starts \in 0 .. MaxStarts /\ starts \in Nat
      /\ reg.socket \in [Fds -> Sockets \cup {None}]
      /\ Watched(reg) \subseteq Fds
<2>1. PICK F \in SUBSET Fds : reg.interest \in [F -> SUBSET {"in", "out"}]
  BY DEF Inv, TypeOK, IsTables, Tables
<2>2. Watched(reg) \subseteq Fds
  BY <2>1 DEF Watched
<2>3. reg.socket \in [Fds -> Sockets \cup {None}]
  BY DEF Inv, TypeOK, IsTables, Tables
<2>4. pending \in Nat /\ starts \in 0 .. MaxStarts /\ starts \in Nat
  BY ConnectorAssumption DEF Inv, TypeOK
<2>5. QED
  BY <2>2, <2>3, <2>4 DEF Inv, TypeOK
<1>2. \A c \in Channels, ev \in {"in", "out"} : Reported(c, ev) => reg.fd[c] \in Fds
  BY <1>1 DEF Reported
<1>3. CASE Start
<2>1. RetriesDoNotMultiply'
  BY <1>1, <1>3 DEF Start, Inv, RetriesDoNotMultiply, UnderWay
<2>2. TypeOK'
  BY <1>1, <1>3, <2>1, ConnectorAssumption DEF Start, Inv, TypeOK, RetriesDoNotMultiply, UnderWay
<2>3. Numbered' /\ NoSocketLeaks'
  BY <1>3 DEF Start, Inv, Numbered, NoSocketLeaks
<2>4. QED
  BY <2>1, <2>2, <2>3 DEF Inv
<1>4. ASSUME NEW f \in Fds, StartInLoop(f),
             ConnectBegins(f) \/ ConnectRefused(f) \/ ConnectFails(f)
      PROVE  Inv'
<2> DEFINE k == attempts + 1
           new == NewSocket(f)
<2>1. /\ k \in Attempts /\ IsTables(new)
      /\ new.fd = [reg.fd EXCEPT ![Try(k)] = f]
      /\ \A g \in Fds : new.socket[g] \in Tries => g = f
  BY <1>4, NewSocketIsOnly DEF StartInLoop
<2> HIDE DEF new
<2>2. RetriesDoNotMultiply'
  BY <1>1, <1>4 DEF StartInLoop, ConnectBegins, ConnectRefused, ConnectFails,
                    Inv, RetriesDoNotMultiply, UnderWay
<2>3. /\ new.fd \in [Channels -> {0} \cup Fds] /\ new.fd[Try(k)] = f
      /\ \A c \in Channels : reg.fd[c] \in Fds => new.fd[c] \in Fds
  BY <1>1, <2>1 DEF IsTables, Tables
<2>4. /\ IsTables(reg')
      /\ reg'.fd = new.fd
      /\ \A g \in Fds : reg'.socket[g] \in Tries => g = f
  <3>1. CASE ConnectBegins(f)
    <4> DEFINE old == RemoveChannel(UpdateChannel(new, Try(channel), {}), Try(channel))
               cleared == IF channel = None THEN new ELSE old
    <4>1. IsTables(cleared) /\ cleared.fd = new.fd /\ cleared.socket = new.socket
      <5>1. CASE channel = None
        BY <5>1, <2>1
      <5>2. CASE channel # None
        <6>1. Try(channel) \in Channels /\ new.fd[Try(channel)] \in Fds
          BY <5>2, <1>1, <2>3 DEF Inv, Numbered
        <6> DEFINE u == UpdateChannel(new, Try(channel), {})
        <6>2. IsTables(u) /\ u.fd = new.fd /\ u.socket = new.socket
          BY <6>1, <2>1, UpdateTables
        <6> HIDE DEF u
        <6>3. LET v == RemoveChannel(u, Try(channel))
              IN IsTables(v) /\ v.fd = new.fd /\ v.socket = new.socket
          BY <6>1, <6>2, RemoveTables
        <6>4. QED
          BY <5>2, <6>3 DEF u
      <5>3. QED
        BY <5>1, <5>2
    <4>2. reg' = UpdateChannel(cleared, Try(k), {"out"})
      BY <3>1 DEF ConnectBegins, Connecting, new
    <4> HIDE DEF cleared
    <4>3. Try(k) \in Channels /\ cleared.fd[Try(k)] \in Fds /\ {"out"} \in SUBSET Events
      BY <2>1, <2>3, <4>1 DEF Events
    <4>4. QED
      BY <2>1, <4>1, <4>2, <4>3, UpdateTables
  <3>2. CASE ConnectRefused(f) \/ ConnectFails(f)
    <4>1. reg' = Close(new, f)
      BY <3>2 DEF ConnectRefused, ConnectFails, new
    <4>2. new.socket \in [Fds -> Sockets \cup {None}]
      BY <2>1 DEF IsTables, Tables
    <4>3. /\ IsTables(reg') /\ reg'.fd = new.fd
          /\ reg'.socket = [new.socket EXCEPT ![f] = None]
      BY <2>1, <4>1, CloseTables
    <4>4. QED
      BY <2>1, <4>2, <4>3
  <3>3. QED
    BY <1>4, <3>1, <3>2
<2>5. channel' \in {k, channel} /\ pending' \in Nat
  BY <1>1, <1>4 DEF StartInLoop, ConnectBegins, ConnectRefused, ConnectFails
<2>6. TypeOK'
  BY <1>1, <1>4, <2>1, <2>2, <2>4, <2>5, ConnectorAssumption
  DEF StartInLoop, ConnectBegins, ConnectRefused, ConnectFails, Inv, TypeOK, Attempts,
      RetriesDoNotMultiply, UnderWay
<2>7. Numbered'
  BY <1>1, <1>4, <2>1, <2>3, <2>4, <2>5 DEF StartInLoop, Inv, Numbered
<2>8. NoSocketLeaks'
  BY <1>4, <2>4 DEF StartInLoop, NoSocketLeaks
<2>9. QED
  BY <2>2, <2>6, <2>7, <2>8 DEF Inv
<1>5. CASE \/ \E s \in Tries, what \in {"ok", "error"} : Resolve(s, what)
           \/ \E s \in Sockets : ResetByPeer(s)
<2>1. /\ UNCHANGED <<reg, fd_, state_, channel, pending, attempts, starts, state, overdrawn>>
      /\ outcome' \in [Sockets -> {"pending", "ok", "error"}]
  BY <1>5 DEF Resolve, ResetByPeer, Inv, TypeOK
<2>2. QED
  BY <2>1 DEF Inv, TypeOK, Numbered, NoSocketLeaks, RetriesDoNotMultiply, UnderWay
<1>6. CASE HandleError
<2> DEFINE f == reg.fd[Try(channel)]
<2>1. /\ IsTables(reg') /\ reg'.fd = reg.fd
      /\ reg'.socket = [reg.socket EXCEPT ![f] = None]
  BY <1>1, <1>6, CloseTables DEF HandleError
<2>2. Numbered' /\ NoSocketLeaks'
  BY <1>1, <1>6, <2>1, TablesStep DEF HandleError, Inv, Numbered
<2>3. RetriesDoNotMultiply'
  BY <1>1, <1>6 DEF HandleError, Inv, RetriesDoNotMultiply, UnderWay
<2>4. TypeOK'
  BY <1>1, <1>6, <2>1, <2>3, ConnectorAssumption
  DEF HandleError, Inv, TypeOK, RetriesDoNotMultiply, UnderWay
<2>5. QED
  BY <2>2, <2>3, <2>4 DEF Inv
<1>7. CASE HandleConnected
<2> DEFINE k == channel
           x == Numbering(reg, Conn(k), reg.fd[Try(k)])
<2>1. k \in Attempts /\ reg.fd[Try(k)] \in Fds
  BY <1>1, <1>2, <1>7 DEF HandleConnected, Writable
<2>2. /\ IsTables(x) /\ x.socket = reg.socket
      /\ x.fd = [reg.fd EXCEPT ![Conn(k)] = reg.fd[Try(k)]]
  BY <1>1, <2>1, NumberTables
<2>3. /\ x.fd[Conn(k)] \in Fds
      /\ \A c \in Channels : reg.fd[c] \in Fds => x.fd[c] \in Fds
  BY <1>1, <2>1, <2>2 DEF IsTables, Tables
<2>4. reg' = UpdateChannel(x, Conn(k), {"in"})
  BY <1>7 DEF HandleConnected, HandelConnect, Numbering
<2> HIDE DEF x
<2>5. IsTables(reg') /\ reg'.socket = reg.socket /\ reg'.fd = x.fd
  BY <2>1, <2>2, <2>3, <2>4, UpdateTables DEF Events
<2>6. \A c \in Conns : state'[c] = "open" => c = Conn(k) \/ state[c] = "open"
  BY <1>7 DEF HandleConnected, Inv, TypeOK
<2>7. Numbered' /\ NoSocketLeaks'
  BY <1>7, <2>3, <2>5, <2>6, TablesStep DEF HandleConnected, Inv, Numbered
<2>8. RetriesDoNotMultiply'
  BY <1>1, <1>7 DEF HandleConnected, Inv, RetriesDoNotMultiply, UnderWay
<2>9. TypeOK'
  BY <1>1, <1>7, <2>5 DEF HandleConnected, Inv, TypeOK
<2>10. QED
  BY <2>7, <2>8, <2>9 DEF Inv
\* The connections do nothing to the variables of Connector.
<1>8. ASSUME IsTables(reg'),
             UNCHANGED <<fd_, state_, channel, pending, attempts, starts, outcome>>,
             state' \in [Conns -> {"none", "open", "closed"}],
             overdrawn' \subseteq Conns,
             Numbered' /\ NoSocketLeaks'
      PROVE  Inv'
  BY <1>8 DEF Inv, TypeOK, RetriesDoNotMultiply, UnderWay
<1>9. ASSUME NEW o \in Others, NEW f \in Fds, Accept(o, f)
      PROVE  Inv'
<2> DEFINE x == Open(reg, o, f)
<2>1. /\ IsTables(x) /\ x.socket = [reg.socket EXCEPT ![f] = o]
      /\ x.fd = [reg.fd EXCEPT ![o] = f]
<3>1. o \in Sockets /\ IsTables(reg) /\ f \in Fds
  BY <1>1, <1>9
<3>2. QED
  BY <3>1, OpenTables
<2>2. /\ x.fd[o] \in Fds
      /\ \A c \in Channels : reg.fd[c] \in Fds => x.fd[c] \in Fds
  BY <1>1, <2>1 DEF IsTables, Tables
<2>3. reg' = UpdateChannel(x, o, {"in"})
  BY <1>9 DEF Accept
<2> HIDE DEF x
<2>4. IsTables(reg') /\ reg'.socket = x.socket /\ reg'.fd = x.fd
  BY <2>1, <2>2, <2>3, UpdateTables DEF Events
<2>5. \A c \in Conns : state'[c] = "open" => c = o \/ state[c] = "open"
  BY <1>9 DEF Accept, Inv, TypeOK
<2>6. \A g \in Fds : reg'.socket[g] \in Tries => reg.socket[g] \in Tries
  BY <1>1, <2>1, <2>4
<2>7. Numbered' /\ NoSocketLeaks'
  BY <1>9, <2>2, <2>4, <2>5, <2>6, TablesStep DEF Accept, Inv, Numbered
<2>8. QED
  BY <1>8, <1>9, <2>4, <2>7 DEF Accept, Inv, TypeOK
<1>10. ASSUME NEW c \in Conns, WriteHandle(c) \/ WriteHandleFails(c)
       PROVE  Inv'
<2>1. IsTables(reg') /\ reg'.socket = reg.socket /\ reg'.fd = reg.fd
  BY <1>1, <1>2, <1>10, UpdateTables DEF WriteHandle, WriteHandleFails, Events
<2>2. Numbered' /\ NoSocketLeaks'
  BY <1>10, <2>1, TablesStep DEF WriteHandle, WriteHandleFails, Inv, Numbered
<2>3. overdrawn' \subseteq Conns
  BY <1>10 DEF WriteHandle, WriteHandleFails, Inv, TypeOK
<2>4. QED
  BY <1>8, <1>10, <2>1, <2>2, <2>3 DEF WriteHandle, WriteHandleFails, Inv, TypeOK
<1>11. ASSUME NEW c \in Conns, CloseHandel(c) \/ ShutdownWriteInLoop(c)
       PROVE  Inv'
<2> DEFINE u == UpdateChannel(reg, c, {})
<2>1. reg.fd[c] \in Fds
  BY <1>2, <1>11 DEF CloseHandel, ShutdownWriteInLoop, Inv, Numbered
<2>2. IsTables(u) /\ u.socket = reg.socket /\ u.fd = reg.fd
  BY <1>1, <2>1, UpdateTables
<2>3. PICK x : /\ reg' = Close(x, reg.fd[c])
               /\ IsTables(x) /\ x.socket = reg.socket /\ x.fd = reg.fd
  BY <1>11, <2>2, RemoveTables DEF CloseHandel, ShutdownWriteInLoop
<2>4. /\ IsTables(reg') /\ reg'.fd = reg.fd
      /\ reg'.socket = [reg.socket EXCEPT ![reg.fd[c]] = None]
  BY <2>3, CloseTables
<2>5. /\ UNCHANGED <<fd_, state_, channel, pending, attempts, starts, outcome, overdrawn>>
      /\ state' = [state EXCEPT ![c] = "closed"]
  BY <1>11 DEF CloseHandel, ShutdownWriteInLoop
<2>6. \A d \in Conns : state'[d] = "open" => state[d] = "open"
  BY <2>5 DEF Inv, TypeOK
<2>7. Numbered' /\ NoSocketLeaks'
  BY <1>1, <2>4, <2>5, <2>6, TablesStep DEF Inv, Numbered
<2>8. QED
  BY <1>8, <2>4, <2>5, <2>7 DEF Inv, TypeOK
<1>12. CASE UNCHANGED vars
  BY <1>12 DEF vars, Inv, TypeOK, Numbered, NoSocketLeaks, RetriesDoNotMultiply, UnderWay
<1>13. QED
  BY <1>3, <1>4, <1>5, <1>6, <1>7, <1>9, <1>10, <1>11, <1>12
  DEF Next, HandleWrite, ConnectBegins, ConnectRefused, ConnectFails

\* The three theorems follow from this.
LEMMA InvHolds == Spec => []Inv
  BY InitInv, NextInv, PTL DEF Spec
-----------------------------------------------------------------------------
(* The theorems.                                                           *)

\* Connector and the tables it shares with other connections keep their types:
\* no index leaves pollfds, and no entry names what is not a channel.
THEOREM TypeCorrect == Spec => []TypeOK
  BY InvHolds, PTL DEF Inv

\* Of the sockets Connector::connect makes, none but that of fd_ is ever open,
\* whatever other connections do with reused numbers.
THEOREM SocketsDoNotLeak == Spec => []NoSocketLeaks
  BY InvHolds, PTL DEF Inv

\* A call of TcpClient::connect never leads to two attempts, or to an attempt and
\* a retry, at the same time.
THEOREM OneAttemptPerStart == Spec => []RetriesDoNotMultiply
  BY InvHolds, PTL DEF Inv

-----------------------------------------------------------------------------
(* TimerQueue. *)

\* The order of TimerEvent by the times l, and no timer twice.
OrderedBy(l, s) ==
    \A i, j \in 1 .. Len(s) :
        i < j => /\ s[i] # s[j]
                 /\ \/ l[s[i]] = 0
                    \/ l[s[i]] < l[s[j]]
                    \/ l[s[i]] = l[s[j]] /\ s[i] < s[j]

InOrder == OrderedBy(left, timer_set)

\* The timer whose callback runs is in front, and counts as called.
CalledInFront ==
    pc = "callback" =>
        timer_set # <<>> /\ left[Head(timer_set)] = 0 /\ Head(timer_set) \in ran

\* What is in the set, or was called, has been made.
Made == \A t \in ran \cup Range(timer_set) : delay[t] > 0

TimersInv == TimersTypeOK /\ InOrder /\ CalledInFront /\ Made /\ SingleIsKept

LEMMA LongestDelay ==
    MaxDelay \in Delays /\ MaxDelay \in Nat /\ \A d \in Delays : d \in Nat /\ d > 0 /\ d <= MaxDelay
<1>1. \E m \in Delays : \A e \in Delays : e <= m
  BY TimerQueueAssumption
<1>2. MaxDelay \in Delays /\ \A e \in Delays : e <= MaxDelay
  BY <1>1 DEF MaxDelay
<1>3. QED  BY <1>2, TimerQueueAssumption
-----------------------------------------------------------------------------
(* The places of an ordered set.                                           *)

\* The range of a sequence are its elements.
LEMMA TimersOf ==
    ASSUME NEW s \in Seq(Timers)
    PROVE  /\ Range(s) = {s[i] : i \in 1 .. Len(s)}
           /\ Range(s) \subseteq Timers
<1>1. DOMAIN s = 1 .. Len(s) /\ \A i \in 1 .. Len(s) : s[i] \in Timers
  BY LenProperties, ElementOfSeq
<1>2. Range(s) = {s[i] : i \in 1 .. Len(s)}
  BY <1>1, Zenon DEF Range
<1>3. QED  BY <1>1, <1>2

\* The places from which on a set of places is closed downwards are the first ones.
LEMMA FirstPlaces ==
    ASSUME NEW n \in Nat, NEW P \in SUBSET (1 .. n),
           \A i, j \in 1 .. n : i < j /\ j \in P => i \in P
    PROVE  /\ Cardinality(P) \in 0 .. n
           /\ P = 1 .. Cardinality(P)
<1>1. /\ IsFiniteSet(1 .. n) /\ Cardinality(1 .. n) = n
  BY FS_Interval, n = 0 \/ n >= 1
<1>2. /\ IsFiniteSet(P) /\ Cardinality(P) \in Nat /\ Cardinality(P) <= n
  BY <1>1, FS_Subset, FS_CardinalityType
<1>3. ASSUME NEW k \in 0 .. n
      PROVE  IsFiniteSet(1 .. k) /\ Cardinality(1 .. k) = k
  BY FS_Interval, k = 0 \/ k >= 1
<1>4. ASSUME NEW i \in P
      PROVE  i <= Cardinality(P)
  <2>1. 1 .. i \in SUBSET P
    BY <1>4
  <2>2. Cardinality(1 .. i) <= Cardinality(P)
    BY <1>2, <2>1, FS_Subset
  <2>3. QED  BY <1>3, <2>2
<1>5. P \in SUBSET (1 .. Cardinality(P))
  BY <1>2, <1>4
<1>6. Cardinality(P) \in 0 .. n
  BY <1>2
<1>7. /\ IsFiniteSet(1 .. Cardinality(P))
      /\ Cardinality(1 .. Cardinality(P)) = Cardinality(P)
  BY <1>3, <1>6
<1>8. 1 .. Cardinality(P) = P
  BY <1>5, <1>7, FS_Subset
<1>9. QED  BY <1>6, <1>8

\* A timer is inserted behind those that are before it, and in front of the others.
LEMMA InsertedSet ==
    ASSUME NEW set \in Seq(Timers), NEW t \in Timers, NEW d,
           \A i, j \in 1 .. Len(set) : i < j /\ Before(set[j], t, d) => Before(set[i], t, d)
    PROVE  \E k \in 0 .. Len(set) :
              /\ Inserted(set, t, d) \in Seq(Timers)
              /\ Len(Inserted(set, t, d)) = Len(set) + 1
              /\ \A i \in 1 .. k :
                    Inserted(set, t, d)[i] = set[i] /\ Before(set[i], t, d)
              /\ Inserted(set, t, d)[k + 1] = t
              /\ \A i \in k + 1 .. Len(set) :
                    Inserted(set, t, d)[i + 1] = set[i] /\ ~Before(set[i], t, d)
<1> DEFINE P == {i \in 1 .. Len(set) : Before(set[i], t, d)}
           k == Cardinality(P)
           front == SubSeq(set, 1, k)
           back == SubSeq(set, k + 1, Len(set))
<1>1. Len(set) \in Nat /\ DOMAIN set = 1 .. Len(set) /\ \A i \in 1 .. Len(set) : set[i] \in Timers
  BY LenProperties, ElementOfSeq
<1>2. k \in 0 .. Len(set) /\ P = 1 .. k
  <2>1. P \in SUBSET (1 .. Len(set)) /\ \A i, j \in 1 .. Len(set) : i < j /\ j \in P => i \in P
    OBVIOUS
  <2>2. QED  BY <1>1, <2>1, FirstPlaces
<1>3. Inserted(set, t, d) = front \o <<t>> \o back
  <2>1. P = {i \in DOMAIN set : Before(set[i], t, d)}
    BY <1>1
  <2>2. Inserted(set, t, d) = InsertAt(set, k + 1, t)
    BY <2>1, Zenon DEF Inserted
  <2>3. (k + 1) - 1 = k
    BY <1>2
  <2>4. InsertAt(set, k + 1, t)
          = SubSeq(set, 1, (k + 1) - 1) \o <<t>> \o SubSeq(set, k + 1, Len(set))
    BY Zenon DEF InsertAt
  <2> HIDE DEF k, P
  <2>5. InsertAt(set, k + 1, t) = SubSeq(set, 1, k) \o <<t>> \o SubSeq(set, k + 1, Len(set))
    BY <2>3, <2>4
  <2>6. QED  BY <2>2, <2>5
<1> HIDE DEF P, k
<1>4. /\ front \in Seq(Timers) /\ Len(front) = k
      /\ \A i \in 1 .. k : front[i] = set[i]
  BY <1>1, <1>2, SubSeqProperties
<1>5. /\ back \in Seq(Timers) /\ Len(back) = Len(set) - k
      /\ \A i \in 1 .. Len(set) - k : back[i] = set[k + i]
  <2>1. k + 1 \in Int /\ Len(set) \in Int /\ \A i \in k + 1 .. Len(set) : set[i] \in Timers
    BY <1>1, <1>2
  <2>2. /\ back \in Seq(Timers)
        /\ Len(back) = IF k + 1 <= Len(set) THEN Len(set) - (k + 1) + 1 ELSE 0
        /\ \A i \in 1 .. Len(set) - (k + 1) + 1 : back[i] = set[k + 1 + i - 1]
    BY <2>1, SubSeqProperties
  <2> HIDE DEF back
  <2>3. Len(set) - (k + 1) + 1 = Len(set) - k
    BY <1>1, <1>2
  <2>4. \A i \in 1 .. Len(set) - k : k + 1 + i - 1 = k + i
    BY <1>2
  <2>5. Len(back) = Len(set) - k
    <3>1. CASE k + 1 <= Len(set)
      BY <1>1, <1>2, <2>2, <3>1
    <3>2. CASE k = Len(set)
      BY <1>1, <1>2, <2>2, <3>2
    <3>3. k \in Nat /\ Len(set) \in Nat /\ k <= Len(set)
      BY <1>1, <1>2
    <3>4. k + 1 <= Len(set) \/ k = Len(set)
      BY <3>3
    <3>5. QED  BY <3>1, <3>2, <3>4
  <2>6. QED  BY <2>2, <2>3, <2>4, <2>5
<1> HIDE DEF front, back
<1>6. /\ front \o <<t>> \in Seq(Timers) /\ Len(front \o <<t>>) = k + 1
      /\ \A i \in 1 .. k : (front \o <<t>>)[i] = set[i]
      /\ (front \o <<t>>)[k + 1] = t
  BY <1>2, <1>4
<1>7. /\ Inserted(set, t, d) \in Seq(Timers)
      /\ Len(Inserted(set, t, d)) = Len(set) + 1
      /\ \A i \in 1 .. k + 1 : Inserted(set, t, d)[i] = (front \o <<t>>)[i]
      /\ \A i \in k + 1 .. Len(set) : Inserted(set, t, d)[i + 1] = back[i - k]
  <2> DEFINE f == front \o <<t>>
  <2>1. f \in Seq(Timers) /\ Len(f) = k + 1
    BY <1>6
  <2>2. Inserted(set, t, d) = f \o back
    BY <1>3
  <2> HIDE DEF f
  <2>3. f \o back \in Seq(Timers) /\ Len(f \o back) = Len(f) + Len(back)
    BY <2>1, <1>5, ConcatProperties
  <2>4. \A i \in 1 .. k + 1 : (f \o back)[i] = f[i]
    BY <2>1, <1>2, <1>5, ConcatProperties
  <2>5. ASSUME NEW i \in k + 1 .. Len(set)
        PROVE  (f \o back)[i + 1] = back[i - k]
    BY <2>1, <1>1, <1>2, <1>5, ConcatProperties
  <2>6. Len(f \o back) = Len(set) + 1
    BY <2>1, <2>3, <1>1, <1>2, <1>5
  <2>7. QED  BY <2>2, <2>3, <2>4, <2>5, <2>6 DEF f
<1>8. \A i \in k + 1 .. Len(set) : Inserted(set, t, d)[i + 1] = set[i]
  BY <1>1, <1>2, <1>5, <1>7
<1>9. /\ \A i \in 1 .. k : Before(set[i], t, d)
      /\ \A i \in k + 1 .. Len(set) : ~Before(set[i], t, d)
  BY <1>1, <1>2 DEF P
<1>10. \A i \in 1 .. k : Inserted(set, t, d)[i] = set[i]
  BY <1>2, <1>6, <1>7
<1>11. Inserted(set, t, d)[k + 1] = t
  BY <1>2, <1>6, <1>7
<1>12. QED  BY <1>2, <1>7, <1>8, <1>9, <1>10, <1>11

\* A timer that has time left takes its place in the order, behind one that has
\* expired; the others keep theirs.
LEMMA InsertedInOrder ==
    ASSUME NEW set \in Seq(Timers), NEW t \in Timers, NEW d \in Nat, d > 0,
           left \in [Timers -> Nat], OrderedBy(left, set), t \notin Range(set)
    PROVE  /\ Inserted(set, t, d) \in Seq(Timers)
           /\ Range(Inserted(set, t, d)) = Range(set) \cup {t}
           /\ OrderedBy([left EXCEPT ![t] = d], Inserted(set, t, d))
           /\ set # <<>> /\ left[Head(set)] = 0 =>
                 /\ Inserted(set, t, d) # <<>>
                 /\ Head(Inserted(set, t, d)) = Head(set)
<1> DEFINE s == Inserted(set, t, d)
           n == Len(set)
<1>1. /\ n \in Nat /\ \A i \in 1 .. n : set[i] \in Timers /\ set[i] \in Nat /\ left[set[i]] \in Nat
      /\ t \in Nat
  BY LenProperties, ElementOfSeq, TimerQueueAssumption
<1>2. \A i, j \in 1 .. n : i < j /\ Before(set[j], t, d) => Before(set[i], t, d)
  BY <1>1 DEF OrderedBy, Before
<1>3. PICK k \in 0 .. n :
         /\ s \in Seq(Timers) /\ Len(s) = n + 1
         /\ \A i \in 1 .. k : s[i] = set[i] /\ Before(set[i], t, d)
         /\ s[k + 1] = t
         /\ \A i \in k + 1 .. n : s[i + 1] = set[i] /\ ~Before(set[i], t, d)
  BY <1>2, InsertedSet
<1> HIDE DEF s
<1>4. \A i \in 1 .. n : set[i] # t
  BY <1>1, TimersOf
<1> DEFINE place(i) == IF i <= k THEN i ELSE i - 1
<1>5. ASSUME NEW i \in 1 .. n + 1, i # k + 1
      PROVE  /\ place(i) \in 1 .. n /\ s[i] = set[place(i)]
             /\ i <= k => Before(s[i], t, d)
             /\ i > k => ~Before(s[i], t, d)
  <2>1. CASE i <= k
    BY <1>1, <1>3, <2>1
  <2>2. CASE i > k
    <3>1. i - 1 \in k + 1 .. n /\ (i - 1) + 1 = i
      BY <1>1, <1>3, <1>5, <2>2
    <3>2. s[i] = set[i - 1] /\ ~Before(set[i - 1], t, d)
      BY <1>3, <3>1
    <3>3. QED  BY <1>1, <2>2, <3>1, <3>2
  <2>3. QED  BY <1>1, <1>3, <2>1, <2>2
<1>6. Range(s) = Range(set) \cup {t}
  <2>1. Range(s) = {s[i] : i \in 1 .. n + 1} /\ Range(set) = {set[i] : i \in 1 .. n}
    BY <1>3, TimersOf
  <2>2. ASSUME NEW i \in 1 .. n + 1
        PROVE  s[i] \in Range(set) \cup {t}
    BY <1>3, <1>5, <2>1
  <2>3. ASSUME NEW i \in 1 .. n
        PROVE  set[i] \in Range(s)
    <3>1. CASE i <= k
      BY <1>1, <1>3, <2>1, <3>1
    <3>2. CASE i > k
      <4>1. i \in k + 1 .. n /\ i + 1 \in 1 .. n + 1
        BY <1>1, <1>3, <3>2
      <4>2. QED  BY <1>3, <2>1, <4>1
    <3>3. QED  BY <1>1, <1>3, <3>1, <3>2
  <2>4. t \in Range(s)
    <3>1. k + 1 \in 1 .. n + 1
      BY <1>1, <1>3
    <3>2. QED  BY <1>3, <2>1, <3>1
  <2>5. QED  BY <2>1, <2>2, <2>3, <2>4
<1>7. OrderedBy([left EXCEPT ![t] = d], s)
  <2> DEFINE l == [left EXCEPT ![t] = d]
  <2> SUFFICES ASSUME NEW i \in 1 .. n + 1, NEW j \in 1 .. n + 1, i < j
               PROVE  /\ s[i] # s[j]
                      /\ \/ l[s[i]] = 0
                         \/ l[s[i]] < l[s[j]]
                         \/ l[s[i]] = l[s[j]] /\ s[i] < s[j]
    BY <1>3 DEF OrderedBy
  <2>1. l[t] = d /\ \A u \in Timers : u # t => l[u] = left[u]
    OBVIOUS
  <2> HIDE DEF l
  <2>2. CASE i = k + 1
    <3>1. /\ place(j) \in 1 .. n /\ s[j] = set[place(j)] /\ ~Before(s[j], t, d)
      BY <1>1, <1>3, <1>5, <2>2
    <3>2. s[j] \in Timers /\ s[j] # t /\ s[j] \in Nat /\ left[s[j]] \in Nat
      BY <1>1, <1>4, <3>1
    <3>3. QED  BY <1>1, <1>3, <2>1, <2>2, <3>1, <3>2 DEF Before
  <2>3. CASE j = k + 1
    <3>1. /\ place(i) \in 1 .. n /\ s[i] = set[place(i)] /\ Before(s[i], t, d)
      BY <1>1, <1>3, <1>5, <2>3
    <3>2. s[i] \in Timers /\ s[i] # t /\ s[i] \in Nat /\ left[s[i]] \in Nat
      BY <1>1, <1>4, <3>1
    <3>3. QED  BY <1>1, <1>3, <2>1, <2>3, <3>1, <3>2 DEF Before
  <2>4. CASE i # k + 1 /\ j # k + 1
    <3>1. /\ place(i) \in 1 .. n /\ s[i] = set[place(i)]
          /\ place(j) \in 1 .. n /\ s[j] = set[place(j)]
      BY <1>5, <2>4
    <3>2. place(i) < place(j)
      BY <1>1, <1>3, <2>4
    <3>3. /\ s[i] # s[j]
          /\ \/ left[s[i]] = 0
             \/ left[s[i]] < left[s[j]]
             \/ left[s[i]] = left[s[j]] /\ s[i] < s[j]
      <4>1. \A x, y \in 1 .. n : x < y =>
               /\ set[x] # set[y]
               /\ \/ left[set[x]] = 0
                  \/ left[set[x]] < left[set[y]]
                  \/ left[set[x]] = left[set[y]] /\ set[x] < set[y]
        BY DEF OrderedBy
      <4> HIDE DEF place
      <4>2. QED  BY <3>1, <3>2, <4>1
    <3>4. s[i] \in Timers /\ s[i] # t /\ s[j] \in Timers /\ s[j] # t
      BY <1>1, <1>4, <3>1
    <3>5. QED  BY <2>1, <3>3, <3>4
  <2>5. QED  BY <2>2, <2>3, <2>4
<1>8. ASSUME set # <<>>, left[Head(set)] = 0
      PROVE  s # <<>> /\ Head(s) = Head(set)
  <2>1. n >= 1 /\ Head(set) = set[1]
    BY <1>1, <1>8
  <2>2. Before(set[1], t, d)
    BY <1>1, <1>8, <2>1 DEF Before
  <2>3. k >= 1
    <3>1. CASE k = 0
      <4>1. 1 \in k + 1 .. n
        BY <1>1, <2>1, <3>1
      <4>2. QED  BY <1>3, <2>2, <4>1
    <3>2. QED  BY <1>3, <3>1
  <2>4. s[1] = set[1] /\ s # <<>>
    BY <1>1, <1>3, <2>3
  <2>5. QED  BY <1>3, <2>1, <2>4
<1>9. QED  BY <1>3, <1>6, <1>7, <1>8 DEF s
-----------------------------------------------------------------------------
(* The invariant.                                                          *)

LEMMA InitTimersInv == TimersInit => TimersInv
<1> SUFFICES ASSUME TimersInit
             PROVE  TimersInv
  OBVIOUS
<1>1. Timers \subseteq Nat /\ MaxDelay \in Nat
  BY TimerQueueAssumption, LongestDelay
<1>2. /\ timer_set = <<>> /\ Len(timer_set) = 0 /\ timer_set \in Seq(Timers)
      /\ Range(timer_set) = {}
  <2>1. timer_set \in Seq(Timers) /\ Len(timer_set) = 0
    BY DEF TimersInit
  <2>2. Range(timer_set) = {timer_set[i] : i \in 1 .. Len(timer_set)}
    BY <2>1, TimersOf
  <2>3. QED  BY <2>1, <2>2 DEF TimersInit
<1>3. TimersTypeOK
  BY <1>1, <1>2 DEF TimersInit, TimersTypeOK, Disarmed
<1>4. InOrder
  BY <1>2 DEF InOrder, OrderedBy
<1>5. CalledInFront /\ Made /\ SingleIsKept
  BY <1>2 DEF TimersInit, CalledInFront, Made, SingleIsKept
<1>6. QED  BY <1>3, <1>4, <1>5 DEF TimersInv

\* A timer is added.
LEMMA AddStep ==
    ASSUME TimersInv, NEW t \in Timers, NEW d \in Delays, NEW r \in BOOLEAN, Add(t, d, r), UNCHANGED <<pc, ran>>,
           posted' \subseteq Timers, timerfd' \in {Disarmed} \cup 0 .. MaxDelay
    PROVE  TimersInv'
<1> USE DEF TimersInv
<1>1. /\ t \in Nat /\ d \in Nat /\ d > 0 /\ d <= MaxDelay /\ MaxDelay \in Nat
  BY TimerQueueAssumption, LongestDelay
<1>2. /\ timer_set \in Seq(Timers) /\ left \in [Timers -> Nat] /\ OrderedBy(left, timer_set)
      /\ t \notin Range(timer_set) /\ t \notin ran
  BY <1>1 DEF TimersTypeOK, InOrder, Made, Add
<1>3. /\ timer_set' \in Seq(Timers)
      /\ Range(timer_set') = Range(timer_set) \cup {t}
      /\ OrderedBy(left', timer_set')
      /\ timer_set # <<>> /\ left[Head(timer_set)] = 0 =>
            timer_set' # <<>> /\ Head(timer_set') = Head(timer_set)
  <2>1. timer_set' = Inserted(timer_set, t, d) /\ left' = [left EXCEPT ![t] = d]
    BY DEF Add
  <2> DEFINE s == Inserted(timer_set, t, d)
  <2>2. /\ s \in Seq(Timers)
        /\ Range(s) = Range(timer_set) \cup {t}
        /\ OrderedBy([left EXCEPT ![t] = d], s)
        /\ timer_set # <<>> /\ left[Head(timer_set)] = 0 =>
              s # <<>> /\ Head(s) = Head(timer_set)
    BY <1>1, <1>2, InsertedInOrder
  <2> HIDE DEF s
  <2>3. timer_set' = s
    BY <2>1 DEF s
  <2>4. QED  BY <2>1, <2>2, <2>3
<1>4. TimersTypeOK'
  BY <1>1, <1>3 DEF TimersTypeOK, Add
<1>5. InOrder'
  BY <1>3 DEF InOrder
<1>6. /\ delay'[t] = d /\ recycle'[t] = r
      /\ \A u \in Timers : u # t => delay'[u] = delay[u] /\ recycle'[u] = recycle[u] /\ left'[u] = left[u]
  BY DEF Add, TimersTypeOK
<1>7. CalledInFront'
  <2> SUFFICES ASSUME pc' = "callback"
               PROVE  timer_set' # <<>> /\ left'[Head(timer_set')] = 0 /\ Head(timer_set') \in ran'
    BY DEF CalledInFront
  <2>1. timer_set # <<>> /\ left[Head(timer_set)] = 0 /\ Head(timer_set) \in ran
    BY DEF CalledInFront
  <2>2. Head(timer_set) \in Timers /\ Head(timer_set) # t
    BY <1>2, <2>1 DEF TimersTypeOK
  <2>3. QED  BY <1>3, <1>6, <2>1, <2>2
<1>8. Made'
  BY <1>1, <1>2, <1>3, <1>6, TimersOf DEF Made, TimersTypeOK
<1>9. SingleIsKept'
  <2> SUFFICES ASSUME NEW u \in Timers, delay'[u] > 0, ~recycle'[u]
               PROVE  u \in Range(timer_set')
                         <=> u \notin ran' \/ (pc' = "callback" /\ u = Head(timer_set'))
    BY DEF SingleIsKept
  <2>1. CASE u = t
    BY <1>2, <1>3, <2>1
  <2>2. CASE u # t
    <3>1. u \in Range(timer_set) <=> u \notin ran \/ (pc = "callback" /\ u = Head(timer_set))
      BY <1>6, <2>2 DEF SingleIsKept
    <3>2. pc = "callback" => Head(timer_set') = Head(timer_set)
      BY <1>3 DEF CalledInFront
    <3>3. QED  BY <1>3, <2>2, <3>1, <3>2
  <2>3. QED  BY <2>1, <2>2
<1>10. QED  BY <1>4, <1>5, <1>7, <1>8, <1>9

\* The timer in front is erased, and inserted again when it is a recurring one.
LEMMA EraseStep ==
    ASSUME TimersInv, Erase
    PROVE  TimersInv'
<1> USE DEF TimersInv
<1> DEFINE t == Head(timer_set)
           others == Tail(timer_set)
           n == Len(timer_set)
<1>1. /\ timer_set \in Seq(Timers) /\ timer_set # <<>> /\ left \in [Timers -> 0 .. MaxDelay]
      /\ left \in [Timers -> Nat] /\ left[t] = 0 /\ t \in ran /\ t \in Timers
      /\ delay[t] \in Delays /\ delay[t] \in Nat /\ delay[t] > 0 /\ delay[t] <= MaxDelay
      /\ MaxDelay \in Nat /\ Disarmed = -1
  <2>1. timer_set # <<>> /\ left[t] = 0 /\ t \in ran
    BY DEF Erase, CalledInFront
  <2>2. t \in Timers
    BY <2>1 DEF TimersTypeOK
  <2>3. delay[t] > 0 /\ delay[t] \in Delays \cup {0}
    BY <2>1, <2>2 DEF Made, TimersTypeOK
  <2>4. delay[t] \in Delays
    BY <2>3
  <2>5. /\ delay[t] \in Nat /\ delay[t] <= MaxDelay /\ MaxDelay \in Nat
    BY <2>4, LongestDelay
  <2>6. timer_set \in Seq(Timers) /\ left \in [Timers -> 0 .. MaxDelay] /\ left \in [Timers -> Nat]
    BY <2>5 DEF TimersTypeOK
  <2>7. QED  BY <2>1, <2>2, <2>3, <2>4, <2>5, <2>6 DEF Disarmed
<1>2. n \in Nat /\ n >= 1 /\ t = timer_set[1] /\ \A i \in 1 .. n : timer_set[i] \in Timers
  BY <1>1
<1>3. /\ others \in Seq(Timers) /\ Len(others) = n - 1
      /\ \A i \in 1 .. n - 1 : others[i] = timer_set[i + 1]
  BY <1>1, <1>2
<1> HIDE DEF t, others, n
<1>4. OrderedBy(left, others)
  <2> SUFFICES ASSUME NEW i \in 1 .. n - 1, NEW j \in 1 .. n - 1, i < j
               PROVE  /\ others[i] # others[j]
                      /\ \/ left[others[i]] = 0
                         \/ left[others[i]] < left[others[j]]
                         \/ left[others[i]] = left[others[j]] /\ others[i] < others[j]
    BY <1>3 DEF OrderedBy
  <2>1. i + 1 \in 1 .. n /\ j + 1 \in 1 .. n /\ i + 1 < j + 1
    BY <1>2
  <2>2. QED  BY <1>3, <2>1 DEF InOrder, OrderedBy, n
<1>5. t \notin Range(others) /\ Range(timer_set) = Range(others) \cup {t}
  <2>1. /\ Range(others) = {others[i] : i \in 1 .. n - 1}
        /\ Range(timer_set) = {timer_set[i] : i \in 1 .. n}
    BY <1>1, <1>3, TimersOf DEF n
  <2>2. ASSUME NEW i \in 1 .. n - 1
        PROVE  others[i] # t /\ others[i] \in Range(timer_set)
    <3>1. 1 \in 1 .. n /\ i + 1 \in 1 .. n /\ 1 < i + 1
      BY <1>2
    <3>2. timer_set[1] # timer_set[i + 1]
      BY <3>1 DEF InOrder, OrderedBy, n
    <3>3. QED  BY <1>2, <1>3, <2>1, <3>1, <3>2
  <2>3. ASSUME NEW i \in 1 .. n
        PROVE  timer_set[i] \in Range(others) \cup {t}
    <3>1. CASE i = 1
      BY <1>2, <3>1
    <3>2. CASE i # 1
      <4>1. i - 1 \in 1 .. n - 1 /\ (i - 1) + 1 = i
        BY <1>2, <3>2
      <4>2. QED  BY <1>3, <2>1, <4>1
    <3>3. QED  BY <3>1, <3>2
  <2>4. t \in Range(timer_set)
    BY <1>2, <2>1
  <2>5. QED  BY <2>1, <2>2, <2>3, <2>4
<1>6. /\ pc = "callback" /\ pc' = "timeOut"
      /\ UNCHANGED <<delay, recycle, timerfd, posted, ran, orderly>>
  BY DEF Erase
<1>7. /\ timer_set' \in Seq(Timers) /\ left' \in [Timers -> 0 .. MaxDelay]
      /\ OrderedBy(left', timer_set')
      /\ Range(timer_set') \in {Range(others), Range(others) \cup {t}}
      /\ ~recycle[t] => Range(timer_set') = Range(others)
  <2>1. CASE ~recycle[t]
    <3>1. timer_set' = others /\ left' = left
      BY <2>1 DEF Erase, t, others
    <3>2. QED  BY <1>1, <1>3, <1>4, <2>1, <3>1
  <2>2. CASE recycle[t]
    <3> DEFINE d == delay[t]
               s == Inserted(others, t, d)
    <3>1. left' = [left EXCEPT ![t] = d] /\ timer_set' \in Reset(timer_set, d)
      BY <2>2 DEF Erase, t
    <3>2. timer_set' \in {s, others}
      BY <3>1, Zenon DEF Reset, t, others
    <3>3. /\ s \in Seq(Timers)
          /\ Range(s) = Range(others) \cup {t}
          /\ OrderedBy([left EXCEPT ![t] = d], s)
      <4>1. d \in Nat /\ d > 0
        BY <1>1
      <4> HIDE DEF d
      <4>2. QED  BY <1>1, <1>3, <1>4, <1>5, <4>1, InsertedInOrder
    <3> HIDE DEF s
    <3>4. left' \in [Timers -> 0 .. MaxDelay] /\ \A u \in Timers : u # t => left'[u] = left[u]
      BY <1>1, <3>1
    <3>5. OrderedBy(left', others)
      <4>1. ASSUME NEW i \in 1 .. Len(others)
            PROVE  left'[others[i]] = left[others[i]]
        BY <1>3, <1>5, <3>4, TimersOf
      <4>2. QED  BY <1>4, <4>1 DEF OrderedBy
    <3>6. QED  BY <1>3, <2>2, <3>1, <3>2, <3>3, <3>4, <3>5
  <2>3. QED  BY <2>1, <2>2
<1>8. TimersTypeOK'
  BY <1>6, <1>7 DEF TimersTypeOK
<1>9. InOrder' /\ CalledInFront'
  BY <1>6, <1>7 DEF InOrder, CalledInFront
<1>10. Made'
  BY <1>5, <1>6, <1>7 DEF Made
<1>11. SingleIsKept'
  <2> SUFFICES ASSUME NEW u \in Timers, delay[u] > 0, ~recycle[u]
               PROVE  u \in Range(timer_set') <=> u \notin ran
    BY <1>6 DEF SingleIsKept
  <2>1. u \in Range(timer_set) <=> u \notin ran \/ u = t
    BY <1>6 DEF SingleIsKept, t
  <2>2. CASE u = t
    BY <1>1, <1>5, <1>7, <2>2
  <2>3. CASE u # t
    BY <1>5, <1>7, <2>1, <2>3
  <2>4. QED  BY <2>2, <2>3
<1>12. QED  BY <1>8, <1>9, <1>10, <1>11

\* Time passes for all timers alike.
LEMMA TickStep ==
    ASSUME TimersInv, Tick
    PROVE  TimersInv'
<1> USE DEF TimersInv
<1>1. /\ UNCHANGED <<pc, timer_set, delay, recycle, posted, ran, orderly>>
      /\ left' = [t \in Timers |-> Minus(left[t])] /\ timerfd' = Minus(timerfd)
  BY DEF Tick
<1>2. /\ timer_set \in Seq(Timers) /\ left \in [Timers -> 0 .. MaxDelay] /\ MaxDelay \in Nat
  BY LongestDelay DEF TimersTypeOK
<1>3. \A t \in Timers : /\ left[t] \in Nat /\ left[t] <= MaxDelay
                        /\ left'[t] = IF left[t] > 0 THEN left[t] - 1 ELSE left[t]
  BY <1>1, <1>2 DEF Minus
<1>4. TimersTypeOK'
  <2>1. left' \in [Timers -> 0 .. MaxDelay]
    BY <1>1, <1>2, <1>3
  <2>2. timerfd' \in {Disarmed} \cup 0 .. MaxDelay
    BY <1>1, <1>2 DEF TimersTypeOK, Minus, Disarmed
  <2>3. QED  BY <1>1, <2>1, <2>2 DEF TimersTypeOK
<1>5. InOrder'
  <2> SUFFICES ASSUME NEW i \in 1 .. Len(timer_set), NEW j \in 1 .. Len(timer_set), i < j
               PROVE  LET u == timer_set[i]
                          v == timer_set[j]
                      IN  u # v /\ (left'[u] = 0 \/ left'[u] < left'[v] \/ (left'[u] = left'[v] /\ u < v))
    BY <1>1 DEF InOrder, OrderedBy
  <2> DEFINE u == timer_set[i]
             v == timer_set[j]
  <2>1. u \in Timers /\ v \in Timers
    BY <1>2
  <2>2. u # v /\ (left[u] = 0 \/ left[u] < left[v] \/ (left[u] = left[v] /\ u < v))
    BY DEF InOrder, OrderedBy
  <2> HIDE DEF u, v
  <2>3. u # v /\ (left'[u] = 0 \/ left'[u] < left'[v] \/ (left'[u] = left'[v] /\ u < v))
    BY <1>3, <2>1, <2>2
  <2>4. QED  BY <2>3 DEF u, v
<1>6. CalledInFront'
  <2> SUFFICES ASSUME pc = "callback"
               PROVE  timer_set # <<>> /\ left'[Head(timer_set)] = 0 /\ Head(timer_set) \in ran
    BY <1>1 DEF CalledInFront
  <2>1. timer_set # <<>> /\ left[Head(timer_set)] = 0 /\ Head(timer_set) \in ran
    BY DEF CalledInFront
  <2>2. Head(timer_set) \in Timers
    BY <1>2, <2>1
  <2>3. QED  BY <1>3, <2>1, <2>2
<1>7. Made' /\ SingleIsKept'
  BY <1>1 DEF Made, SingleIsKept
<1>8. QED  BY <1>4, <1>5, <1>6, <1>7

LEMMA NextTimersInv == TimersInv /\ [TimersNext]_timerVars => TimersInv'
<1> SUFFICES ASSUME TimersInv, [TimersNext]_timerVars
             PROVE  TimersInv'
  OBVIOUS
<1>1. ASSUME NEW t \in Timers, NEW d \in Delays, NEW r \in BOOLEAN, AddTimer(t, d, r)
      PROVE  TimersInv'
  <2>1. d \in 0 .. MaxDelay
    BY LongestDelay
  <2>2. posted' \subseteq Timers /\ timerfd' \in {Disarmed} \cup 0 .. MaxDelay
    BY <1>1, <2>1 DEF AddTimer, TimersInv, TimersTypeOK
  <2>3. Add(t, d, r) /\ UNCHANGED <<pc, ran>>
    BY <1>1 DEF AddTimer
  <2>4. QED  BY <2>2, <2>3, AddStep
<1>2. ASSUME NEW t \in Timers, NEW d \in Delays, NEW r \in BOOLEAN, AddElsewhere(t, d, r)
      PROVE  TimersInv'
  <2>1. posted' \subseteq Timers /\ timerfd' \in {Disarmed} \cup 0 .. MaxDelay
    BY <1>2 DEF AddElsewhere, TimersInv, TimersTypeOK
  <2>2. Add(t, d, r) /\ UNCHANGED <<pc, ran>>
    BY <1>2 DEF AddElsewhere
  <2>3. QED  BY <2>1, <2>2, AddStep
<1>3. ASSUME NEW t \in Timers, CreateTimer(t)
      PROVE  TimersInv'
  <2>1. UNCHANGED <<pc, timer_set, left, delay, recycle, ran, orderly>> /\ posted' \subseteq posted
    BY <1>3 DEF CreateTimer, timers
  <2>2. timerfd' \in {Disarmed} \cup 0 .. MaxDelay
    BY <1>3, LongestDelay DEF CreateTimer, TimersInv, TimersTypeOK
  <2>3. QED  BY <2>1, <2>2 DEF TimersInv, TimersTypeOK, InOrder, CalledInFront, Made, SingleIsKept
<1>4. CASE Poll \/ ReadTimerfd \/ EndTimeOut
  <2>1. /\ UNCHANGED <<timer_set, left, delay, recycle, posted, ran, orderly>>
        /\ pc # "callback" /\ pc' \in {"poll", "dispatch", "timeOut"}
        /\ timerfd' \in {timerfd, Disarmed}
    BY <1>4 DEF Poll, ReadTimerfd, EndTimeOut, timers
  <2>2. TimersTypeOK'
    BY <2>1 DEF TimersInv, TimersTypeOK
  <2>3. InOrder' /\ CalledInFront' /\ Made'
    BY <2>1 DEF TimersInv, InOrder, CalledInFront, Made
  <2>4. SingleIsKept'
    BY <2>1 DEF TimersInv, SingleIsKept
  <2>5. QED  BY <2>2, <2>3, <2>4 DEF TimersInv
<1>5. CASE RunTimer
  <2>1. /\ UNCHANGED <<timer_set, left, delay, recycle, posted, orderly, timerfd>>
        /\ pc = "timeOut" /\ pc' = "callback" /\ ran' = ran \cup {Head(timer_set)}
        /\ timer_set # <<>> /\ left[Head(timer_set)] = 0
    BY <1>5 DEF RunTimer, IsDue, timers
  <2>2. timer_set \in Seq(Timers)
    BY DEF TimersInv, TimersTypeOK
  <2>3. Head(timer_set) \in Timers /\ Head(timer_set) \in Range(timer_set)
    <3>1. Head(timer_set) = timer_set[1] /\ 1 \in 1 .. Len(timer_set)
      BY <2>1, <2>2
    <3>2. QED  BY <2>2, <3>1, TimersOf
  <2>4. TimersTypeOK'
    BY <2>1, <2>3 DEF TimersInv, TimersTypeOK
  <2>5. InOrder' /\ CalledInFront'
    BY <2>1 DEF TimersInv, InOrder, CalledInFront
  <2>6. Made'
    BY <2>1, <2>3 DEF TimersInv, Made
  <2>7. SingleIsKept'
    BY <2>1, <2>3 DEF TimersInv, SingleIsKept
  <2>8. QED  BY <2>4, <2>5, <2>6, <2>7 DEF TimersInv
<1>6. CASE Erase
  BY <1>6, EraseStep
<1>7. CASE Tick
  BY <1>7, TickStep
<1>8. CASE UNCHANGED timerVars
  BY <1>8 DEF timerVars, timers, TimersInv, TimersTypeOK, InOrder, CalledInFront, Made, SingleIsKept
<1>9. QED  BY <1>1, <1>2, <1>3, <1>4, <1>5, <1>6, <1>7, <1>8 DEF TimersNext, TimeOut

LEMMA TimersInvHolds == TimersSpec => []TimersInv
<1>1. QED  BY InitTimersInv, NextTimersInv, PTL DEF TimersSpec

\* The set of a loop stays in order, with no timer twice, although its timers are
\* added by callbacks and threads and recurring ones change their time in it; and
\* a timer that is not recurring is in it until its callback has returned, neither
\* dropped before nor called again.
THEOREM TimersAreKept == TimersSpec => []SetIsKept
<1>1. ASSUME TimersInv
      PROVE  SetIsKept
  <2>1. SetInOrder
    <3> SUFFICES ASSUME NEW i \in 1 .. Len(timer_set), NEW j \in 1 .. Len(timer_set), i < j
                 PROVE  /\ timer_set[i] # timer_set[j]
                        /\ left[timer_set[i]] <= left[timer_set[j]]
      BY DEF SetInOrder
    <3>1. timer_set[i] \in Timers /\ timer_set[j] \in Timers
      BY <1>1, ElementOfSeq DEF TimersInv, TimersTypeOK
    <3>2. left[timer_set[i]] \in Nat /\ left[timer_set[j]] \in Nat
      BY <1>1, <3>1 DEF TimersInv, TimersTypeOK
    <3>3. QED  BY <1>1, <3>2 DEF TimersInv, InOrder, OrderedBy
  <2>2. QED  BY <1>1, <2>1 DEF SetIsKept, TimersInv
<1>2. QED  BY <1>1, TimersInvHolds, PTL
=============================================================================
