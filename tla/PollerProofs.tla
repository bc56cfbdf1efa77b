---------------------------- MODULE PollerProofs ----------------------------
(***************************************************************************)
(* Theorems about Poller, for any number of descriptors and connections:   *)
(* its types, that poll serves every descriptor, and that on a loop which  *)
(* accepts its own connections, which nobody shuts down, descriptors,      *)
(* channels and sockets belong together.                                   *)
(***************************************************************************)
EXTENDS Poller, SequenceTheorems, FiniteSetTheorems, TLAPS

-----------------------------------------------------------------------------
(* What the operators of Descriptors do to the tables.                     *)

\* The types of the tables; and pollfds has room for what is watched.
Tables(r) ==
    /\ r = [pollfds |-> r.pollfds, channelList |-> r.channelList,
            index |-> r.index, fd |-> r.fd,
            interest |-> r.interest, socket |-> r.socket]
    /\ r.pollfds \in Seq(AllFds)
    /\ r.channelList \in [AllFds -> Channels \cup {None}]
    /\ r.index \in [Channels -> Int]
    /\ \A c \in Channels : r.index[c] \in -1 .. Len(r.pollfds) - 1
    /\ r.fd \in [Channels -> AllFds \cup {0}]
    /\ r.socket \in [Fds -> Conns \cup {None}]
    /\ Watched(r) \subseteq AllFds
    /\ \A f \in Watched(r) : r.interest[f] \subseteq Events
    /\ IsFiniteSet(Watched(r)) /\ Cardinality(Watched(r)) <= Len(r.pollfds)

\* The numbers of the fixed channels, and that they are no connections.
LEMMA FixedChannels ==
    /\ FixedFds = {WakeFd, TimerFd} \cup (IF listening THEN {ListenFd} ELSE {})
    /\ Len(Registry) = IF listening THEN 3 ELSE 2
    /\ Registry \in Seq(FixedFds)
    /\ Fds \cap FixedFds = {} /\ 0 \notin AllFds
    /\ Conns \cap Fixed = {} /\ None \notin Channels
    /\ Wake # Timer /\ Wake # Listen /\ Timer # Listen
<1>1. Wake # Timer /\ Wake # Listen /\ Timer # Listen
      /\ None # Wake /\ None # Timer /\ None # Listen
  <2> DEFINE S == {Timer, Listen, None}
             T == {Listen, None}
             U == {None}
  <2>1. /\ IsFiniteSet({}) /\ Cardinality({}) = 0
    BY FS_EmptySet
  <2>2. IsFiniteSet({} \cup {None}) /\ Cardinality({} \cup {None}) = 1 /\ U = {} \cup {None}
    BY <2>1, FS_AddElement
  <2>3. IsFiniteSet(U) /\ Cardinality(U) = 1
    BY <2>2
  <2>4. /\ IsFiniteSet(U \cup {Listen}) /\ T = U \cup {Listen}
        /\ Cardinality(U \cup {Listen}) = IF Listen \in U THEN 1 ELSE 2
    BY <2>3, FS_AddElement
  <2>5. /\ IsFiniteSet(T \cup {Timer}) /\ S = T \cup {Timer}
        /\ Cardinality(T \cup {Timer}) = IF Timer \in T THEN Cardinality(T) ELSE Cardinality(T) + 1
    BY <2>4, FS_AddElement
  <2>6. /\ {Wake, Timer, Listen, None} = S \cup {Wake}
        /\ Cardinality(S \cup {Wake}) = IF Wake \in S THEN Cardinality(S) ELSE Cardinality(S) + 1
    BY <2>5, FS_AddElement
  <2>7. Cardinality(S \cup {Wake}) = 4
    BY <2>6, PollerAssumption
  <2>8. Cardinality(T) \in 1 .. 2 /\ Cardinality(S) \in 1 .. 3
    BY <2>4, <2>5
  <2>9. Wake \notin S
    BY <2>6, <2>7, <2>8
  <2>10. Timer \notin T
    BY <2>4, <2>5, <2>6, <2>7, <2>8
  <2>11. Listen \notin U
    BY <2>4, <2>5, <2>6, <2>7, <2>8
  <2> QED
    BY <2>9, <2>10, <2>11
<1>2. CASE listening
  <2>1. Registry = <<TimerFd, WakeFd>> \o <<ListenFd>>
    BY <1>2 DEF Registry
  <2>2. /\ Registry \in Seq({WakeFd, TimerFd, ListenFd}) /\ Len(Registry) = 3
        /\ Registry[1] = TimerFd /\ Registry[2] = WakeFd /\ Registry[3] = ListenFd
    BY <2>1
  <2>3. FixedFds = {WakeFd, TimerFd, ListenFd}
    BY <2>2, LenProperties DEF FixedFds, Range
  <2> QED
    BY <1>1, <1>2, <2>2, <2>3, PollerAssumption
    DEF WakeFd, TimerFd, ListenFd, AllFds, Channels, Fixed
<1>3. CASE ~listening
  <2>1. Registry = <<TimerFd, WakeFd>> \o <<>>
    BY <1>3 DEF Registry
  <2>2. /\ Registry \in Seq({WakeFd, TimerFd}) /\ Len(Registry) = 2
        /\ Registry[1] = TimerFd /\ Registry[2] = WakeFd
    BY <2>1
  <2>3. FixedFds = {WakeFd, TimerFd}
    BY <2>2, LenProperties DEF FixedFds, Range
  <2> QED
    BY <1>1, <1>3, <2>2, <2>3, PollerAssumption
    DEF WakeFd, TimerFd, ListenFd, AllFds, Channels, Fixed
<1> QED
  BY <1>2, <1>3

\* There are as many of them as have entries in pollfds.
LEMMA FewFixed == IsFiniteSet(FixedFds) /\ Cardinality(FixedFds) <= Len(Registry)
<1> DEFINE A == {WakeFd}
           B == {WakeFd, TimerFd}
           C == {WakeFd, TimerFd, ListenFd}
<1>1. IsFiniteSet({}) /\ Cardinality({}) = 0
  BY FS_EmptySet
<1>2. IsFiniteSet({} \cup {WakeFd}) /\ Cardinality({} \cup {WakeFd}) = 1 /\ A = {} \cup {WakeFd}
  BY <1>1, FS_AddElement
<1>3. IsFiniteSet(A) /\ Cardinality(A) = 1
  BY <1>2
<1>4. /\ IsFiniteSet(A \cup {TimerFd}) /\ B = A \cup {TimerFd}
      /\ Cardinality(A \cup {TimerFd}) = IF TimerFd \in A THEN 1 ELSE 2
  BY <1>3, FS_AddElement
<1>5. IsFiniteSet(B) /\ Cardinality(B) = 2
  BY <1>4 DEF WakeFd, TimerFd
<1>6. /\ IsFiniteSet(B \cup {ListenFd}) /\ C = B \cup {ListenFd}
      /\ Cardinality(B \cup {ListenFd}) = IF ListenFd \in B THEN 2 ELSE 3
  BY <1>5, FS_AddElement
<1>7. IsFiniteSet(C) /\ Cardinality(C) = 3
  BY <1>6 DEF WakeFd, TimerFd, ListenFd
<1>8. /\ FixedFds = {WakeFd, TimerFd} \cup (IF listening THEN {ListenFd} ELSE {})
      /\ Len(Registry) = IF listening THEN 3 ELSE 2
  BY FixedChannels
<1>9. CASE listening
  <2>1. FixedFds = C /\ Len(Registry) = 3
    BY <1>8, <1>9
  <2> QED
    BY <1>7, <2>1
<1>10. CASE ~listening
  <2>1. FixedFds = B /\ Len(Registry) = 2
    BY <1>8, <1>10
  <2> QED
    BY <1>5, <2>1
<1> QED
  BY <1>9, <1>10

\* EPOLL_CTL_MOD of a descriptor that is watched changes what for.
LEMMA RewatchTables ==
    ASSUME NEW r, Tables(r), NEW f \in Watched(r), NEW ev \in SUBSET Events
    PROVE  /\ Tables(Watch(r, f, ev))
           /\ Watch(r, f, ev) = [r EXCEPT !.interest = Watch(r, f, ev).interest]
           /\ Watch(r, f, ev).pollfds = r.pollfds /\ Watch(r, f, ev).index = r.index
           /\ Watch(r, f, ev).channelList = r.channelList
           /\ Watch(r, f, ev).fd = r.fd /\ Watch(r, f, ev).socket = r.socket
           /\ Watched(Watch(r, f, ev)) = Watched(r)
           /\ \A g \in Watched(r) :
                 Watch(r, f, ev).interest[g] = IF g = f THEN ev ELSE r.interest[g]
<1> DEFINE i == [g \in Watched(r) \cup {f} |-> IF g = f THEN ev ELSE r.interest[g]]
<1>1. /\ DOMAIN i = Watched(r)
      /\ \A g \in Watched(r) : i[g] = IF g = f THEN ev ELSE r.interest[g]
  OBVIOUS
<1>2. Watch(r, f, ev) = [r EXCEPT !.interest = i]
  BY DEF Watch
<1> HIDE DEF i
<1>3. /\ Watch(r, f, ev).interest = i /\ Watch(r, f, ev).pollfds = r.pollfds
      /\ Watch(r, f, ev).channelList = r.channelList /\ Watch(r, f, ev).index = r.index
      /\ Watch(r, f, ev).fd = r.fd /\ Watch(r, f, ev).socket = r.socket
      /\ Watch(r, f, ev) = [pollfds |-> r.pollfds, channelList |-> r.channelList,
            index |-> r.index, fd |-> r.fd, interest |-> i, socket |-> r.socket]
  BY <1>2 DEF Tables
<1>4. Watched(Watch(r, f, ev)) = Watched(r)
  BY <1>1, <1>3 DEF Watched
<1> QED
  BY <1>1, <1>2, <1>3, <1>4 DEF Tables

\* EPOLL_CTL_ADD of an open descriptor, with its new entry of pollfds, channelList
\* and the index of its channel: the case of AddChannel where the kernel obliges.
LEMMA AddTables ==
    ASSUME NEW r, Tables(r), NEW c \in Channels, r.fd[c] \in AllFds, NEW ev \in SUBSET Events
    PROVE  LET f == r.fd[c]
               u == AddChannel(r, c, ev)
           IN  /\ Tables(u)
               /\ u.pollfds = Append(r.pollfds, f)
               /\ u.channelList = [r.channelList EXCEPT ![f] = c]
               /\ u.index = [r.index EXCEPT ![c] = Len(r.pollfds)]
               /\ u.fd = r.fd /\ u.socket = r.socket
               /\ Watched(r) \subseteq Watched(u) /\ Watched(u) \subseteq Watched(r) \cup {f}
               /\ \A g \in Watched(r) : u.interest[g] = r.interest[g]
               /\ f \notin Watched(r) /\ IsOpen(r, f) => f \in Watched(u) /\ u.interest[f] = ev
<1> DEFINE f == r.fd[c]
           n == f \notin Watched(r) /\ IsOpen(r, f)
           i == [g \in Watched(r) \cup {f} |-> IF g = f THEN ev ELSE r.interest[g]]
           j == IF n THEN i ELSE r.interest
           l == [r.channelList EXCEPT ![f] = c]
           x == [r.index EXCEPT ![c] = Len(r.pollfds)]
           p == Append(r.pollfds, f)
           a == IF n THEN Watch(r, f, ev) ELSE r
           u == AddChannel(r, c, ev)
<1>1. /\ DOMAIN i = Watched(r) \cup {f} /\ i[f] = ev
      /\ \A g \in Watched(r) : g # f => i[g] = r.interest[g]
  OBVIOUS
<1>2. /\ DOMAIN j = IF n THEN Watched(r) \cup {f} ELSE Watched(r)
      /\ \A g \in Watched(r) : j[g] = r.interest[g]
      /\ n => j[f] = ev
  BY <1>1 DEF Watched
<1>3. Watch(r, f, ev) = [r EXCEPT !.interest = i]
  BY DEF Watch
<1> HIDE DEF i
<1>4. a = [pollfds |-> r.pollfds, channelList |-> r.channelList, index |-> r.index,
           fd |-> r.fd, interest |-> j, socket |-> r.socket]
  BY <1>3 DEF Tables
<1>5. u = [a EXCEPT !.channelList[f] = c, !.index[c] = Len(r.pollfds), !.pollfds = p]
  BY DEF AddChannel
<1> HIDE DEF j, a, u
<1>6. u = [pollfds |-> p, channelList |-> l, index |-> x,
           fd |-> r.fd, interest |-> j, socket |-> r.socket]
  BY <1>4, <1>5
<1> HIDE DEF n
<1>7. /\ p \in Seq(AllFds) /\ Len(p) = Len(r.pollfds) + 1 /\ Len(r.pollfds) \in Nat
      /\ l \in [AllFds -> Channels \cup {None}]
      /\ x \in [Channels -> Int]
      /\ \A d \in Channels : x[d] \in -1 .. Len(p) - 1
  <2>1. p \in Seq(AllFds) /\ Len(p) = Len(r.pollfds) + 1 /\ Len(r.pollfds) \in Nat
    BY AppendProperties, LenProperties DEF Tables
  <2> QED
    BY <2>1 DEF Tables
<1>8. IsFiniteSet(DOMAIN j) /\ Cardinality(DOMAIN j) <= Len(p)
  <2>1. IsFiniteSet(Watched(r)) /\ Cardinality(Watched(r)) <= Len(r.pollfds)
        /\ Cardinality(Watched(r)) \in Nat
    BY FS_CardinalityType DEF Tables
  <2>2. /\ IsFiniteSet(Watched(r) \cup {f})
        /\ Cardinality(Watched(r) \cup {f}) \in {Cardinality(Watched(r)), Cardinality(Watched(r)) + 1}
    BY <2>1, FS_AddElement
  <2>3. DOMAIN j \in {Watched(r), Watched(r) \cup {f}}
    BY <1>2
  <2> HIDE DEF p
  <2> QED
    BY <1>7, <2>1, <2>2, <2>3
<1>9. /\ DOMAIN j \subseteq AllFds
      /\ \A g \in DOMAIN j : j[g] \subseteq Events
  BY <1>2 DEF Tables
<1> HIDE DEF p, l, x
<1>10. Tables(u)
  <2>1. Watched(u) = DOMAIN j
    BY <1>6 DEF Watched
  <2> QED
    BY <1>6, <1>7, <1>8, <1>9, <2>1 DEF Tables
<1> QED
  BY <1>2, <1>6, <1>10 DEF Watched, p, l, x, u, n

\* updateChannel of a channel that has an index.
LEMMA ModifyTables ==
    ASSUME NEW r, Tables(r), NEW c \in Channels, r.fd[c] \in AllFds, NEW ev \in SUBSET Events
    PROVE  LET f == r.fd[c]
               u == ModifyChannel(r, c, ev)
           IN  /\ Tables(u)
               /\ u.channelList = [r.channelList EXCEPT ![f] = c]
               /\ u.pollfds = r.pollfds /\ u.index = r.index
               /\ u.fd = r.fd /\ u.socket = r.socket
               /\ Watched(u) = Watched(r)
               /\ \A g \in Watched(r) : g # f \/ ev = {} => u.interest[g] = r.interest[g]
               /\ ev # {} /\ f \in Watched(r) => u.interest[f] = ev
<1> DEFINE f == r.fd[c]
           n == ev # {} /\ f \in Watched(r)
           m == IF n THEN Watch(r, f, ev) ELSE r
           l == [r.channelList EXCEPT ![f] = c]
           u == ModifyChannel(r, c, ev)
<1>1. /\ Tables(m) /\ Watched(m) = Watched(r)
      /\ m.pollfds = r.pollfds /\ m.index = r.index /\ m.channelList = r.channelList
      /\ m.fd = r.fd /\ m.socket = r.socket
      /\ \A g \in Watched(r) : g # f \/ ev = {} => m.interest[g] = r.interest[g]
      /\ ev # {} /\ f \in Watched(r) => m.interest[f] = ev
  <2>1. CASE n
    BY <2>1, RewatchTables
  <2>2. CASE ~n
    BY <2>2
  <2> QED
    BY <2>1, <2>2
<1>2. u = [m EXCEPT !.channelList[f] = c]
  BY DEF ModifyChannel
<1> HIDE DEF m, u, n
<1>3. u = [pollfds |-> r.pollfds, channelList |-> l, index |-> r.index,
           fd |-> r.fd, interest |-> m.interest, socket |-> r.socket]
  BY <1>1, <1>2 DEF Tables
<1>4. l \in [AllFds -> Channels \cup {None}]
  BY DEF Tables
<1> HIDE DEF l
<1>5. Watched(u) = Watched(r) /\ u.interest = m.interest
  BY <1>1, <1>3 DEF Watched
<1>6. Tables(u)
  BY <1>1, <1>3, <1>4, <1>5 DEF Tables
<1> QED
  BY <1>1, <1>3, <1>5, <1>6 DEF l, u

\* EPOLL_CTL_DEL.
LEMMA UnwatchTables ==
    ASSUME NEW r, Tables(r), NEW f
    PROVE  /\ Tables(Unwatch(r, f))
           /\ Unwatch(r, f) = [r EXCEPT !.interest = Unwatch(r, f).interest]
           /\ Watched(Unwatch(r, f)) = Watched(r) \ {f}
           /\ \A g \in Watched(r) \ {f} : Unwatch(r, f).interest[g] = r.interest[g]
<1> DEFINE i == [g \in Watched(r) \ {f} |-> r.interest[g]]
<1>1. DOMAIN i = Watched(r) \ {f} /\ \A g \in Watched(r) \ {f} : i[g] = r.interest[g]
  OBVIOUS
<1>2. Unwatch(r, f) = [r EXCEPT !.interest = i]
  BY DEF Unwatch
<1> HIDE DEF i
<1>3. /\ Unwatch(r, f).interest = i /\ Unwatch(r, f).pollfds = r.pollfds
      /\ Unwatch(r, f).channelList = r.channelList /\ Unwatch(r, f).index = r.index
      /\ Unwatch(r, f).fd = r.fd /\ Unwatch(r, f).socket = r.socket
      /\ Unwatch(r, f) = [pollfds |-> r.pollfds, channelList |-> r.channelList,
            index |-> r.index, fd |-> r.fd, interest |-> i, socket |-> r.socket]
  BY <1>2 DEF Tables
<1>4. Watched(Unwatch(r, f)) = Watched(r) \ {f}
  BY <1>1, <1>3 DEF Watched
<1>5. IsFiniteSet(Watched(r) \ {f}) /\ Cardinality(Watched(r) \ {f}) <= Len(r.pollfds)
  <2>1. /\ IsFiniteSet(Watched(r)) /\ Cardinality(Watched(r)) <= Len(r.pollfds)
        /\ Len(r.pollfds) \in Nat
    BY LenProperties DEF Tables
  <2>2. /\ IsFiniteSet(Watched(r) \ {f})
        /\ Cardinality(Watched(r) \ {f}) <= Cardinality(Watched(r))
        /\ Cardinality(Watched(r)) \in Nat /\ Cardinality(Watched(r) \ {f}) \in Nat
    BY <2>1, FS_Subset, FS_CardinalityType
  <2> QED
    BY <2>1, <2>2
<1> QED
  BY <1>1, <1>2, <1>3, <1>4, <1>5 DEF Tables

\* removeChannel of a channel that has an index.
LEMMA RemoveTables ==
    ASSUME NEW r, Tables(r), NEW c \in Channels, r.index[c] >= 0
    PROVE  LET u == RemoveChannel(r, c)
               g == r.pollfds[r.index[c] + 1]
           IN  /\ Tables(u)
               /\ u.channelList = [r.channelList EXCEPT ![r.fd[c]] = None]
               /\ u.index = [r.index EXCEPT ![c] = -1]
               /\ u.pollfds = r.pollfds /\ u.fd = r.fd /\ u.socket = r.socket
               /\ Watched(u) = Watched(r) \ {g}
               /\ \A h \in Watched(u) : u.interest[h] = r.interest[h]
<1> DEFINE g == r.pollfds[r.index[c] + 1]
           w == Unwatch(r, g)
           l == [r.channelList EXCEPT ![r.fd[c]] = None]
           x == [r.index EXCEPT ![c] = -1]
           u == RemoveChannel(r, c)
<1>1. /\ Tables(w) /\ Watched(w) = Watched(r) \ {g}
      /\ w = [r EXCEPT !.interest = w.interest]
      /\ \A h \in Watched(w) : w.interest[h] = r.interest[h]
  BY UnwatchTables
<1>2. u = [w EXCEPT !.channelList[r.fd[c]] = None, !.index[c] = -1]
  BY DEF RemoveChannel, Tables
<1> HIDE DEF w, u, g
<1>3. /\ w.pollfds = r.pollfds /\ w.index = r.index /\ w.channelList = r.channelList
      /\ w.fd = r.fd /\ w.socket = r.socket
  BY <1>1 DEF Tables
<1>4. u = [pollfds |-> r.pollfds, channelList |-> l, index |-> x,
           fd |-> r.fd, interest |-> w.interest, socket |-> r.socket]
  BY <1>1, <1>2, <1>3 DEF Tables
<1>5. /\ l \in [AllFds -> Channels \cup {None}] /\ x \in [Channels -> Int]
      /\ \A d \in Channels : x[d] \in -1 .. Len(r.pollfds) - 1
  <2>1. Len(r.pollfds) \in Nat
    BY LenProperties DEF Tables
  <2>2. -1 \in Int /\ -1 \in -1 .. Len(r.pollfds) - 1
    BY <2>1
  <2>3. \A d \in Channels : x[d] = IF d = c THEN -1 ELSE r.index[d]
    BY DEF Tables
  <2>4. l \in [AllFds -> Channels \cup {None}] /\ x \in [Channels -> Int]
    BY <2>2 DEF Tables
  <2> HIDE DEF x, l
  <2> QED
    BY <2>2, <2>3, <2>4 DEF Tables
<1> HIDE DEF l, x
<1>6. Watched(u) = Watched(w) /\ u.interest = w.interest
  BY <1>4 DEF Watched
<1>7. Tables(u)
  BY <1>1, <1>3, <1>4, <1>5, <1>6 DEF Tables
<1> QED
  BY <1>1, <1>3, <1>4, <1>6, <1>7 DEF l, x, u, g

\* close.
LEMMA CloseTables ==
    ASSUME NEW r, Tables(r), NEW f
    PROVE  LET u == Close(r, f)
           IN  /\ Tables(u)
               /\ u.socket = [r.socket EXCEPT ![f] = None]
               /\ u.pollfds = r.pollfds /\ u.index = r.index
               /\ u.channelList = r.channelList /\ u.fd = r.fd
               /\ Watched(u) = Watched(r) \ {f}
               /\ \A g \in Watched(u) : u.interest[g] = r.interest[g]
<1> DEFINE w == Unwatch(r, f)
           k == [r.socket EXCEPT ![f] = None]
           u == Close(r, f)
<1>1. /\ Tables(w) /\ Watched(w) = Watched(r) \ {f}
      /\ w = [r EXCEPT !.interest = w.interest]
      /\ \A h \in Watched(w) : w.interest[h] = r.interest[h]
  BY UnwatchTables
<1>2. u = [w EXCEPT !.socket[f] = None]
  BY DEF Close
<1> HIDE DEF w, u
<1>3. /\ w.pollfds = r.pollfds /\ w.index = r.index /\ w.channelList = r.channelList
      /\ w.fd = r.fd /\ w.socket = r.socket
  BY <1>1 DEF Tables
<1>4. u = [pollfds |-> r.pollfds, channelList |-> r.channelList, index |-> r.index,
           fd |-> r.fd, interest |-> w.interest, socket |-> k]
  BY <1>1, <1>2, <1>3 DEF Tables
<1>5. k \in [Fds -> Conns \cup {None}]
  BY DEF Tables
<1> HIDE DEF k
<1>6. Watched(u) = Watched(w) /\ u.interest = w.interest
  BY <1>4 DEF Watched
<1>7. Tables(u)
  BY <1>1, <1>3, <1>4, <1>5, <1>6 DEF Tables
<1> QED
  BY <1>1, <1>3, <1>4, <1>6, <1>7 DEF k, u

\* accept.
LEMMA OpenTables ==
    ASSUME NEW r, Tables(r), NEW f \in Fds, NEW c \in Conns
    PROVE  LET u == Open(r, c, f)
           IN  /\ Tables(u)
               /\ u.socket = [r.socket EXCEPT ![f] = c]
               /\ u.fd = [r.fd EXCEPT ![c] = f]
               /\ u.pollfds = r.pollfds /\ u.index = r.index
               /\ u.channelList = r.channelList /\ u.interest = r.interest
<1> DEFINE k == [r.socket EXCEPT ![f] = c]
           n == [r.fd EXCEPT ![c] = f]
           u == Open(r, c, f)
<1>1. u = [r EXCEPT !.socket = k, !.fd = n]
  BY DEF Open
<1> HIDE DEF u, k, n
<1>2. u = [pollfds |-> r.pollfds, channelList |-> r.channelList, index |-> r.index,
           fd |-> n, interest |-> r.interest, socket |-> k]
  BY <1>1 DEF Tables
<1>3. k \in [Fds -> Conns \cup {None}] /\ n \in [Channels -> AllFds \cup {0}]
  BY DEF Tables, AllFds, k, n
<1>4. Watched(u) = Watched(r)
  BY <1>2 DEF Watched
<1>5. Tables(u)
  BY <1>2, <1>3, <1>4 DEF Tables
<1> QED
  BY <1>2, <1>5 DEF k, n, u

\* What the handlers make of these: a registration or a change of events,
LEMMA UpdateTables ==
    ASSUME NEW r, Tables(r), NEW c \in Channels, r.fd[c] \in AllFds, NEW ev \in SUBSET Events
    PROVE  LET f == r.fd[c]
               u == UpdateChannel(r, c, ev)
           IN  /\ Tables(u)
               /\ u.channelList = [r.channelList EXCEPT ![f] = c]
               /\ u.index[c] >= 0 /\ \A d \in Channels : d # c => u.index[d] = r.index[d]
               /\ u.fd = r.fd /\ u.socket = r.socket
               /\ Watched(u) \subseteq Watched(r) \cup {f}
<1> DEFINE f == r.fd[c]
           u == UpdateChannel(r, c, ev)
<1>1. CASE r.index[c] < 0
  <2>1. u = AddChannel(r, c, ev)
    BY <1>1 DEF UpdateChannel
  <2>2. Len(r.pollfds) \in Nat
    BY LenProperties DEF Tables
  <2> HIDE DEF u
  <2>3. /\ Tables(u) /\ u.channelList = [r.channelList EXCEPT ![f] = c]
        /\ u.index = [r.index EXCEPT ![c] = Len(r.pollfds)]
        /\ u.fd = r.fd /\ u.socket = r.socket /\ Watched(u) \subseteq Watched(r) \cup {f}
    BY <2>1, AddTables
  <2> QED
    BY <2>2, <2>3 DEF Tables, u
<1>2. CASE ~(r.index[c] < 0)
  <2>1. u = ModifyChannel(r, c, ev)
    BY <1>2 DEF UpdateChannel
  <2> HIDE DEF u
  <2>2. r.index[c] >= 0
    BY <1>2 DEF Tables
  <2> QED
    BY <2>1, <2>2, ModifyTables DEF u
<1> QED
  BY <1>1, <1>2

\* shutdownWriteInLoop,
LEMMA ShutTables ==
    ASSUME NEW r, Tables(r), NEW c \in Conns, r.fd[c] \in Fds
    PROVE  LET f == r.fd[c]
               u == Close(UpdateChannel(r, c, {}), f)
           IN  /\ Tables(u)
               /\ u.channelList = [r.channelList EXCEPT ![f] = c]
               /\ u.fd = r.fd
               /\ u.socket = [r.socket EXCEPT ![f] = None]
               /\ Watched(u) \subseteq Watched(r) \ {f}
<1> DEFINE f == r.fd[c]
           v == UpdateChannel(r, c, {})
           u == Close(v, f)
<1>1. c \in Channels /\ f \in AllFds /\ {} \in SUBSET Events
  BY DEF Channels, AllFds
<1>2. /\ Tables(v) /\ v.channelList = [r.channelList EXCEPT ![f] = c]
      /\ v.fd = r.fd /\ v.socket = r.socket /\ Watched(v) \subseteq Watched(r) \cup {f}
  BY <1>1, UpdateTables
<1> HIDE DEF v
<1>3. /\ Tables(u) /\ u.socket = [v.socket EXCEPT ![f] = None]
      /\ u.channelList = v.channelList /\ u.fd = v.fd /\ Watched(u) = Watched(v) \ {f}
  BY <1>2, CloseTables
<1> QED
  BY <1>2, <1>3 DEF u, v

\* and CloseHandel and ErrorHandel.
LEMMA LeaveTables ==
    ASSUME NEW r, Tables(r), NEW c \in Conns, r.fd[c] \in Fds
    PROVE  LET f == r.fd[c]
               g == r.pollfds[r.index[c] + 1]
               u == Close(RemoveChannel(UpdateChannel(r, c, {}), c), f)
           IN  /\ Tables(u)
               /\ u.channelList = [r.channelList EXCEPT ![f] = None]
               /\ u.index[c] = -1 /\ \A d \in Channels : d # c => u.index[d] = r.index[d]
               /\ u.fd = r.fd
               /\ u.socket = [r.socket EXCEPT ![f] = None]
               /\ Watched(u) \subseteq Watched(r) \ {f}
               /\ r.index[c] >= 0 =>
                    /\ u.pollfds = r.pollfds
                    /\ Watched(u) = Watched(r) \ {f, g}
                    /\ \A h \in Watched(u) : u.interest[h] = r.interest[h]
<1> DEFINE f == r.fd[c]
           g == r.pollfds[r.index[c] + 1]
           v == UpdateChannel(r, c, {})
           w == RemoveChannel(v, c)
           u == Close(w, f)
<1>1. c \in Channels /\ f \in AllFds /\ {} \in SUBSET Events
  BY DEF Channels, AllFds
<1>2. /\ Tables(v) /\ v.channelList = [r.channelList EXCEPT ![f] = c]
      /\ v.fd = r.fd /\ v.socket = r.socket /\ Watched(v) \subseteq Watched(r) \cup {f}
      /\ v.index[c] >= 0 /\ \A d \in Channels : d # c => v.index[d] = r.index[d]
  BY <1>1, UpdateTables
<1>3. r.index[c] >= 0 => /\ v.pollfds = r.pollfds /\ v.index = r.index
                         /\ Watched(v) = Watched(r)
                         /\ \A h \in Watched(v) : v.interest[h] = r.interest[h]
  <2>1. SUFFICES ASSUME r.index[c] >= 0
                 PROVE  /\ v.pollfds = r.pollfds /\ v.index = r.index
                        /\ Watched(v) = Watched(r)
                        /\ \A h \in Watched(v) : v.interest[h] = r.interest[h]
    OBVIOUS
  <2>2. r.index[c] \in Int
    BY <1>1 DEF Tables
  <2>3. v = ModifyChannel(r, c, {})
    BY <2>1, <2>2 DEF UpdateChannel
  <2> HIDE DEF v
  <2>4. v.pollfds = r.pollfds /\ v.index = r.index
    BY <1>1, <2>3, ModifyTables
  <2>5. Watched(v) = Watched(r)
    BY <1>1, <2>3, ModifyTables
  <2>6. v.interest = r.interest
    BY <2>3 DEF ModifyChannel, Tables
  <2> QED
    BY <2>4, <2>5, <2>6
<1> HIDE DEF v
<1>4. /\ Tables(w) /\ w.channelList = [v.channelList EXCEPT ![f] = None]
      /\ w.index = [v.index EXCEPT ![c] = -1]
      /\ w.pollfds = v.pollfds /\ w.fd = v.fd /\ w.socket = v.socket
      /\ Watched(w) = Watched(v) \ {v.pollfds[v.index[c] + 1]}
      /\ \A h \in Watched(w) : w.interest[h] = v.interest[h]
  BY <1>1, <1>2, RemoveTables
<1> HIDE DEF w
<1>5. /\ Tables(u) /\ u.socket = [w.socket EXCEPT ![f] = None]
      /\ u.pollfds = w.pollfds /\ u.index = w.index
      /\ u.channelList = w.channelList /\ u.fd = w.fd /\ Watched(u) = Watched(w) \ {f}
      /\ \A h \in Watched(u) : u.interest[h] = w.interest[h]
  <2>1. Tables(w)
    BY <1>4
  <2> QED
    BY <2>1, CloseTables
<1> HIDE DEF u
<1>6. u.channelList = [r.channelList EXCEPT ![f] = None]
  <2>1. r.channelList \in [AllFds -> Channels \cup {None}]
    BY DEF Tables
  <2> QED
    BY <1>2, <1>4, <1>5, <2>1
<1>7. u.index[c] = -1 /\ \A d \in Channels : d # c => u.index[d] = r.index[d]
  <2>1. v.index \in [Channels -> Int]
    BY <1>2 DEF Tables
  <2> QED
    BY <1>1, <1>2, <1>4, <1>5, <2>1
<1>8. Watched(u) \subseteq Watched(r) \ {f}
  BY <1>2, <1>4, <1>5
<1>9. r.index[c] >= 0 =>
         /\ u.pollfds = r.pollfds
         /\ Watched(u) = Watched(r) \ {f, g}
         /\ \A h \in Watched(u) : u.interest[h] = r.interest[h]
  BY <1>3, <1>4, <1>5
<1> QED
  BY <1>2, <1>4, <1>5, <1>6, <1>7, <1>8, <1>9 DEF u, v, w

\* epoll_wait writes over the entries from the first one on, and no others.
LEMMA OverwriteTables ==
    ASSUME NEW r, Tables(r), NEW S \in SUBSET AllFds, IsFiniteSet(S), NEW order \in SetToSeqs(S)
    PROVE  LET p == Overwrite(r.pollfds, order)
               u == [r EXCEPT !.pollfds = p]
           IN  /\ Tables(u)
               /\ Len(p) >= Len(r.pollfds)
               /\ \A i \in 1 .. Len(r.pollfds) : i > Cardinality(S) => p[i] = r.pollfds[i]
               /\ u.pollfds = p /\ u.index = r.index /\ u.channelList = r.channelList
               /\ u.fd = r.fd /\ u.interest = r.interest /\ u.socket = r.socket
<1> DEFINE n == Cardinality(S)
           s == r.pollfds
           rest == SubSeq(s, Len(order) + 1, Len(s))
           p == Overwrite(s, order)
           u == [r EXCEPT !.pollfds = p]
<1>1. /\ n \in Nat /\ order \in [1 .. n -> S] /\ order \in Seq(AllFds) /\ Len(order) = n
      /\ s \in Seq(AllFds) /\ Len(s) \in Nat
  <2>1. n \in Nat /\ order \in [1 .. n -> S]
    BY FS_CardinalityType DEF SetToSeqs
  <2>2. order \in [1 .. n -> AllFds]
    BY <2>1
  <2>3. order \in Seq(AllFds) /\ Len(order) = n
    BY <2>1, <2>2
  <2> QED
    BY <2>1, <2>3, LenProperties DEF Tables
<1> HIDE DEF n, s
<1>2. /\ rest \in Seq(AllFds)
      /\ Len(rest) = IF n <= Len(s) THEN Len(s) - n ELSE 0
      /\ \A i \in 1 .. Len(rest) : rest[i] = s[n + i]
  BY <1>1
<1>3. p = order \o rest
  BY DEF Overwrite
<1> HIDE DEF rest, p
<1>4. /\ p \in Seq(AllFds) /\ Len(p) = n + Len(rest)
      /\ \A i \in 1 .. Len(p) : p[i] = IF i <= n THEN order[i] ELSE rest[i - n]
  BY <1>1, <1>2, <1>3, ConcatProperties
<1>5. Len(p) \in Nat /\ Len(p) >= Len(s)
  BY <1>1, <1>2, <1>4
<1>6. ASSUME NEW i \in 1 .. Len(s), i > n PROVE p[i] = s[i]
  <2>1. /\ i \in 1 .. Len(p) /\ ~(i <= n) /\ i - n \in 1 .. Len(rest) /\ n + (i - n) = i
    BY <1>1, <1>2, <1>4, <1>5, <1>6
  <2>2. p[i] = rest[i - n]
    BY <1>4, <2>1
  <2>3. rest[i - n] = s[n + (i - n)]
    BY <1>2, <2>1
  <2> QED
    BY <2>1, <2>2, <2>3
<1>7. u = [pollfds |-> p, channelList |-> r.channelList, index |-> r.index,
           fd |-> r.fd, interest |-> r.interest, socket |-> r.socket]
  <2>1. r = [pollfds |-> r.pollfds, channelList |-> r.channelList, index |-> r.index,
             fd |-> r.fd, interest |-> r.interest, socket |-> r.socket]
    BY DEF Tables
  <2> QED
    BY <2>1
<1> HIDE DEF u
<1>8. Watched(u) = Watched(r)
  BY <1>7 DEF Watched
<1>9. \A c \in Channels : r.index[c] \in -1 .. Len(p) - 1
  BY <1>1, <1>5 DEF Tables, s
<1>10. Cardinality(Watched(r)) <= Len(p)
  <2>1. Cardinality(Watched(r)) \in Nat /\ Cardinality(Watched(r)) <= Len(s)
    BY FS_CardinalityType DEF Tables, s
  <2> QED
    BY <1>1, <1>5, <2>1
<1>11. Tables(u)
  BY <1>4, <1>7, <1>8, <1>9, <1>10 DEF Tables
<1> QED
  BY <1>5, <1>6, <1>7, <1>11 DEF u, p, s, n
-----------------------------------------------------------------------------
(* Types, and that poll serves every descriptor: an invariant of all loops. *)

\* The types of everything but the tables.
Types ==
    /\ pc \in {"poll", "dispatch", "callback", "tasks"}
    /\ events_ \in [Channels -> SUBSET Events]
    /\ state \in [Conns -> {"none", "open", "closed"}]
    /\ input \subseteq AllFds /\ room \subseteq Fds /\ hungUp \subseteq Conns
    /\ active \subseteq Channels \X Events
    /\ posted \subseteq {"update", "shutdown"} \X Conns
    /\ most \in 0 .. Cardinality(AllFds) /\ listening \in BOOLEAN

\* Whatever a handler or a posted callable is called for has had a number.
Numbered ==
    /\ \A c \in Conns : state[c] # "none" => reg.fd[c] \in Fds
    /\ \A e \in active : e[1] \in Conns => state[e[1]] # "none"
    /\ \A p \in posted : state[p[2]] # "none"
    /\ \A f \in AllFds : reg.channelList[f] \in Conns => state[reg.channelList[f]] # "none"

\* The descriptors that are watched have channels: removeChannel may unwatch
\* another descriptor than the one whose channel it forgets, but close follows.
Named == \A f \in Watched(reg) : reg.channelList[f] # None

\* The invariant of all loops.
IInv == Tables(reg) /\ Types /\ Numbered /\ Named

\* A loop keeps its kind.
LEMMA SameLoop ==
    ASSUME listening' = listening
    PROVE  /\ AllFds' = AllFds /\ Channels' = Channels /\ Fixed' = Fixed
           /\ FixedFds' = FixedFds /\ Registry' = Registry /\ Undisturbed' = Undisturbed
BY DEF AllFds, Channels, Fixed, FixedFds, Registry, Undisturbed

\* Tables that fit the loop fit it after a step.
LEMMA TablesAfter ==
    ASSUME listening' = listening, Tables(reg')
    PROVE  Tables(reg)'
BY SameLoop DEF Tables, Watched

\* The loop starts with its own channels, and no connection.
LEMMA InitIInv == Init => IInv
<1> SUFFICES ASSUME Init PROVE IInv
  OBVIOUS
<1> USE FixedChannels
<1> DEFINE l == [f \in AllFds |-> CASE f = WakeFd -> Wake
                                    [] f = TimerFd -> Timer
                                    [] f = ListenFd -> Listen
                                    [] OTHER -> None]
           x == [c \in Channels |-> CASE c = Timer -> 0
                                      [] c = Wake -> 1
                                      [] c = Listen -> 2
                                      [] OTHER -> -1]
           n == [c \in Channels |-> CASE c = Wake -> WakeFd
                                      [] c = Timer -> TimerFd
                                      [] c = Listen -> ListenFd
                                      [] OTHER -> 0]
           i == [f \in FixedFds |-> {"in"}]
           k == [f \in Fds |-> None]
<1>1. reg = [pollfds |-> Registry, channelList |-> l, index |-> x, fd |-> n,
             interest |-> i, socket |-> k]
  BY DEF Init
<1>2. Registry \in Seq(AllFds) /\ Len(Registry) \in {2, 3} /\ (listening <=> Len(Registry) = 3)
      /\ listening \in BOOLEAN
  BY PollerAssumption DEF AllFds, Init
<1>3. /\ l \in [AllFds -> Channels \cup {None}]
      /\ \A f \in FixedFds : l[f] \in Fixed /\ l[f] # None
      /\ \A f \in AllFds : l[f] \notin Conns
  <2>1. \A f \in AllFds : l[f] = IF f = WakeFd THEN Wake ELSE IF f = TimerFd THEN Timer
                               ELSE IF f = ListenFd THEN Listen ELSE None
    BY DEF WakeFd, TimerFd, ListenFd
  <2>2. \A f \in AllFds : f = ListenFd => listening
    BY PollerAssumption DEF AllFds, WakeFd, TimerFd, ListenFd
  <2>3. \A f \in FixedFds : f \in AllFds /\ l[f] \in Fixed
    BY <2>1, <2>2 DEF AllFds, Fixed
  <2>4. \A f \in AllFds : l[f] \in Fixed \cup {None}
    BY <2>1, <2>2 DEF Fixed
  <2>5. l \in [AllFds -> Fixed \cup {None}]
    BY <2>4
  <2> HIDE DEF l
  <2>6. Fixed \subseteq Channels /\ None \notin Fixed /\ None \notin Conns
    BY PollerAssumption DEF Channels
  <2> QED
    BY <2>3, <2>4, <2>5, <2>6
<1>4. x \in [Channels -> Int] /\ \A c \in Channels : x[c] \in -1 .. Len(Registry) - 1
  <2>1. \A c \in Channels : x[c] \in -1 .. 2 /\ (x[c] = 2 => listening)
    BY PollerAssumption DEF Channels, Fixed
  <2>2. x \in [Channels -> -1 .. 2]
    BY <2>1
  <2> HIDE DEF x
  <2> QED
    BY <1>2, <2>1, <2>2
<1>5. n \in [Channels -> AllFds \cup {0}]
  BY PollerAssumption DEF AllFds, Channels, Fixed, WakeFd, TimerFd, ListenFd
<1>6. k \in [Fds -> Conns \cup {None}]
  OBVIOUS
<1>7. DOMAIN i = FixedFds /\ \A f \in FixedFds : i[f] = {"in"}
  OBVIOUS
<1>8. IsFiniteSet(FixedFds) /\ Cardinality(FixedFds) <= Len(Registry)
  BY FewFixed
<1> HIDE DEF l, x, n, i, k
<1>9. /\ reg.pollfds = Registry /\ reg.channelList = l /\ reg.index = x /\ reg.fd = n
      /\ reg.interest = i /\ reg.socket = k /\ Watched(reg) = FixedFds
  BY <1>1, <1>7 DEF Watched
<1>10. Tables(reg)
  <2>1. reg = [pollfds |-> reg.pollfds, channelList |-> reg.channelList,
               index |-> reg.index, fd |-> reg.fd,
               interest |-> reg.interest, socket |-> reg.socket]
    BY <1>1, <1>9
  <2>2. FixedFds \subseteq AllFds /\ \A f \in FixedFds : reg.interest[f] \subseteq Events
    BY <1>7, <1>9 DEF AllFds, Events
  <2> QED
    BY <1>2, <1>3, <1>4, <1>5, <1>6, <1>8, <1>9, <2>1, <2>2 DEF Tables
<1>11. Types
  <2>1. Cardinality(AllFds) \in Nat
    BY <1>8, PollerAssumption, FS_Union, FS_CardinalityType DEF AllFds
  <2> QED
    BY <1>2, <2>1 DEF Init, Types, Events
<1>12. Numbered /\ Named
  <2>1. /\ \A f \in AllFds : reg.channelList[f] \notin Conns
        /\ \A f \in Watched(reg) : reg.channelList[f] # None
    BY <1>3, <1>9
  <2>2. active = {} /\ posted = {} /\ \A c \in Conns : state[c] = "none"
    BY DEF Init
  <2> QED
    BY <2>1, <2>2 DEF Numbered, Named
<1> QED
  BY <1>10, <1>11, <1>12 DEF IInv

\* Max of two numbers is one of them, and as large as both.
LEMMA MaxOfTwo ==
    ASSUME NEW a \in Nat, NEW b \in Nat
    PROVE  /\ Max({a, b}) \in {a, b} /\ Max({a, b}) >= a /\ Max({a, b}) >= b
<1>1. \E x \in {a, b} : \A y \in {a, b} : x >= y
  <2>1. CASE a >= b
    BY <2>1
  <2>2. CASE ~(a >= b)
    BY <2>2
  <2> QED
    BY <2>1, <2>2
<1> QED
  BY <1>1 DEF Max

\* The network, the other threads and the handlers that leave the tables alone.
LEMMA QuietIInv ==
    ASSUME IInv, reg' = reg, listening' = listening, Types',
           \A c \in Conns : state[c] # "none" <=> state'[c] # "none",
           \A e \in active' : e \in active \/ (e[1] \in Conns => state[e[1]] # "none"),
           \A p \in posted' : p \in posted \/ state'[p[2]] # "none"
    PROVE  IInv'
<1>1. Tables(reg)'
  BY TablesAfter DEF IInv
<1>2. Numbered'
  <2>1. \A c \in Conns : state'[c] # "none" => reg'.fd[c] \in Fds
    BY DEF IInv, Numbered
  <2>2. \A e \in active' : e[1] \in Conns => state'[e[1]] # "none"
    BY DEF IInv, Numbered
  <2>3. \A p \in posted' : state'[p[2]] # "none"
    <3>1. posted \subseteq {"update", "shutdown"} \X Conns
      BY DEF IInv, Types
    <3> QED
      BY <3>1 DEF IInv, Numbered
  <2>4. \A f \in AllFds : reg'.channelList[f] \in Conns => state'[reg'.channelList[f]] # "none"
    BY DEF IInv, Numbered
  <2> QED
    BY <2>1, <2>2, <2>3, <2>4, SameLoop DEF Numbered
<1>3. Named'
  BY DEF IInv, Named, Watched
<1> QED
  BY <1>1, <1>2, <1>3 DEF IInv

\* Poll finds a channel for every descriptor that is ready.
LEMMA PollIInv == IInv /\ Poll => IInv'
<1> SUFFICES ASSUME IInv, Poll PROVE IInv'
  OBVIOUS
<1>1. /\ Ready \subseteq Watched(reg) /\ Watched(reg) \subseteq AllFds
      /\ IsFiniteSet(Watched(reg)) /\ IsFiniteSet(AllFds)
  BY FewFixed, FS_Union, PollerAssumption DEF Ready, IInv, Tables, AllFds
<1>2. /\ IsFiniteSet(Ready) /\ Cardinality(Ready) \in Nat
      /\ Cardinality(Ready) <= Cardinality(AllFds) /\ Cardinality(AllFds) \in Nat
  BY <1>1, FS_Subset, FS_CardinalityType
<1>3. PICK order \in SetToSeqs(Ready) :
         reg' = [reg EXCEPT !.pollfds = Overwrite(reg.pollfds, order)]
  BY DEF Poll
<1>4. /\ Tables(reg') /\ reg'.channelList = reg.channelList /\ reg'.interest = reg.interest
      /\ reg'.fd = reg.fd
  BY <1>1, <1>2, <1>3, OverwriteTables DEF IInv
<1>5. /\ listening' = listening /\ state' = state /\ events_' = events_ /\ posted' = posted
      /\ input' = input /\ room' = room /\ hungUp' = hungUp
  BY DEF Poll, kernelVars
<1>6. pc' = "dispatch"
  BY <1>1 DEF Poll, IInv, Named
<1>7. most' \in 0 .. Cardinality(AllFds)
  <2>1. most \in Nat /\ most <= Cardinality(AllFds)
    BY <1>2 DEF IInv, Types
  <2>2. Max({most, Cardinality(Ready)}) \in {most, Cardinality(Ready)}
    BY <1>2, <2>1, MaxOfTwo
  <2>3. most' = Max({most, Cardinality(Ready)})
    BY DEF Poll
  <2> QED
    BY <1>2, <2>1, <2>2, <2>3
<1>8. \A e \in active' : e \in Channels \X Events /\ e[1] \in {reg.channelList[f] : f \in Ready}
  BY DEF Poll
<1>9. Types'
  BY <1>5, <1>6, <1>7, <1>8, SameLoop DEF IInv, Types
<1>10. Numbered'
  <2>1. \A e \in active' : e[1] \in Conns => state[e[1]] # "none"
    BY <1>1, <1>8 DEF IInv, Numbered
  <2> QED
    BY <1>4, <1>5, <2>1, SameLoop DEF IInv, Numbered
<1>11. Named'
  BY <1>4 DEF IInv, Named, Watched
<1> QED
  BY <1>4, <1>5, <1>9, <1>10, <1>11, TablesAfter DEF IInv

\* A handler, or a posted callable, that asks for other events.
LEMMA UpdateIInv ==
    ASSUME IInv, NEW c \in Conns, state[c] # "none", NEW ev \in SUBSET Events,
           reg' = UpdateChannel(reg, c, ev), listening' = listening, Types',
           state' = state, active' \subseteq active, posted' \subseteq posted
    PROVE  IInv'
<1>1. c \in Channels /\ reg.fd[c] \in AllFds /\ Tables(reg)
  BY DEF IInv, Numbered, AllFds, Channels
<1>2. /\ Tables(reg') /\ reg'.channelList = [reg.channelList EXCEPT ![reg.fd[c]] = c]
      /\ reg'.fd = reg.fd /\ Watched(reg') \subseteq Watched(reg) \cup {reg.fd[c]}
  BY <1>1, UpdateTables
<1>3. reg.channelList \in [AllFds -> Channels \cup {None}] /\ Watched(reg) \subseteq AllFds
  BY <1>1 DEF Tables
<1>4. Numbered'
  BY <1>1, <1>2, <1>3, SameLoop DEF IInv, Numbered
<1>5. Named'
  <2>1. \A f \in Watched(reg') : reg'.channelList[f] # None
    BY <1>1, <1>2, <1>3, FixedChannels DEF IInv, Named
  <2> QED
    BY <2>1 DEF Named, Watched
<1> QED
  BY <1>2, <1>4, <1>5, TablesAfter DEF IInv

\* A handler, or a posted callable, that closes a connection.
LEMMA CloseIInv ==
    ASSUME IInv, NEW c \in Conns, state[c] # "none", NEW d \in {c, None},
           Tables(reg'), reg'.fd = reg.fd,
           reg'.channelList = [reg.channelList EXCEPT ![reg.fd[c]] = d],
           Watched(reg') \subseteq Watched(reg) \ {reg.fd[c]},
           listening' = listening, Types',
           state' = [state EXCEPT ![c] = "closed"],
           active' \subseteq active, posted' \subseteq posted
    PROVE  IInv'
<1>1. c \in Channels /\ reg.fd[c] \in AllFds /\ Tables(reg) /\ None \notin Conns
  BY PollerAssumption DEF IInv, Numbered, AllFds, Channels
<1>2. /\ reg.channelList \in [AllFds -> Channels \cup {None}] /\ Watched(reg) \subseteq AllFds
      /\ state \in [Conns -> {"none", "open", "closed"}]
      /\ active \subseteq Channels \X Events /\ posted \subseteq {"update", "shutdown"} \X Conns
  BY <1>1 DEF Tables, IInv, Types
<1>3. \A e \in Conns : state[e] # "none" => state'[e] # "none"
  BY <1>2
<1>4. Numbered'
  <2>1. \A e \in Conns : state'[e] # "none" => reg'.fd[e] \in Fds
    BY <1>2 DEF IInv, Numbered
  <2>2. \A e \in active' : e[1] \in Conns => state'[e[1]] # "none"
    BY <1>3 DEF IInv, Numbered
  <2>3. \A p \in posted' : state'[p[2]] # "none"
    BY <1>2, <1>3 DEF IInv, Numbered
  <2>4. \A f \in AllFds : reg'.channelList[f] \in Conns => state'[reg'.channelList[f]] # "none"
    BY <1>1, <1>2, <1>3 DEF IInv, Numbered
  <2> QED
    BY <2>1, <2>2, <2>3, <2>4, SameLoop DEF Numbered
<1>5. Named'
  <2>1. \A f \in Watched(reg') : reg'.channelList[f] # None
    BY <1>1, <1>2 DEF IInv, Named
  <2> QED
    BY <2>1 DEF Named, Watched
<1> QED
  BY <1>4, <1>5, TablesAfter DEF IInv

\* A connection is accepted, here or by another loop.
LEMMA AcceptIInv ==
    ASSUME IInv, NEW c \in Conns, NEW f \in Fds, Accepted(c, f),
           \/ reg' = Open(reg, c, f) \/ reg' = UpdateChannel(Open(reg, c, f), c, {"in"}),
           listening' = listening, Types',
           active' \subseteq active, posted' \subseteq posted \cup {<<"update", c>>}
    PROVE  IInv'
<1> DEFINE r == Open(reg, c, f)
<1>1. /\ c \in Channels /\ f \in AllFds /\ Tables(reg) /\ None \notin Conns
      /\ {"in"} \in SUBSET Events
  BY PollerAssumption DEF IInv, AllFds, Channels, Events
<1>2. /\ reg.channelList \in [AllFds -> Channels \cup {None}] /\ Watched(reg) \subseteq AllFds
      /\ reg.fd \in [Channels -> AllFds \cup {0}]
      /\ state \in [Conns -> {"none", "open", "closed"}]
      /\ active \subseteq Channels \X Events /\ posted \subseteq {"update", "shutdown"} \X Conns
  BY <1>1 DEF Tables, IInv, Types
<1>3. /\ Tables(r) /\ r.fd = [reg.fd EXCEPT ![c] = f]
      /\ r.channelList = reg.channelList /\ Watched(r) = Watched(reg)
  <2>1. /\ Tables(r) /\ r.fd = [reg.fd EXCEPT ![c] = f]
        /\ r.channelList = reg.channelList /\ r.interest = reg.interest
    <3>1. Tables(reg)
      BY <1>1
    <3>2. Tables(r)
      BY <3>1, OpenTables
    <3>3. r.fd = [reg.fd EXCEPT ![c] = f]
      BY <3>1 DEF Open, Tables
    <3>4. r.channelList = reg.channelList
      BY <3>1, OpenTables
    <3>5. r.interest = reg.interest
      BY <3>1, OpenTables
    <3> QED
      BY <3>2, <3>3, <3>4, <3>5
  <2> HIDE DEF r
  <2> QED
    BY <2>1 DEF Watched
<1>4. r.fd[c] = f
  BY <1>1, <1>2, <1>3
<1> HIDE DEF r
<1>5. /\ Tables(reg') /\ reg'.fd = r.fd
      /\ \/ reg'.channelList = reg.channelList /\ Watched(reg') = Watched(reg)
         \/ /\ reg'.channelList = [reg.channelList EXCEPT ![f] = c]
            /\ Watched(reg') \subseteq Watched(reg) \cup {f}
  <2>1. CASE reg' = r
    BY <1>3, <2>1
  <2>2. CASE reg' = UpdateChannel(r, c, {"in"})
    <3>1. r.fd[c] \in AllFds
      BY <1>1, <1>4
    <3> DEFINE u == UpdateChannel(r, c, {"in"})
    <3>2. /\ Tables(u) /\ u.channelList = [r.channelList EXCEPT ![r.fd[c]] = c]
          /\ u.fd = r.fd /\ Watched(u) \subseteq Watched(r) \cup {r.fd[c]}
      <4>1. c \in Channels /\ Tables(r) /\ {"in"} \in SUBSET Events
        BY <1>1, <1>3
      <4> QED
        BY <3>1, <4>1, UpdateTables
    <3> HIDE DEF u
    <3> QED
      BY <1>3, <1>4, <2>2, <3>2 DEF u
  <2> QED
    BY <2>1, <2>2 DEF r
<1>6. state' = [state EXCEPT ![c] = "open"]
  BY DEF Accepted
<1>7. Numbered'
  <2>1. \A e \in Conns : state'[e] # "none" => reg'.fd[e] \in Fds
    BY <1>2, <1>3, <1>5, <1>6 DEF IInv, Numbered, Channels
  <2>2. \A e \in active' : e[1] \in Conns => state'[e[1]] # "none"
    BY <1>2, <1>6 DEF IInv, Numbered
  <2>3. \A p \in posted' : state'[p[2]] # "none"
    BY <1>2, <1>6 DEF IInv, Numbered
  <2>4. \A g \in AllFds : reg'.channelList[g] \in Conns => state'[reg'.channelList[g]] # "none"
    BY <1>1, <1>2, <1>5, <1>6 DEF IInv, Numbered
  <2> QED
    BY <2>1, <2>2, <2>3, <2>4, SameLoop DEF Numbered
<1>8. Named'
  <2>1. \A g \in Watched(reg') : reg'.channelList[g] # None
    BY <1>1, <1>2, <1>5 DEF IInv, Named
  <2> QED
    BY <2>1 DEF Named, Watched
<1> QED
  BY <1>5, <1>7, <1>8, TablesAfter DEF IInv

\* Every step keeps the tables, and what poll needs.
LEMMA NextIInv == IInv /\ [Next]_vars => IInv'
<1> SUFFICES ASSUME IInv, [Next]_vars PROVE IInv'
  OBVIOUS
<1> USE DEF Dispatched
<1>1. /\ Types /\ Tables(reg)
      /\ \A c \in Conns : state[c] # "none" => reg.fd[c] \in Fds
      /\ \A e \in active : e[1] \in Conns => state[e[1]] # "none"
      /\ \A p \in posted : state[p[2]] # "none"
  BY DEF IInv, Numbered
<1>2. /\ reg.socket \in [Fds -> Conns \cup {None}] /\ WakeFd \in AllFds
  BY <1>1, FixedChannels DEF Tables, AllFds
<1>3. \A c \in Conns, ev \in Events : IsNext(<<c, ev>>) => state[c] # "none"
  BY <1>1 DEF IsNext
<1>4. ASSUME Poll PROVE IInv'
  BY <1>4, PollIInv
<1>5. ASSUME EndDispatch \/ EndTasks PROVE IInv'
  <2>1. Types'
    BY <1>1, <1>5, SameLoop DEF EndDispatch, EndTasks, kernelVars, Types
  <2> QED
    BY <1>5, <2>1, QuietIInv DEF EndDispatch, EndTasks, kernelVars
<1>6. ASSUME NEW c \in Fixed, HandleFixed(c) PROVE IInv'
  <2>1. Types'
    BY <1>1, <1>6, SameLoop DEF HandleFixed, Types
  <2> QED
    BY <1>6, <2>1, QuietIInv DEF HandleFixed
<1>7. ASSUME NEW c \in Conns, ReadData(c) \/ WritePart(c) PROVE IInv'
  <2>1. Types'
    BY <1>1, <1>7, SameLoop DEF ReadData, WritePart, Types
  <2> QED
    BY <1>7, <2>1, QuietIInv DEF ReadData, WritePart
<1>8. ASSUME NEW c \in Conns, PostShutdown(c) PROVE IInv'
  <2>1. Types'
    BY <1>1, <1>2, <1>8, SameLoop DEF PostShutdown, Post, Types
  <2> QED
    BY <1>8, <2>1, QuietIInv DEF PostShutdown, Post
<1>9. ASSUME NEW f \in AllFds, Input(f) PROVE IInv'
  <2>1. Types'
    BY <1>1, <1>9, SameLoop DEF Input, Types
  <2> QED
    BY <1>9, <2>1, QuietIInv DEF Input
<1>10. ASSUME NEW f \in Fds, HangUp(f) \/ Room(f) PROVE IInv'
  <2>1. reg.socket[f] \in Conns /\ f \in AllFds
    BY <1>2, <1>10 DEF HangUp, Room, IsOpen, AllFds
  <2>2. Types'
    BY <1>1, <1>10, <2>1, SameLoop DEF HangUp, Room, Types
  <2> QED
    BY <1>10, <2>2, QuietIInv DEF HangUp, Room
<1>11. ASSUME NEW c \in Conns, WriteAll(c) PROVE IInv'
  <2> DEFINE ev == events_[c] \ {"out"}
  <2>1. state[c] # "none" /\ ev \in SUBSET Events /\ c \in Channels
    BY <1>1, <1>3, <1>11 DEF WriteAll, Types, Events, Channels
  <2>2. Types'
    BY <1>1, <1>11, <2>1, SameLoop DEF WriteAll, kernelVars, Types
  <2>3. /\ reg' = UpdateChannel(reg, c, ev) /\ listening' = listening /\ state' = state
        /\ active' \subseteq active /\ posted' = posted
    BY <1>11 DEF WriteAll, kernelVars
  <2> HIDE DEF ev
  <2> QED
    BY <2>1, <2>2, <2>3, UpdateIInv
<1>12. ASSUME NEW c \in Conns, SendPart(c) PROVE IInv'
  <2> DEFINE ev == events_[c] \cup {"out"}
  <2>1. state[c] # "none" /\ ev \in SUBSET Events /\ c \in Channels
    BY <1>1, <1>12 DEF SendPart, Types, Events, Channels
  <2>2. Types'
    BY <1>1, <1>12, <2>1, SameLoop DEF SendPart, Types
  <2>3. /\ reg' = UpdateChannel(reg, c, ev) /\ listening' = listening /\ state' = state
        /\ active' = active /\ posted' = posted
    BY <1>12 DEF SendPart
  <2> HIDE DEF ev
  <2> QED
    BY <2>1, <2>2, <2>3, UpdateIInv
<1>13. ASSUME NEW c \in Conns, RunUpdate(c) PROVE IInv'
  <2>1. state[c] # "none" /\ events_[c] \in SUBSET Events /\ c \in Channels
    BY <1>1, <1>13 DEF RunUpdate, Types, Channels
  <2>2. Types'
    BY <1>1, <1>13, SameLoop DEF RunUpdate, kernelVars, Types
  <2> QED
    BY <1>13, <2>1, <2>2, UpdateIInv DEF RunUpdate, kernelVars
<1>14. ASSUME NEW c \in Conns, ReadFails(c) PROVE IInv'
  <2>1. state[c] # "none" /\ reg.fd[c] \in Fds /\ c \in Channels
    BY <1>1, <1>3, <1>14 DEF ReadFails, Channels, Events
  <2>2. Types'
    BY <1>1, <1>14, <2>1, SameLoop DEF ReadFails, Types
  <2>3. /\ Tables(reg') /\ reg'.fd = reg.fd
        /\ reg'.channelList = [reg.channelList EXCEPT ![reg.fd[c]] = None]
        /\ Watched(reg') \subseteq Watched(reg) \ {reg.fd[c]}
    <3> DEFINE u == Close(RemoveChannel(UpdateChannel(reg, c, {}), c), reg.fd[c])
    <3>1. reg' = u
      BY <1>14 DEF ReadFails
    <3>2. /\ Tables(u) /\ u.fd = reg.fd
          /\ u.channelList = [reg.channelList EXCEPT ![reg.fd[c]] = None]
          /\ Watched(u) \subseteq Watched(reg) \ {reg.fd[c]}
      BY <1>1, <2>1, LeaveTables
    <3> HIDE DEF u
    <3> QED
      BY <3>1, <3>2
  <2>4. /\ listening' = listening /\ state' = [state EXCEPT ![c] = "closed"]
        /\ active' \subseteq active /\ posted' = posted
    BY <1>14 DEF ReadFails
  <2> QED
    BY <2>1, <2>2, <2>3, <2>4, CloseIInv
<1>15. ASSUME NEW c \in Conns, ShutdownInPlace(c) \/ RunShutdown(c) PROVE IInv'
  <2>1. state[c] # "none" /\ reg.fd[c] \in Fds /\ c \in Channels
    BY <1>1, <1>15 DEF ShutdownInPlace, RunShutdown, Channels
  <2>2. Types'
    BY <1>1, <1>15, <2>1, SameLoop DEF ShutdownInPlace, RunShutdown, ShutdownWriteInLoop, Types
  <2>3. /\ Tables(reg') /\ reg'.fd = reg.fd
        /\ reg'.channelList = [reg.channelList EXCEPT ![reg.fd[c]] = c]
        /\ Watched(reg') \subseteq Watched(reg) \ {reg.fd[c]}
    <3> DEFINE u == Close(UpdateChannel(reg, c, {}), reg.fd[c])
    <3>1. reg' = u
      BY <1>15 DEF ShutdownInPlace, RunShutdown, ShutdownWriteInLoop
    <3>2. /\ Tables(u) /\ u.fd = reg.fd
          /\ u.channelList = [reg.channelList EXCEPT ![reg.fd[c]] = c]
          /\ Watched(u) \subseteq Watched(reg) \ {reg.fd[c]}
      BY <1>1, <2>1, ShutTables
    <3> HIDE DEF u
    <3> QED
      BY <3>1, <3>2
  <2>4. /\ listening' = listening /\ state' = [state EXCEPT ![c] = "closed"]
        /\ active' \subseteq active /\ posted' \subseteq posted
    BY <1>15 DEF ShutdownInPlace, RunShutdown, ShutdownWriteInLoop
  <2> QED
    BY <2>1, <2>2, <2>3, <2>4, CloseIInv
<1>16. ASSUME NEW c \in Conns, NEW f \in Fds, AcceptHere(c, f) PROVE IInv'
  <2>1. Types'
    BY <1>1, <1>16, SameLoop DEF AcceptHere, Accepted, Types, Events
  <2>2. /\ Accepted(c, f) /\ listening' = listening
        /\ \/ reg' = Open(reg, c, f) \/ reg' = UpdateChannel(Open(reg, c, f), c, {"in"})
        /\ active' \subseteq active /\ posted' \subseteq posted \cup {<<"update", c>>}
    BY <1>16 DEF AcceptHere
  <2> QED
    BY <2>1, <2>2, AcceptIInv
<1>17. ASSUME NEW c \in Conns, NEW f \in Fds, AcceptElsewhere(c, f) PROVE IInv'
  <2>1. Types'
    <3>1. posted' \subseteq {"update", "shutdown"} \X Conns
      BY <1>1, <1>17 DEF AcceptElsewhere, Post, Types
    <3>2. /\ events_' \in [Channels -> SUBSET Events]
          /\ state' \in [Conns -> {"none", "open", "closed"}]
      BY <1>1, <1>17 DEF AcceptElsewhere, Accepted, Types, Events
    <3>3. /\ pc' = pc /\ input' \subseteq AllFds /\ room' = room /\ hungUp' = hungUp
          /\ active' = active /\ most' = most /\ listening' = listening
      BY <1>1, <1>2, <1>17 DEF AcceptElsewhere, Post, Types
    <3> QED
      BY <1>1, <3>1, <3>2, <3>3, SameLoop DEF Types
  <2>2. /\ Accepted(c, f) /\ reg' = Open(reg, c, f)
        /\ listening' = listening /\ active' = active /\ posted' = posted \cup {<<"update", c>>}
    BY <1>17 DEF AcceptElsewhere, Post
  <2> QED
    BY <2>1, <2>2, AcceptIInv
<1>18. ASSUME UNCHANGED vars PROVE IInv'
  <2>1. Types'
    BY <1>1, <1>18, SameLoop DEF vars, kernelVars, Types
  <2> QED
    BY <1>18, <2>1, QuietIInv DEF vars, kernelVars
<1> QED
  BY <1>4, <1>5, <1>6, <1>7, <1>8, <1>9, <1>10, <1>11, <1>12, <1>13, <1>14, <1>15,
     <1>16, <1>17, <1>18 DEF Next, LoopStep

\* The types follow,
THEOREM TypeCorrect == Spec => []TypeOK
<1>1. IInv => TypeOK
  BY DEF IInv, Tables, Types, TypeOK
<1> QED
  BY <1>1, InitIInv, NextIInv, PTL DEF Spec

\* and so does, for both kinds of loops and whatever is closed, reused and
\* overwritten: poll never takes a null channel out of channelList, and pollfds has
\* room for every descriptor that is watched.
THEOREM PollServes == Spec => []PollServesAll
<1>1. IInv => PollServesAll
  BY DEF IInv, Tables, Types, PollServesAll
<1> QED
  BY <1>1, InitIInv, NextIInv, PTL DEF Spec
-----------------------------------------------------------------------------
(* What belongs together while the loop is undisturbed.                    *)

\* Descriptors, channels and sockets.
Owned ==
    /\ \A c \in Conns : state[c] = "open" <=> reg.index[c] >= 0
    /\ \A c \in Conns : state[c] = "open" => /\ reg.channelList[reg.fd[c]] = c
                                             /\ reg.socket[reg.fd[c]] = c
    /\ \A f \in Fds : reg.socket[f] # None => /\ state[reg.socket[f]] = "open"
                                              /\ reg.fd[reg.socket[f]] = f
    /\ \A f \in Fds : f \in Watched(reg) => reg.socket[f] # None

\* The channels of the loop itself.
Own ==
    /\ \A c \in Fixed : /\ reg.index[c] >= 0 /\ reg.fd[c] \in FixedFds
                        /\ reg.channelList[reg.fd[c]] = c
    /\ \A f \in FixedFds : reg.channelList[f] \in Fixed
    /\ listening => reg.fd[Listen] = ListenFd

\* The handlers still to be called: a connection that its read callback has closed
\* may have a write callback to come, and until then nothing is accepted, so that
\* its number is free.
Handled ==
    /\ posted = {}
    /\ \A c \in Conns : <<c, "in">> \in active => state[c] = "open"
    /\ \A c \in Conns : <<c, "out">> \in active /\ state[c] # "open" =>
                           reg.socket[reg.fd[c]] = None /\ <<Listen, "in">> \notin active

\* The invariant of undisturbed loops.
OInv == Undisturbed => Owned /\ Own /\ Handled

\* At the start there is nothing but the loop's own channels.
LEMMA InitOInv == Init => OInv
<1> SUFFICES ASSUME Init PROVE Owned /\ Own /\ Handled
  BY DEF OInv
<1>1. /\ \A c \in Conns : reg.index[c] = -1 /\ state[c] = "none"
      /\ \A f \in Fds : reg.socket[f] = None
      /\ Watched(reg) = FixedFds
  BY FixedChannels, PollerAssumption DEF Init, Channels, Fixed, Watched
<1>2. Owned
  <2>1. \A f \in Fds : f \notin Watched(reg)
    BY <1>1, FixedChannels
  <2>2. \A c \in Conns : state[c] # "open" /\ ~(reg.index[c] >= 0)
    BY <1>1
  <2> QED
    BY <1>1, <2>1, <2>2 DEF Owned
<1>3. Handled
  BY DEF Init, Handled
<1>4. /\ reg.index[Wake] = 1 /\ reg.index[Timer] = 0
      /\ (listening => reg.index[Listen] = 2 /\ reg.fd[Listen] = ListenFd)
      /\ reg.fd[Wake] = WakeFd /\ reg.fd[Timer] = TimerFd
  BY FixedChannels DEF Init, Channels, Fixed
<1>5. /\ WakeFd # TimerFd /\ WakeFd # ListenFd /\ TimerFd # ListenFd
      /\ WakeFd \in FixedFds /\ TimerFd \in FixedFds /\ (listening => ListenFd \in FixedFds)
  BY FixedChannels DEF WakeFd, TimerFd, ListenFd
<1>6. /\ reg.channelList[WakeFd] = Wake /\ reg.channelList[TimerFd] = Timer
      /\ (listening => reg.channelList[ListenFd] = Listen)
  BY <1>5 DEF Init, AllFds
<1>7. Own
  BY <1>4, <1>5, <1>6, FixedChannels DEF Own, Fixed
<1> QED
  BY <1>2, <1>3, <1>7

\* Steps that leave tables and states alone.
LEMMA QuietOInv ==
    ASSUME OInv, reg' = reg, state' = state, listening' = listening,
           active' \subseteq active, posted' = posted
    PROVE  OInv'
<1> SUFFICES ASSUME Undisturbed PROVE Owned' /\ Own' /\ Handled'
  BY SameLoop DEF OInv
<1>1. Owned'
  BY DEF OInv, Owned, Watched
<1>2. Own'
  BY SameLoop DEF OInv, Own
<1>3. Handled'
  BY DEF OInv, Handled
<1> QED
  BY <1>1, <1>2, <1>3

\* A channel that poll finds is that of an open connection, or the loop's.
LEMMA PollOInv == IInv /\ OInv /\ Poll => OInv'
<1> SUFFICES ASSUME IInv, OInv, Poll, Undisturbed PROVE Owned' /\ Own' /\ Handled'
  BY SameLoop DEF OInv, Poll
<1>1. /\ listening' = listening /\ state' = state /\ posted' = posted
      /\ \A e \in active' : e[1] \in {reg.channelList[f] : f \in Ready}
      /\ Ready \subseteq Watched(reg) /\ Watched(reg) \subseteq AllFds
  BY DEF Poll, Ready, IInv, Tables
<1>2. /\ reg'.index = reg.index /\ reg'.channelList = reg.channelList /\ reg'.fd = reg.fd
      /\ reg'.socket = reg.socket /\ reg'.interest = reg.interest
  <2>1. PICK s : reg' = [reg EXCEPT !.pollfds = s]
    BY DEF Poll
  <2> QED
    BY <2>1 DEF IInv, Tables
<1>3. \A f \in Ready : reg.channelList[f] \in Conns => state[reg.channelList[f]] = "open"
  <2>1. ASSUME NEW f \in Ready, reg.channelList[f] \in Conns
        PROVE  state[reg.channelList[f]] = "open"
    <3>1. f \notin FixedFds
      BY <2>1, FixedChannels DEF OInv, Own
    <3>2. f \in Fds /\ f \in Watched(reg)
      BY <1>1, <3>1 DEF AllFds
    <3>3. /\ reg.socket[f] # None /\ reg.socket[f] \in Conns
      BY <3>2 DEF OInv, Owned, IInv, Tables
    <3>4. state[reg.socket[f]] = "open" /\ reg.fd[reg.socket[f]] = f
      BY <3>2, <3>3 DEF OInv, Owned
    <3>5. reg.channelList[f] = reg.socket[f]
      BY <3>3, <3>4 DEF OInv, Owned
    <3> QED
      BY <3>4, <3>5
  <2> QED
    BY <2>1
<1>4. Owned'
  BY <1>1, <1>2 DEF OInv, Owned, Watched
<1>5. Own'
  BY <1>1, <1>2, SameLoop DEF OInv, Own
<1>6. Handled'
  <2>1. \A c \in Conns : \A ev : <<c, ev>> \in active' => state[c] = "open"
    BY <1>1, <1>3
  <2> QED
    BY <1>1, <2>1 DEF OInv, Handled
<1> QED
  BY <1>4, <1>5, <1>6

\* An open connection asks for other events.
LEMMA ModifyOInv ==
    ASSUME IInv, OInv, NEW c \in Conns, state[c] = "open", NEW ev \in SUBSET Events,
           reg' = UpdateChannel(reg, c, ev), listening' = listening,
           state' = state, active' \subseteq active, posted' = posted
    PROVE  OInv'
<1> SUFFICES ASSUME Undisturbed PROVE Owned' /\ Own' /\ Handled'
  BY SameLoop DEF OInv
<1>1. c \in Channels /\ reg.fd[c] \in AllFds /\ Tables(reg) /\ reg.index[c] >= 0
      /\ reg.index[c] \in Int /\ reg.channelList[reg.fd[c]] = c
      /\ reg.channelList \in [AllFds -> Channels \cup {None}]
  BY DEF IInv, Tables, Numbered, AllFds, Channels, OInv, Owned
<1>2. reg' = ModifyChannel(reg, c, ev)
  BY <1>1 DEF UpdateChannel
<1>3. /\ reg'.channelList = [reg.channelList EXCEPT ![reg.fd[c]] = c]
      /\ reg'.index = reg.index /\ reg'.fd = reg.fd /\ reg'.socket = reg.socket
      /\ Watched(reg') = Watched(reg)
  BY <1>1, <1>2, ModifyTables
<1>4. reg'.channelList = reg.channelList
  BY <1>1, <1>3
<1>5. Owned'
  <2>1. Watched(reg)' = Watched(reg)
    BY <1>3 DEF Watched
  <2> QED
    BY <1>3, <1>4, <2>1 DEF OInv, Owned
<1>6. Own'
  BY <1>3, <1>4, SameLoop DEF OInv, Own
<1>7. Handled'
  BY <1>3 DEF OInv, Handled
<1> QED
  BY <1>5, <1>6, <1>7

\* A read that fails closes a connection, and its number is free.
LEMMA LeaveOInv == ASSUME IInv, OInv, NEW c \in Conns, ReadFails(c) PROVE OInv'
<1> SUFFICES ASSUME Undisturbed PROVE Owned' /\ Own' /\ Handled'
  BY SameLoop DEF OInv, ReadFails
<1> DEFINE f == reg.fd[c]
           u == Close(RemoveChannel(UpdateChannel(reg, c, {}), c), f)
<1>1. /\ IsNext(<<c, "in">>) /\ <<c, "in">> \in active /\ active' = active \ {<<c, "in">>}
      /\ reg' = u /\ state' = [state EXCEPT ![c] = "closed"]
      /\ listening' = listening /\ posted' = posted
  BY DEF ReadFails, Dispatched, IsNext
<1> HIDE DEF u
<1>2. /\ state[c] = "open" /\ listening
      /\ c \in Channels /\ f \in Fds /\ f \in AllFds /\ f \notin FixedFds
      /\ Tables(reg) /\ reg.socket[f] = c /\ reg.index[c] >= 0
  BY <1>1, FixedChannels DEF OInv, Owned, Handled, IInv, Numbered, AllFds, Channels, Undisturbed
<1>3. /\ reg.channelList \in [AllFds -> Channels \cup {None}]
      /\ reg.socket \in [Fds -> Conns \cup {None}] /\ reg.index \in [Channels -> Int]
      /\ state \in [Conns -> {"none", "open", "closed"}]
      /\ Conns \subseteq Channels /\ None \notin Conns
  BY <1>2, FixedChannels, PollerAssumption DEF Tables, IInv, Types, Channels
<1>4. /\ reg'.channelList = [reg.channelList EXCEPT ![f] = None]
      /\ reg'.index[c] = -1 /\ \A d \in Channels : d # c => reg'.index[d] = reg.index[d]
      /\ reg'.fd = reg.fd
      /\ reg'.socket = [reg.socket EXCEPT ![f] = None]
      /\ Watched(reg') \subseteq Watched(reg) \ {f}
  <2>1. /\ u.channelList = [reg.channelList EXCEPT ![f] = None]
        /\ u.index[c] = -1 /\ \A d \in Channels : d # c => u.index[d] = reg.index[d]
        /\ u.fd = reg.fd
        /\ u.socket = [reg.socket EXCEPT ![f] = None]
        /\ Watched(u) \subseteq Watched(reg) \ {f}
    BY <1>2, LeaveTables DEF u
  <2> QED
    BY <1>1, <2>1
<1>5. \A d \in Conns : state'[d] = "open" => d # c /\ state[d] = "open" /\ reg.fd[d] # f
  BY <1>1, <1>2, <1>3 DEF OInv, Owned
<1>6. Owned'
  <2>1. \A d \in Conns : state'[d] = "open" <=> reg'.index[d] >= 0
    BY <1>1, <1>3, <1>4 DEF OInv, Owned
  <2>2. \A d \in Conns : state'[d] = "open" => /\ reg'.channelList[reg'.fd[d]] = d
                                               /\ reg'.socket[reg'.fd[d]] = d
    <3>1. \A d \in Conns : state[d] # "none" => reg.fd[d] \in Fds /\ reg.fd[d] \in AllFds
      BY DEF IInv, Numbered, AllFds
    <3> QED
      BY <1>3, <1>4, <1>5, <3>1 DEF OInv, Owned
  <2>3. \A g \in Fds : reg'.socket[g] # None => /\ state'[reg'.socket[g]] = "open"
                                                /\ reg'.fd[reg'.socket[g]] = g
    BY <1>1, <1>2, <1>3, <1>4 DEF OInv, Owned
  <2>4. \A g \in Fds : g \in Watched(reg') => reg'.socket[g] # None
    BY <1>3, <1>4 DEF OInv, Owned
  <2> QED
    BY <2>1, <2>2, <2>3, <2>4 DEF Owned, Watched
<1>7. Own'
  <2>1. \A d \in Fixed : /\ reg'.index[d] >= 0 /\ reg'.fd[d] \in FixedFds
                         /\ reg'.channelList[reg'.fd[d]] = d
    <3>1. \A d \in Fixed : d \in Channels /\ d # c
      BY FixedChannels DEF Channels
    <3> QED
      BY <1>2, <1>3, <1>4, <3>1 DEF OInv, Own, AllFds
  <2>2. \A g \in FixedFds : reg'.channelList[g] \in Fixed
    BY <1>2, <1>3, <1>4 DEF OInv, Own, AllFds
  <2>3. reg'.fd[Listen] = ListenFd
    BY <1>2, <1>4 DEF OInv, Own
  <2> QED
    BY <1>1, <2>1, <2>2, <2>3, SameLoop DEF Own
<1>8. Handled'
  <2>1. <<Listen, "in">> \notin active
    <3>1. reg.fd[Listen] = ListenFd
      BY <1>2 DEF OInv, Own
    <3>2. f \in Nat /\ f > 3
      <4>1. \A g \in Fds : g \in Nat /\ g > 3
        BY PollerAssumption
      <4> QED
        BY <1>2, <4>1
    <3>3. c # Listen
      BY PollerAssumption
    <3>4. ~(reg.fd[c] < reg.fd[Listen])
      BY <3>1, <3>2 DEF ListenFd
    <3> QED
      BY <1>1, <3>3, <3>4 DEF IsNext
  <2>2. \A d \in Conns : <<d, "in">> \in active' => state'[d] = "open"
    BY <1>1, <1>3 DEF OInv, Handled
  <2>3. ASSUME NEW d \in Conns, <<d, "out">> \in active', state'[d] # "open"
        PROVE  reg'.socket[reg'.fd[d]] = None
    <3>1. <<d, "out">> \in active
      BY <1>1, <2>3
    <3>2. reg.fd[d] \in Fds
      BY <3>1 DEF IInv, Numbered
    <3>3. CASE d = c
      BY <1>3, <1>4, <3>2, <3>3
    <3>4. CASE d # c
      <4>1. state[d] # "open"
        BY <1>1, <1>3, <2>3, <3>4
      <4>2. reg.socket[reg.fd[d]] = None
        BY <3>1, <4>1 DEF OInv, Handled
      <4> QED
        BY <1>3, <1>4, <3>2, <4>2
    <3> QED
      BY <3>3, <3>4
  <2>4. posted' = {} /\ <<Listen, "in">> \notin active'
    BY <1>1, <2>1 DEF OInv, Handled
  <2> QED
    BY <2>2, <2>3, <2>4 DEF Handled
<1> QED
  BY <1>6, <1>7, <1>8

\* A connection is accepted under a number that is free.
LEMMA AcceptOInv ==
    ASSUME IInv, OInv, NEW c \in Conns, NEW f \in Fds, AcceptHere(c, f) PROVE OInv'
<1> SUFFICES ASSUME Undisturbed PROVE Owned' /\ Own' /\ Handled'
  BY SameLoop DEF OInv, AcceptHere
<1> DEFINE r == Open(reg, c, f)
           u == AddChannel(r, c, {"in"})
<1>1. /\ <<Listen, "in">> \in active /\ active' \subseteq active
      /\ reg' = UpdateChannel(r, c, {"in"})
      /\ state[c] = "none" /\ state' = [state EXCEPT ![c] = "open"]
      /\ reg.socket[f] = None
      /\ listening' = listening /\ posted' = posted
  BY DEF AcceptHere, Accepted, Dispatched, IsNext
<1>2. /\ c \in Channels /\ f \in AllFds /\ f \notin FixedFds /\ Tables(reg)
      /\ {"in"} \in SUBSET Events /\ f \notin Watched(reg) /\ ~(reg.index[c] >= 0)
  BY <1>1, FixedChannels DEF OInv, Owned, IInv, AllFds, Channels, Events
<1>3. /\ reg.channelList \in [AllFds -> Channels \cup {None}]
      /\ reg.socket \in [Fds -> Conns \cup {None}] /\ reg.index \in [Channels -> Int]
      /\ reg.fd \in [Channels -> AllFds \cup {0}]
      /\ state \in [Conns -> {"none", "open", "closed"}]
      /\ Len(reg.pollfds) \in Nat
      /\ Conns \subseteq Channels /\ Fixed \subseteq Channels /\ None \notin Conns
  BY <1>2, FixedChannels, PollerAssumption, LenProperties DEF Tables, IInv, Types, Channels
<1>4. /\ Tables(r) /\ r.channelList = reg.channelList /\ r.interest = reg.interest
      /\ r.index = reg.index /\ r.pollfds = reg.pollfds
  BY <1>2, OpenTables
<1>5. r.socket = [reg.socket EXCEPT ![f] = c] /\ r.fd = [reg.fd EXCEPT ![c] = f]
  BY <1>2 DEF Open, Tables
<1> HIDE DEF r
<1>6. r.fd[c] = f /\ Watched(r) = Watched(reg)
  BY <1>2, <1>3, <1>4, <1>5 DEF Watched
<1>7. reg' = u
  BY <1>1, <1>2, <1>3, <1>4 DEF UpdateChannel
<1>8. /\ u.channelList = [r.channelList EXCEPT ![f] = c]
      /\ u.index = [r.index EXCEPT ![c] = Len(r.pollfds)]
      /\ u.fd = r.fd /\ u.socket = r.socket
      /\ Watched(u) \subseteq Watched(r) \cup {f}
  <2>1. r.fd[c] \in AllFds
    BY <1>2, <1>6
  <2>2. /\ u.channelList = [r.channelList EXCEPT ![r.fd[c]] = c]
        /\ u.index = [r.index EXCEPT ![c] = Len(r.pollfds)]
        /\ u.fd = r.fd /\ u.socket = r.socket
        /\ Watched(u) \subseteq Watched(r) \cup {r.fd[c]}
    BY <1>2, <1>4, <2>1, AddTables
  <2> QED
    BY <1>6, <2>2
<1> HIDE DEF u
<1>9. /\ reg'.channelList = [reg.channelList EXCEPT ![f] = c]
      /\ reg'.index = [reg.index EXCEPT ![c] = Len(reg.pollfds)]
      /\ reg'.fd = [reg.fd EXCEPT ![c] = f]
      /\ reg'.socket = [reg.socket EXCEPT ![f] = c]
      /\ Watched(reg') \subseteq Watched(reg) \cup {f}
  BY <1>4, <1>5, <1>6, <1>7, <1>8
<1>10. \A d \in Conns : state[d] = "open" => d # c /\ reg.fd[d] \in Fds /\ reg.fd[d] # f
  BY <1>1, <1>3 DEF OInv, Owned, IInv, Numbered
<1>11. Owned'
  <2>1. \A d \in Conns : state'[d] = "open" <=> reg'.index[d] >= 0
    BY <1>1, <1>3, <1>9 DEF OInv, Owned
  <2>2. \A d \in Conns : state'[d] = "open" => /\ reg'.channelList[reg'.fd[d]] = d
                                               /\ reg'.socket[reg'.fd[d]] = d
    <3>1. ASSUME NEW d \in Conns, state[d] = "open"
          PROVE  /\ reg'.channelList[reg'.fd[d]] = d /\ reg'.socket[reg'.fd[d]] = d
      BY <1>3, <1>9, <1>10, <3>1 DEF OInv, Owned, AllFds
    <3>2. reg'.channelList[reg'.fd[c]] = c /\ reg'.socket[reg'.fd[c]] = c
      BY <1>2, <1>3, <1>9
    <3> QED
      BY <1>1, <1>3, <3>1, <3>2
  <2>3. \A g \in Fds : reg'.socket[g] # None => /\ state'[reg'.socket[g]] = "open"
                                                /\ reg'.fd[reg'.socket[g]] = g
    <3>1. reg'.socket[f] = c /\ state'[c] = "open" /\ reg'.fd[c] = f
      BY <1>1, <1>2, <1>3, <1>9
    <3>2. ASSUME NEW g \in Fds, g # f, reg'.socket[g] # None
          PROVE  state'[reg'.socket[g]] = "open" /\ reg'.fd[reg'.socket[g]] = g
      <4> DEFINE d == reg.socket[g]
      <4>1. reg'.socket[g] = d /\ d \in Conns /\ state[d] = "open" /\ reg.fd[d] = g
        BY <1>3, <1>9, <3>2 DEF OInv, Owned
      <4>2. d # c /\ d \in Channels
        BY <1>3, <1>10, <4>1
      <4> HIDE DEF d
      <4>3. state'[d] = "open" /\ reg'.fd[d] = g
        BY <1>1, <1>3, <1>9, <4>1, <4>2
      <4> QED
        BY <4>1, <4>3
    <3> QED
      BY <3>1, <3>2
  <2>4. \A g \in Fds : g \in Watched(reg') => reg'.socket[g] # None
    BY <1>3, <1>9 DEF OInv, Owned
  <2> QED
    BY <2>1, <2>2, <2>3, <2>4 DEF Owned, Watched
<1>12. Own'
  <2>1. \A d \in Fixed : d \in Channels /\ d # c
    BY <1>3, FixedChannels
  <2>2. \A d \in Fixed : /\ reg'.index[d] >= 0 /\ reg'.fd[d] \in FixedFds
                         /\ reg'.channelList[reg'.fd[d]] = d
    BY <1>2, <1>3, <1>9, <2>1 DEF OInv, Own, AllFds
  <2>3. \A g \in FixedFds : reg'.channelList[g] \in Fixed
    BY <1>2, <1>3, <1>9 DEF OInv, Own, AllFds
  <2>4. listening => reg'.fd[Listen] = ListenFd
    BY <1>3, <1>9, <2>1 DEF OInv, Own, Fixed
  <2> QED
    BY <1>1, <2>2, <2>3, <2>4, SameLoop DEF Own
<1>13. Handled'
  <2>1. \A d \in Conns : <<d, "out">> \in active => state[d] = "open"
    BY <1>1 DEF OInv, Handled
  <2>2. \A d \in Conns, ev \in Events : <<d, ev>> \in active' => state'[d] = "open"
    BY <1>1, <1>3, <2>1 DEF OInv, Handled, Events
  <2> QED
    BY <1>1, <2>2 DEF OInv, Handled, Events
<1> QED
  BY <1>11, <1>12, <1>13

\* Every step of an undisturbed loop keeps together what belongs together.
LEMMA NextOInv == IInv /\ OInv /\ [Next]_vars => OInv'
<1> SUFFICES ASSUME IInv, OInv, [Next]_vars PROVE OInv'
  OBVIOUS
<1> SUFFICES ASSUME Undisturbed PROVE OInv'
  <2>1. listening' = listening
    BY DEF Next, LoopStep, vars, Poll, EndDispatch, EndTasks, HandleFixed, AcceptHere, ReadData,
           ReadFails, WriteAll, WritePart, SendPart, ShutdownInPlace, PostShutdown, RunUpdate,
           RunShutdown, ShutdownWriteInLoop, AcceptElsewhere, Input, HangUp, Room
  <2> QED
    BY <2>1, SameLoop DEF OInv
<1>1. listening /\ listening \notin Kicks /\ posted = {}
  BY DEF OInv, Handled, Undisturbed
<1>2. ASSUME Poll PROVE OInv'
  BY <1>2, PollOInv
<1>3. ASSUME EndDispatch \/ EndTasks \/ UNCHANGED vars PROVE OInv'
  BY <1>3, QuietOInv DEF EndDispatch, EndTasks, vars, kernelVars
<1>4. ASSUME NEW c \in Fixed, HandleFixed(c) PROVE OInv'
  BY <1>4, QuietOInv DEF HandleFixed, Dispatched
<1>5. ASSUME NEW c \in Conns, ReadData(c) \/ WritePart(c) PROVE OInv'
  BY <1>5, QuietOInv DEF ReadData, WritePart, Dispatched
<1>6. ASSUME NEW f, Input(f) \/ HangUp(f) \/ Room(f) PROVE OInv'
  BY <1>6, QuietOInv DEF Input, HangUp, Room
<1>7. ASSUME NEW c \in Conns, WriteAll(c) PROVE OInv'
  <2> DEFINE ev == events_[c] \ {"out"}
  <2>1. <<c, "out">> \in active /\ IsOpen(reg, reg.fd[c])
    BY <1>7 DEF WriteAll, Dispatched, IsNext
  <2>2. reg.fd[c] \in Fds
    BY <2>1 DEF IInv, Numbered
  <2>3. state[c] = "open"
    BY <2>1, <2>2 DEF IsOpen, OInv, Handled
  <2>4. ev \in SUBSET Events
    BY DEF IInv, Types, Channels
  <2>5. /\ reg' = UpdateChannel(reg, c, ev) /\ listening' = listening /\ state' = state
        /\ active' \subseteq active /\ posted' = posted
    BY <1>7 DEF WriteAll, Dispatched, kernelVars
  <2> HIDE DEF ev
  <2> QED
    BY <2>3, <2>4, <2>5, ModifyOInv
<1>8. ASSUME NEW c \in Conns, SendPart(c) PROVE OInv'
  <2> DEFINE ev == events_[c] \cup {"out"}
  <2>1. ev \in SUBSET Events
    BY DEF IInv, Types, Channels, Events
  <2>2. /\ state[c] = "open" /\ reg' = UpdateChannel(reg, c, ev) /\ listening' = listening
        /\ state' = state /\ active' = active /\ posted' = posted
    BY <1>8 DEF SendPart
  <2> HIDE DEF ev
  <2> QED
    BY <2>1, <2>2, ModifyOInv
<1>9. ASSUME NEW c \in Conns, ReadFails(c) PROVE OInv'
  BY <1>9, LeaveOInv
<1>10. ASSUME NEW c \in Conns, NEW f \in Fds, AcceptHere(c, f) PROVE OInv'
  BY <1>10, AcceptOInv
<1>11. ASSUME NEW c \in Conns, NEW f \in Fds,
              \/ ShutdownInPlace(c) \/ PostShutdown(c) \/ RunUpdate(c) \/ RunShutdown(c)
              \/ AcceptElsewhere(c, f)
       PROVE  FALSE
  BY <1>1, <1>11 DEF ShutdownInPlace, PostShutdown, RunUpdate, RunShutdown, AcceptElsewhere
<1>12. ASSUME NEW c \in Conns,
              ShutdownInPlace(c) \/ PostShutdown(c) \/ RunUpdate(c) \/ RunShutdown(c)
       PROVE  FALSE
  BY <1>1, <1>12 DEF ShutdownInPlace, PostShutdown, RunUpdate, RunShutdown
<1> QED
  BY <1>2, <1>3, <1>4, <1>5, <1>6, <1>7, <1>8, <1>9, <1>10, <1>11, <1>12 DEF Next, LoopStep

\* On an undisturbed loop a number leads to the channel that is registered for it, and
\* an open connection has its socket, however often numbers are closed and given out
\* again, and whatever epoll_wait has written over pollfds.
THEOREM OneChannel == Spec => []OneChannelWhileUndisturbed
<1>1. IInv /\ OInv => OneChannelWhileUndisturbed
  BY DEF OInv, Owned, Own, OneChannelWhileUndisturbed, OneChannelPerFd, Registered, Channels
<1>2. Init => IInv /\ OInv
  BY InitIInv, InitOInv
<1>3. IInv /\ OInv /\ [Next]_vars => (IInv /\ OInv)'
  BY NextIInv, NextOInv
<1> QED
  BY <1>1, <1>2, <1>3, PTL DEF Spec
-----------------------------------------------------------------------------
(* What is watched while few descriptors are ready.                        *)

\* An open connection has an entry behind those of the loop's own channels, where
\* epoll_wait has not written; and every channel asks at least for input.
Few ==
    /\ Len(reg.pollfds) >= Len(Registry)
    /\ \A c \in Conns : state[c] = "open" => /\ reg.index[c] >= Len(Registry)
                                             /\ reg.pollfds[reg.index[c] + 1] = reg.fd[c]
    /\ \A c \in Channels : Registered(c) => /\ reg.fd[c] \in Watched(reg)
                                            /\ reg.interest[reg.fd[c]] = events_[c]
                                            /\ "in" \in events_[c]

\* The invariant of undisturbed loops with few ready descriptors.
FInv == Undisturbed /\ most <= Len(Registry) => Few

\* At the start the loop watches its own channels.
LEMMA InitFInv == Init => FInv
<1> SUFFICES ASSUME Init PROVE Few
  BY DEF FInv
<1>1. reg.pollfds = Registry /\ reg.interest = [f \in FixedFds |-> {"in"}]
      /\ (\A c \in Conns : state[c] # "open") /\ Watched(reg) = FixedFds
  BY DEF Init, Watched
<1>2. \A c \in Fixed : reg.fd[c] \in FixedFds
  <2>1. /\ WakeFd \in FixedFds /\ TimerFd \in FixedFds /\ (listening => ListenFd \in FixedFds)
    BY FixedChannels
  <2>2. \A c \in Fixed : c \in Channels /\ c \in {Wake, Timer} \cup (IF listening THEN {Listen} ELSE {})
    BY DEF Channels, Fixed
  <2> QED
    BY <2>1, <2>2, FixedChannels DEF Init
<1>3. \A c \in Fixed : c \in Channels /\ c \notin Conns /\ events_[c] = {"in"}
  BY FixedChannels DEF Init, Channels
<1>4. \A c \in Channels : Registered(c) => c \in Fixed
  BY <1>1 DEF Registered, Channels
<1>5. Len(Registry) >= Len(Registry)
  BY FixedChannels
<1> QED
  BY <1>1, <1>2, <1>3, <1>4, <1>5 DEF Few

\* Steps that leave the tables and the events alone.
LEMMA QuietFInv ==
    ASSUME FInv, reg' = reg, state' = state, events_' = events_, listening' = listening,
           most' = most
    PROVE  FInv'
<1> SUFFICES ASSUME Undisturbed, most <= Len(Registry) PROVE Few'
  BY SameLoop DEF FInv
<1> QED
  BY SameLoop DEF FInv, Few, Registered, Watched

\* What a poll writes ends before the entries of the connections.
LEMMA PollFInv == IInv /\ FInv /\ Poll => FInv'
<1> SUFFICES ASSUME IInv, FInv, Poll, Undisturbed, most' <= Len(Registry) PROVE Few'
  BY SameLoop DEF FInv, Poll
<1>1. /\ Ready \subseteq Watched(reg) /\ Ready \in SUBSET AllFds
      /\ IsFiniteSet(Ready) /\ Cardinality(Ready) \in Nat
  BY FS_Subset, FS_CardinalityType DEF Ready, IInv, Tables
<1>2. /\ most <= Len(Registry) /\ Cardinality(Ready) <= Len(Registry) /\ Len(Registry) \in Nat
  <2>1. most \in Nat /\ Len(Registry) \in Nat /\ most' = Max({most, Cardinality(Ready)})
    <3>1. IsFiniteSet(AllFds)
      BY FewFixed, FS_Union, PollerAssumption DEF AllFds
    <3>2. Cardinality(AllFds) \in Nat
      BY <3>1, FS_CardinalityType
    <3> QED
      BY <3>2, FixedChannels DEF Poll, IInv, Types
  <2>2. /\ Max({most, Cardinality(Ready)}) \in {most, Cardinality(Ready)}
        /\ Max({most, Cardinality(Ready)}) >= most
        /\ Max({most, Cardinality(Ready)}) >= Cardinality(Ready)
    BY <1>1, <2>1, MaxOfTwo
  <2> QED
    BY <1>1, <2>1, <2>2
<1>3. Few
  BY <1>2 DEF FInv
<1>4. PICK order \in SetToSeqs(Ready) :
         reg' = [reg EXCEPT !.pollfds = Overwrite(reg.pollfds, order)]
  BY DEF Poll
<1>5. /\ Len(reg'.pollfds) >= Len(reg.pollfds)
      /\ \A i \in 1 .. Len(reg.pollfds) :
            i > Cardinality(Ready) => reg'.pollfds[i] = reg.pollfds[i]
      /\ reg'.index = reg.index /\ reg'.fd = reg.fd /\ reg'.interest = reg.interest
      /\ Tables(reg')
  BY <1>1, <1>4, OverwriteTables DEF IInv
<1>6. state' = state /\ events_' = events_ /\ listening' = listening
  BY DEF Poll
<1>7. Len(reg'.pollfds) >= Len(Registry)
  <2>1. Len(reg.pollfds) \in Nat /\ Len(reg'.pollfds) \in Nat
    BY <1>5, LenProperties DEF IInv, Tables
  <2> QED
    BY <1>2, <1>3, <1>5, <2>1 DEF Few
<1>8. ASSUME NEW c \in Conns, state[c] = "open"
      PROVE  reg'.index[c] >= Len(Registry) /\ reg'.pollfds[reg'.index[c] + 1] = reg'.fd[c]
  <2>1. reg.index[c] >= Len(Registry) /\ reg.pollfds[reg.index[c] + 1] = reg.fd[c]
    BY <1>3, <1>8 DEF Few
  <2>2. reg.index[c] \in Int /\ reg.index[c] <= Len(reg.pollfds) - 1 /\ Len(reg.pollfds) \in Nat
    BY LenProperties DEF IInv, Tables, Channels
  <2>3. reg.index[c] + 1 \in 1 .. Len(reg.pollfds) /\ reg.index[c] + 1 > Cardinality(Ready)
    BY <1>1, <1>2, <2>1, <2>2
  <2> QED
    BY <1>5, <2>1, <2>3
<1>9. Watched(reg') = Watched(reg)
  BY <1>5 DEF Watched
<1> QED
  BY <1>3, <1>5, <1>6, <1>7, <1>8, <1>9, SameLoop DEF Few, Registered, Watched

\* An open connection asks for other events.
LEMMA ModifyFInv ==
    ASSUME IInv, OInv, FInv, NEW c \in Conns, state[c] = "open",
           NEW ev \in SUBSET Events, "in" \in events_[c] => "in" \in ev,
           reg' = UpdateChannel(reg, c, ev), events_' = [events_ EXCEPT ![c] = ev],
           listening' = listening, state' = state, most' = most
    PROVE  FInv'
<1> SUFFICES ASSUME Undisturbed, most <= Len(Registry) PROVE Few'
  BY SameLoop DEF FInv
<1>1. Few /\ Owned /\ Own
  BY DEF FInv, OInv
<1>2. /\ c \in Channels /\ reg.fd[c] \in AllFds /\ Tables(reg) /\ reg.index[c] >= 0
      /\ reg.index[c] \in Int /\ events_ \in [Channels -> SUBSET Events]
  BY <1>1 DEF IInv, Types, Tables, Numbered, AllFds, Channels, Owned
<1>3. reg.fd[c] \in Watched(reg) /\ "in" \in ev
  BY <1>1, <1>2 DEF Few, Registered
<1>4. reg' = ModifyChannel(reg, c, ev)
  BY <1>2 DEF UpdateChannel
<1>5. /\ reg'.pollfds = reg.pollfds /\ reg'.index = reg.index /\ reg'.fd = reg.fd
      /\ Watched(reg') = Watched(reg)
      /\ \A g \in Watched(reg) : g # reg.fd[c] => reg'.interest[g] = reg.interest[g]
      /\ reg'.interest[reg.fd[c]] = ev
  <2> DEFINE f == reg.fd[c]
             u == ModifyChannel(reg, c, ev)
  <2>1. /\ u.pollfds = reg.pollfds /\ u.index = reg.index /\ u.fd = reg.fd
        /\ Watched(u) = Watched(reg)
        /\ \A g \in Watched(reg) : g # f \/ ev = {} => u.interest[g] = reg.interest[g]
        /\ (ev # {} /\ f \in Watched(reg) => u.interest[f] = ev)
    BY <1>2, ModifyTables
  <2>2. ev # {} /\ f \in Watched(reg) /\ reg' = u
    BY <1>3, <1>4
  <2> HIDE DEF u
  <2> QED
    BY <2>1, <2>2
<1>6. \A d \in Channels : Registered(d) /\ d # c => reg.fd[d] # reg.fd[c]
  BY <1>1, <1>2 DEF Owned, Own, Registered, Channels
<1>7. ASSUME NEW d \in Channels, Registered(d)
      PROVE  /\ reg'.fd[d] \in Watched(reg') /\ reg'.interest[reg'.fd[d]] = events_'[d]
             /\ "in" \in events_'[d]
  <2>1. /\ reg.fd[d] \in Watched(reg) /\ reg.interest[reg.fd[d]] = events_[d]
        /\ "in" \in events_[d]
    BY <1>1, <1>7 DEF Few
  <2>2. CASE d = c
    BY <1>2, <1>3, <1>5, <2>2
  <2>3. CASE d # c
    BY <1>2, <1>5, <1>6, <1>7, <2>1, <2>3
  <2> QED
    BY <2>2, <2>3
<1>8. \A d \in Channels : Registered(d)' <=> Registered(d)
  BY <1>5 DEF Registered
<1> QED
  BY <1>1, <1>5, <1>7, <1>8, SameLoop DEF Few, Watched

\* A removal finds the channel's own entry, so nothing else is unwatched.
LEMMA LeaveFInv == ASSUME IInv, OInv, FInv, NEW c \in Conns, ReadFails(c) PROVE FInv'
<1> SUFFICES ASSUME Undisturbed, most <= Len(Registry) PROVE Few'
  BY SameLoop DEF FInv, ReadFails
<1> DEFINE f == reg.fd[c]
           g == reg.pollfds[reg.index[c] + 1]
           u == Close(RemoveChannel(UpdateChannel(reg, c, {}), c), f)
<1>1. /\ <<c, "in">> \in active /\ reg' = u /\ listening' = listening /\ most' = most
      /\ state' = [state EXCEPT ![c] = "closed"] /\ events_' = [events_ EXCEPT ![c] = {}]
  BY DEF ReadFails, Dispatched, IsNext
<1> HIDE DEF u
<1>2. Few /\ Owned /\ Own
  BY DEF FInv, OInv
<1>3. /\ state[c] = "open" /\ c \in Channels /\ f \in Fds /\ Tables(reg) /\ reg.index[c] >= 0
  BY <1>1, <1>2 DEF OInv, Owned, Handled, IInv, Numbered, Channels
<1>4. g = f
  BY <1>2, <1>3 DEF Few
<1>5. /\ state \in [Conns -> {"none", "open", "closed"}]
      /\ events_ \in [Channels -> SUBSET Events] /\ Conns \subseteq Channels
  BY DEF IInv, Types, Channels
<1>6. /\ u.pollfds = reg.pollfds /\ u.fd = reg.fd
      /\ u.index[c] = -1 /\ \A d \in Channels : d # c => u.index[d] = reg.index[d]
      /\ Watched(u) = Watched(reg) \ {f, g}
      /\ \A h \in Watched(u) : u.interest[h] = reg.interest[h]
  BY <1>3, LeaveTables DEF u
<1>7. \A d \in Conns : state'[d] = "open" => d # c /\ state[d] = "open"
  BY <1>1, <1>5
<1>8. \A d \in Channels : Registered(d)' => d # c /\ Registered(d)
  BY <1>1, <1>5, <1>6 DEF Registered
<1>9. \A d \in Channels : Registered(d) /\ d # c => reg.fd[d] # f
  BY <1>2, <1>3 DEF Owned, Own, Registered, Channels
<1>10. \A d \in Conns : state'[d] = "open" => /\ reg'.index[d] >= Len(Registry)
                                              /\ reg'.pollfds[reg'.index[d] + 1] = reg'.fd[d]
  BY <1>1, <1>2, <1>5, <1>6, <1>7 DEF Few
<1>11. ASSUME NEW d \in Channels, Registered(d)'
       PROVE  /\ reg'.fd[d] \in Watched(reg') /\ reg'.interest[reg'.fd[d]] = events_'[d]
              /\ "in" \in events_'[d]
  <2>1. d # c /\ Registered(d)
    BY <1>8, <1>11
  <2>2. /\ reg.fd[d] \in Watched(reg) /\ reg.interest[reg.fd[d]] = events_[d]
        /\ "in" \in events_[d]
    BY <1>2, <2>1 DEF Few
  <2>3. reg.fd[d] \notin {f, g}
    BY <1>4, <1>9, <2>1
  <2>4. events_'[d] = events_[d]
    BY <1>1, <1>5, <2>1
  <2> QED
    BY <1>1, <1>6, <2>2, <2>3, <2>4
<1> QED
  BY <1>1, <1>2, <1>6, <1>10, <1>11, SameLoop DEF Few, Watched

\* A channel that the kernel obliges has the last entry, and is watched.
LEMMA AddWatches ==
    ASSUME NEW r, Tables(r), NEW c \in Channels, NEW f \in AllFds, r.fd[c] = f,
           NEW ev \in SUBSET Events, f \notin Watched(r), IsOpen(r, f)
    PROVE  /\ AddChannel(r, c, ev).pollfds = Append(r.pollfds, f)
           /\ AddChannel(r, c, ev).index = [r.index EXCEPT ![c] = Len(r.pollfds)]
           /\ AddChannel(r, c, ev).fd = r.fd
           /\ Watched(r) \subseteq Watched(AddChannel(r, c, ev))
           /\ \A g \in Watched(r) : AddChannel(r, c, ev).interest[g] = r.interest[g]
           /\ f \in Watched(AddChannel(r, c, ev))
           /\ AddChannel(r, c, ev).interest[f] = ev
<1> DEFINE i == [g \in Watched(r) \cup {f} |-> IF g = f THEN ev ELSE r.interest[g]]
           p == Append(r.pollfds, f)
           u == AddChannel(r, c, ev)
<1>1. /\ DOMAIN i = Watched(r) \cup {f} /\ i[f] = ev
      /\ \A g \in Watched(r) : i[g] = r.interest[g]
  OBVIOUS
<1>2. Watch(r, f, ev) = [r EXCEPT !.interest = i]
  BY DEF Watch
<1>3. u = [Watch(r, f, ev) EXCEPT !.channelList[f] = c, !.index[c] = Len(r.pollfds),
                                  !.pollfds = p]
  BY DEF AddChannel
<1> HIDE DEF i, p, u
<1>4. u = [pollfds |-> p, channelList |-> [r.channelList EXCEPT ![f] = c],
           index |-> [r.index EXCEPT ![c] = Len(r.pollfds)],
           fd |-> r.fd, interest |-> i, socket |-> r.socket]
  BY <1>2, <1>3 DEF Tables
<1>5. u.interest = i /\ Watched(u) = DOMAIN i
  BY <1>4 DEF Watched
<1>6. u.pollfds = p /\ u.index = [r.index EXCEPT ![c] = Len(r.pollfds)] /\ u.fd = r.fd
  BY <1>4
<1>7. /\ Watched(r) \subseteq Watched(u) /\ f \in Watched(u) /\ u.interest[f] = ev
      /\ \A g \in Watched(r) : u.interest[g] = r.interest[g]
  BY <1>1, <1>5
<1> QED
  BY <1>6, <1>7, Zenon DEF p, u

\* The entry of a new connection is the last.
LEMMA AcceptFInv ==
    ASSUME IInv, OInv, FInv, NEW c \in Conns, NEW f \in Fds, AcceptHere(c, f) PROVE FInv'
<1> SUFFICES ASSUME Undisturbed, most <= Len(Registry) PROVE Few'
  BY SameLoop DEF FInv, AcceptHere
<1> DEFINE r == Open(reg, c, f)
           u == AddChannel(r, c, {"in"})
<1>1. /\ reg' = UpdateChannel(r, c, {"in"}) /\ reg.socket[f] = None
      /\ state[c] = "none" /\ state' = [state EXCEPT ![c] = "open"]
      /\ events_' = [events_ EXCEPT ![c] = {"in"}]
      /\ listening' = listening /\ most' = most
  BY DEF AcceptHere, Accepted
<1>2. Few /\ Owned /\ Own
  BY DEF FInv, OInv
<1>3. /\ c \in Channels /\ f \in AllFds /\ f \notin FixedFds /\ Tables(reg)
      /\ {"in"} \in SUBSET Events /\ f \notin Watched(reg) /\ ~(reg.index[c] >= 0)
  BY <1>1, <1>2, FixedChannels DEF Owned, IInv, AllFds, Channels, Events
<1>4. /\ reg.fd \in [Channels -> AllFds \cup {0}] /\ reg.socket \in [Fds -> Conns \cup {None}]
      /\ reg.index \in [Channels -> Int] /\ reg.pollfds \in Seq(AllFds)
      /\ Len(reg.pollfds) \in Nat /\ Len(Registry) \in Nat
      /\ state \in [Conns -> {"none", "open", "closed"}]
      /\ events_ \in [Channels -> SUBSET Events] /\ Conns \subseteq Channels
      /\ c # None
  BY <1>3, FixedChannels, LenProperties DEF Tables, IInv, Types, Channels
<1>5. /\ Tables(r) /\ r.interest = reg.interest /\ r.index = reg.index
      /\ r.pollfds = reg.pollfds
  BY <1>3, OpenTables
<1>6. r.socket = [reg.socket EXCEPT ![f] = c] /\ r.fd = [reg.fd EXCEPT ![c] = f]
  BY <1>3 DEF Open, Tables
<1> HIDE DEF r
<1>7. r.fd[c] = f /\ Watched(r) = Watched(reg) /\ IsOpen(r, f)
  BY <1>3, <1>4, <1>5, <1>6 DEF Watched, IsOpen
<1>8. reg' = u
  BY <1>1, <1>3, <1>4, <1>5 DEF UpdateChannel
<1>9. /\ u.pollfds = Append(r.pollfds, f)
      /\ u.index = [r.index EXCEPT ![c] = Len(r.pollfds)] /\ u.fd = r.fd
      /\ Watched(r) \subseteq Watched(u)
      /\ \A g \in Watched(r) : u.interest[g] = r.interest[g]
      /\ f \in Watched(u) /\ u.interest[f] = {"in"}
  <2>1. f \notin Watched(r)
    BY <1>3, <1>7
  <2> QED
    BY <1>3, <1>5, <1>7, <2>1, AddWatches
<1> HIDE DEF u
<1>10. /\ reg'.pollfds = Append(reg.pollfds, f)
       /\ reg'.index = [reg.index EXCEPT ![c] = Len(reg.pollfds)]
       /\ reg'.fd = [reg.fd EXCEPT ![c] = f]
       /\ Watched(reg) \subseteq Watched(reg')
       /\ \A g \in Watched(reg) : reg'.interest[g] = reg.interest[g]
       /\ f \in Watched(reg') /\ reg'.interest[f] = {"in"}
  BY <1>5, <1>6, <1>7, <1>8, <1>9
<1>11. /\ Len(reg'.pollfds) = Len(reg.pollfds) + 1
       /\ reg'.pollfds[Len(reg.pollfds) + 1] = f
       /\ \A i \in 1 .. Len(reg.pollfds) : reg'.pollfds[i] = reg.pollfds[i]
  BY <1>3, <1>4, <1>10, AppendProperties
<1>12. Len(reg'.pollfds) >= Len(Registry) /\ Len(reg.pollfds) >= Len(Registry)
  BY <1>2, <1>4, <1>11 DEF Few
<1>13. ASSUME NEW d \in Conns, state'[d] = "open"
       PROVE  reg'.index[d] >= Len(Registry) /\ reg'.pollfds[reg'.index[d] + 1] = reg'.fd[d]
  <2>1. CASE d = c
    BY <1>3, <1>4, <1>10, <1>11, <1>12, <2>1
  <2>2. CASE d # c
    <3>1. state[d] = "open" /\ reg'.index[d] = reg.index[d] /\ reg'.fd[d] = reg.fd[d]
      BY <1>1, <1>4, <1>10, <1>13, <2>2
    <3>2. reg.index[d] >= Len(Registry) /\ reg.pollfds[reg.index[d] + 1] = reg.fd[d]
      BY <1>2, <3>1 DEF Few
    <3>3. reg.index[d] + 1 \in 1 .. Len(reg.pollfds)
      <4>1. reg.index[d] \in -1 .. Len(reg.pollfds) - 1
        BY <1>4 DEF IInv, Tables
      <4> QED
        BY <1>4, <3>2, <4>1
    <3> QED
      BY <1>11, <3>1, <3>2, <3>3
  <2> QED
    BY <2>1, <2>2
<1>14. ASSUME NEW d \in Channels, Registered(d)'
       PROVE  /\ reg'.fd[d] \in Watched(reg') /\ reg'.interest[reg'.fd[d]] = events_'[d]
              /\ "in" \in events_'[d]
  <2>1. CASE d = c
    BY <1>1, <1>3, <1>4, <1>10, <2>1
  <2>2. CASE d # c
    <3>1. /\ Registered(d) /\ reg'.fd[d] = reg.fd[d] /\ events_'[d] = events_[d]
      BY <1>1, <1>4, <1>10, <1>14, <2>2 DEF Registered
    <3> QED
      BY <1>2, <1>10, <3>1 DEF Few
  <2> QED
    BY <2>1, <2>2
<1> QED
  BY <1>1, <1>12, <1>13, <1>14, SameLoop DEF Few, Watched

\* Every step keeps what is watched, while few descriptors are ready.
LEMMA NextFInv == IInv /\ OInv /\ FInv /\ [Next]_vars => FInv'
<1> SUFFICES ASSUME IInv, OInv, FInv, [Next]_vars PROVE FInv'
  OBVIOUS
<1> SUFFICES ASSUME Undisturbed PROVE FInv'
  <2>1. listening' = listening
    BY DEF Next, LoopStep, vars, Poll, EndDispatch, EndTasks, HandleFixed, AcceptHere, ReadData,
           ReadFails, WriteAll, WritePart, SendPart, ShutdownInPlace, PostShutdown, RunUpdate,
           RunShutdown, ShutdownWriteInLoop, AcceptElsewhere, Input, HangUp, Room
  <2> QED
    BY <2>1, SameLoop DEF FInv
<1>1. listening /\ listening \notin Kicks /\ posted = {}
  BY DEF OInv, Handled, Undisturbed
<1>2. ASSUME Poll PROVE FInv'
  BY <1>2, PollFInv
<1>3. ASSUME EndDispatch \/ EndTasks \/ UNCHANGED vars PROVE FInv'
  BY <1>3, QuietFInv DEF EndDispatch, EndTasks, vars, kernelVars
<1>4. ASSUME NEW c \in Fixed, HandleFixed(c) PROVE FInv'
  BY <1>4, QuietFInv DEF HandleFixed
<1>5. ASSUME NEW c \in Conns, ReadData(c) \/ WritePart(c) PROVE FInv'
  BY <1>5, QuietFInv DEF ReadData, WritePart
<1>6. ASSUME NEW f, Input(f) \/ HangUp(f) \/ Room(f) PROVE FInv'
  BY <1>6, QuietFInv DEF Input, HangUp, Room
<1>7. ASSUME NEW c \in Conns, WriteAll(c) PROVE FInv'
  <2> DEFINE ev == events_[c] \ {"out"}
  <2>1. <<c, "out">> \in active /\ IsOpen(reg, reg.fd[c])
    BY <1>7 DEF WriteAll, Dispatched, IsNext
  <2>2. reg.fd[c] \in Fds
    BY <2>1 DEF IInv, Numbered
  <2>3. state[c] = "open"
    BY <2>1, <2>2 DEF IsOpen, OInv, Handled
  <2>4. ev \in SUBSET Events /\ ("in" \in events_[c] => "in" \in ev)
    BY DEF IInv, Types, Channels
  <2>5. /\ reg' = UpdateChannel(reg, c, ev) /\ events_' = [events_ EXCEPT ![c] = ev]
        /\ listening' = listening /\ state' = state /\ most' = most
    BY <1>7 DEF WriteAll
  <2> HIDE DEF ev
  <2> QED
    BY <2>3, <2>4, <2>5, ModifyFInv
<1>8. ASSUME NEW c \in Conns, SendPart(c) PROVE FInv'
  <2> DEFINE ev == events_[c] \cup {"out"}
  <2>1. ev \in SUBSET Events /\ ("in" \in events_[c] => "in" \in ev)
    BY DEF IInv, Types, Channels, Events
  <2>2. /\ state[c] = "open" /\ reg' = UpdateChannel(reg, c, ev)
        /\ events_' = [events_ EXCEPT ![c] = ev]
        /\ listening' = listening /\ state' = state /\ most' = most
    BY <1>8 DEF SendPart
  <2> HIDE DEF ev
  <2> QED
    BY <2>1, <2>2, ModifyFInv
<1>9. ASSUME NEW c \in Conns, ReadFails(c) PROVE FInv'
  BY <1>9, LeaveFInv
<1>10. ASSUME NEW c \in Conns, NEW f \in Fds, AcceptHere(c, f) PROVE FInv'
  BY <1>10, AcceptFInv
<1>11. ASSUME NEW c \in Conns, NEW f \in Fds, AcceptElsewhere(c, f) PROVE FALSE
  BY <1>1, <1>11 DEF AcceptElsewhere
<1>12. ASSUME NEW c \in Conns,
              ShutdownInPlace(c) \/ PostShutdown(c) \/ RunUpdate(c) \/ RunShutdown(c)
       PROVE  FALSE
  BY <1>1, <1>12 DEF ShutdownInPlace, PostShutdown, RunUpdate, RunShutdown
<1> QED
  BY <1>2, <1>3, <1>4, <1>5, <1>6, <1>7, <1>8, <1>9, <1>10, <1>11, <1>12 DEF Next, LoopStep

\* On an undisturbed loop, as long as no poll has returned more descriptors than had
\* entries before the first connection, every registered channel is watched for what
\* it asked for: no removal unwatches another's descriptor.
THEOREM WatchedWhileFew == Spec => []WatchedWhileFewReady
<1>1. FInv => WatchedWhileFewReady
  BY DEF FInv, Few, WatchedWhileFewReady, RegisteredIsWatched
<1>2. Init => IInv /\ OInv /\ FInv
  BY InitIInv, InitOInv, InitFInv
<1>3. IInv /\ OInv /\ FInv /\ [Next]_vars => (IInv /\ OInv /\ FInv)'
  BY NextIInv, NextOInv, NextFInv
<1> QED
  BY <1>1, <1>2, <1>3, PTL DEF Spec
=============================================================================
