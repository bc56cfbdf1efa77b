----------------------------- MODULE Descriptors -----------------------------
(***************************************************************************)
(* What relates channels and descriptors, as operators on a record r:      *)
(*   pollfds, channelList   of fm/Poller;                                  *)
(*   index, fd              of every fm/Channel;                           *)
(*   interest, socket       of the kernel: the epoll set, which maps each  *)
(*                          watched descriptor to what it is watched for,  *)
(*                          and what every number in Fds denotes.          *)
(***************************************************************************)
EXTENDS Integers, Sequences

CONSTANTS Fds,  \* the descriptor numbers of the sockets that come and go
          None  \* no channel, no socket
-----------------------------------------------------------------------------
(* System calls on the tables r.                                           *)

Watched(r) == DOMAIN r.interest

IsOpen(r, f) == f \in Fds => r.socket[f] # None

\* epoll_ctl with EPOLL_CTL_ADD or EPOLL_CTL_MOD.
Watch(r, f, ev) ==
    [r EXCEPT !.interest = [g \in Watched(r) \cup {f} |->
                              IF g = f THEN ev ELSE r.interest[g]]]

\* epoll_ctl with EPOLL_CTL_DEL.
Unwatch(r, f) ==
    [r EXCEPT !.interest = [g \in Watched(r) \ {f} |-> r.interest[g]]]

\* accept or socket: the number f denotes the socket of c.
Open(r, c, f) == [r EXCEPT !.socket[f] = c, !.fd[c] = f]

\* close: the number is free, and the kernel no longer watches it.
Close(r, f) == [Unwatch(r, f) EXCEPT !.socket[f] = None]

-----------------------------------------------------------------------------
(* Poller::updateChannel and Poller::removeChannel on the tables r.        *)

\* A new channel that takes the position behind its entry for its index.
AddChannelBehind(r, c, ev) ==
    LET f == r.fd[c]
        added == IF f \notin Watched(r) /\ IsOpen(r, f) THEN Watch(r, f, ev) ELSE r
    IN [added EXCEPT !.channelList[f] = c,
                     !.index[c] = Len(r.pollfds) + 1,
                     !.pollfds = Append(r.pollfds, f)]

\* A new channel that takes over the last entry.
AddChannelTakesLast(r, c, ev) ==
    LET f == r.fd[c]
        added == IF f \notin Watched(r) /\ IsOpen(r, f) THEN Watch(r, f, ev) ELSE r
    IN [added EXCEPT !.channelList[f] = c,
                     !.index[c] = Len(r.pollfds) - 1,
                     !.pollfds[Len(r.pollfds)] = f]

\* updateChannel of a channel without an index: EPOLL_CTL_ADD, which fails for
\* a descriptor that is watched already or closed, and a new entry of pollfds.
AddChannel(r, c, ev) ==
    LET f == r.fd[c]
        added == IF f \notin Watched(r) /\ IsOpen(r, f) THEN Watch(r, f, ev) ELSE r
    IN [added EXCEPT !.channelList[f] = c,
                     !.index[c] = Len(r.pollfds),
                     !.pollfds = Append(r.pollfds, f)]

\* updateChannel of a channel with an index: EPOLL_CTL_MOD, which fails for a
\* descriptor that is not watched, and is left out when no event is wanted.
ModifyChannel(r, c, ev) ==
    LET f == r.fd[c]
        modified == IF ev # {} /\ f \in Watched(r) THEN Watch(r, f, ev) ELSE r
    IN [modified EXCEPT !.channelList[f] = c]

UpdateChannel(r, c, ev) ==
    IF r.index[c] < 0 THEN AddChannel(r, c, ev) ELSE ModifyChannel(r, c, ev)

\* A removal that takes index_ for one that counts from one.
RemoveChannelOffByOne(r, c) ==
    IF r.index[c] < 0 THEN r
    ELSE [Unwatch(r, r.pollfds[r.index[c]]) EXCEPT
             !.channelList[r.fd[c]] = None, !.index[c] = -1]

\* A removal that takes its own number for the kernel and the entry's for channelList.
RemoveChannelSwapped(r, c) ==
    IF r.index[c] < 0 THEN r
    ELSE [Unwatch(r, r.fd[c]) EXCEPT
             !.channelList[r.pollfds[r.index[c] + 1]] = None, !.index[c] = -1]

\* removeChannel: EPOLL_CTL_DEL of the descriptor found in pollfds[index_].
RemoveChannel(r, c) ==
    IF r.index[c] < 0 THEN r
    ELSE [Unwatch(r, r.pollfds[r.index[c] + 1]) EXCEPT
             !.channelList[r.fd[c]] = None, !.index[c] = -1]
=============================================================================
