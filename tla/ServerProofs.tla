---------------------------- MODULE ServerProofs ----------------------------
(* Proofs about Server, for any number of loops and connections: the start   *)
(* of the pool, and what the user of a connection is told.                   *)
EXTENDS Server, TLAPS

Starting == mpc \in {"wait", "asleep"}

StartTypes ==
    /\ size \in 0 .. MaxSize
    /\ tpc \in [Pool -> {"none", "func", "published", "loop"}]
    /\ loop_ \in Pool \cup {None}
    /\ eventLoop \in Seq(Pool) /\ Len(eventLoop) <= size

\* One loop is started at a time: a thread that has not published its loop is the
\* one startLoop waits for, with loop_ still null; and what startLoop may find in
\* loop_ is the loop of that thread.
OneAtATime ==
    /\ Starting => /\ Len(eventLoop) < size
                   /\ loop_ \in {None, Len(eventLoop) + 1}
    /\ \A l \in Pool :
          tpc[l] = "func" => Starting /\ l = Len(eventLoop) + 1 /\ loop_ = None

IInv == StartTypes /\ EachItsOwnLoop /\ OneAtATime

\* The server starts with no loop in the pool.
LEMMA InitIInv == Init => IInv
BY ServerAssumption DEF Init, IInv, StartTypes, EachItsOwnLoop, OneAtATime, Starting, Pool

\* Everything but startLoop and func leaves the start alone.
LEMMA OthersKeepIInv ==
    ASSUME IInv, UNCHANGED startVars, Starting' <=> Starting
    PROVE  IInv'
BY DEF IInv, StartTypes, EachItsOwnLoop, OneAtATime, Starting, startVars

\* Every step keeps one loop starting at a time.
LEMMA NextIInv == IInv /\ [Next]_vars => IInv'
<1> SUFFICES ASSUME IInv, [Next]_vars PROVE IInv'
    OBVIOUS
<1> USE ServerAssumption
<1>1. CASE StartLoop
    BY <1>1 DEF StartLoop, IInv, StartTypes, EachItsOwnLoop, OneAtATime, Starting, Pool
<1>2. CASE Wait
    <2>1. CASE loop_ = None
        BY <1>2, <2>1 DEF Wait, IInv, StartTypes, EachItsOwnLoop, OneAtATime, Starting
    <2>2. CASE loop_ # None
        <3>1. /\ loop_ = Len(eventLoop) + 1 /\ loop_ \in Pool /\ Len(eventLoop) < size
              /\ eventLoop' = Append(eventLoop, loop_) /\ mpc' = "start"
              /\ UNCHANGED <<size, tpc, loop_>>
            BY <1>2, <2>2 DEF Wait, IInv, StartTypes, OneAtATime, Starting
        <3>2. /\ eventLoop' \in Seq(Pool) /\ Len(eventLoop') = Len(eventLoop) + 1
              /\ \A i \in DOMAIN eventLoop' :
                    i # Len(eventLoop) + 1 => i \in DOMAIN eventLoop /\ eventLoop'[i] = eventLoop[i]
              /\ eventLoop'[Len(eventLoop) + 1] = loop_
            BY <3>1 DEF IInv, StartTypes
        <3>3. StartTypes'
            BY <3>1, <3>2 DEF IInv, StartTypes
        <3>4. EachItsOwnLoop'
            BY <3>1, <3>2 DEF IInv, EachItsOwnLoop
        <3>5. OneAtATime'
            BY <2>2, <3>1 DEF IInv, OneAtATime, Starting
        <3> QED
            BY <3>3, <3>4, <3>5 DEF IInv
    <2> QED
        BY <2>1, <2>2
<1>3. ASSUME NEW l \in Pool, Publish(l) PROVE IInv'
    BY <1>3 DEF Publish, IInv, StartTypes, EachItsOwnLoop, OneAtATime, Starting, Pool
<1>4. ASSUME NEW l \in Pool, BeginLoop(l) PROVE IInv'
    BY <1>4 DEF BeginLoop, IInv, StartTypes, EachItsOwnLoop, OneAtATime, Starting, Pool
<1>5. CASE Serve \/ Spurious
    BY <1>5, OthersKeepIInv DEF Serve, Spurious, Starting
<1>6. CASE SetForwarding \/ SetCallBack \/ SetConnected \/ TellConnected
    BY <1>6, OthersKeepIInv
    DEF SetForwarding, SetCallBack, SetConnected, TellConnected, Starting
<1>7. ASSUME NEW l \in Loops, Tells(l) PROVE IInv'
    BY <1>7, OthersKeepIInv DEF Tells, TellDown, TellEnd, Starting
<1>8. ASSUME NEW c \in Conns, Accept(c) \/ Register(c) \/ Serves(c) \/ HandleInVain(c)
      PROVE  IInv'
    BY <1>8, OthersKeepIInv
    DEF Accept, Serves, Register, ReadData, CloseHandel, ErrorHandel, Leave, HandleInVain, Starting
<1>9. ASSUME NEW c \in Conns, Arrive(c) \/ HangUp(c) \/ PeerResets(c) PROVE IInv'
    BY <1>9, OthersKeepIInv DEF Arrive, HangUp, PeerResets, Starting
<1>10. CASE UNCHANGED vars
    BY <1>10, OthersKeepIInv DEF vars, Starting
<1> QED
    BY <1>1, <1>2, <1>3, <1>4, <1>5, <1>6, <1>7, <1>8, <1>9, <1>10
    DEF Next, Main, Thread

\* EventLoopThreadPool::start gives every slot the loop of its own thread, however
\* many there are, although all of them share one EventLoopThread.
THEOREM EveryLoopItsOwn == Spec => []EachItsOwnLoop
<1>1. Init => IInv
    BY InitIInv
<1>2. IInv /\ [Next]_vars => IInv'
    BY NextIInv
<1>3. IInv => EachItsOwnLoop
    BY DEF IInv
<1> QED
    BY <1>1, <1>2, <1>3, PTL DEF Spec
-----------------------------------------------------------------------------
Accepting == mpc \in {"forward", "equip", "connect", "tell"}

\* Where the server's thread is, and with what.
Place ==
    /\ conn # None <=> Accepting
    /\ mpc = "serve" \/ Accepting => Len(eventLoop) = size
    /\ mpc # "serve" => closing[0] = None
    /\ conn # None => home[conn] # None
    /\ mpc = "forward" => equipped[conn] = 0
    /\ mpc = "equip" => equipped[conn] < Len(CallBacks)
    /\ mpc \in {"connect", "tell"} => equipped[conn] = Len(CallBacks)

\* What is known of every connection, whatever happens early: it is registered at
\* most once, and closed once, by the loop it belongs to, when its peer has left.
Known ==
    \A c \in Conns :
        /\ home[c] = None => /\ log[c] = <<>> /\ c \notin closed
                             /\ c \notin posted \cup watched /\ equipped[c] = 0
        /\ size = 0 => home[c] \in {0, None}
        /\ home[c] # None /\ c # conn => equipped[c] = Len(CallBacks)
        /\ c \in posted => c \notin watched
        /\ c \in closed => c \notin posted \cup watched /\ c \in hungUp \cup reset
        /\ c \in told => c \in closed
        /\ \A l \in Loops : closing[l] = c => home[c] = l /\ c \in closed

\* Nothing has ended yet; and if it has, nothing was told since.
NoEnd(s) == \A i \in DOMAIN s : s[i] \notin Ends
EndLast(s) == \A i \in DOMAIN s : s[i] \in Ends => i = Len(s)

\* Of every connection, also those that handle events early: no end is told before
\* it is closed and connectCallBack was called for that, and only handelAccept can
\* tell something after it.
Concluded ==
    \A c \in Conns :
        /\ c \notin closed \/ closing[home[c]] = c => NoEnd(log[c])
        /\ c = conn => EndLast(log[c])
        /\ EndsOnce(log[c])

\* The user was told that the connection is up, and what was read.
Open(s) ==
    /\ Len(s) >= 1
    /\ \A i \in 1 .. Len(s) : s[i] = IF i = 1 THEN "up" ELSE "read"

\* He was told, after that, that it is down.
Down(s) ==
    /\ Len(s) >= 2
    /\ \A i \in 1 .. Len(s) : s[i] = IF i = 1 THEN "up" ELSE
                                     IF i = Len(s) THEN "down" ELSE "read"

\* And then how it ended.
Ended(s) ==
    /\ Len(s) >= 3
    /\ s[Len(s)] \in Ends
    /\ \A i \in 1 .. Len(s) - 1 : s[i] = IF i = 1 THEN "up" ELSE
                                         IF i = Len(s) - 1 THEN "down" ELSE "read"

\* It ended as its peer had it.
Rightly(c) == LET s == log[c] IN IF c \in reset THEN s[Len(s)] = "error" ELSE s[Len(s)] = "closed"

\* A connection in the hand of handelAccept, and one that is handed over.
Fresh(c) == log[c] = <<>> /\ c \notin closed /\ (mpc = "tell" => state[c] = "connected")
Gone(c) == c \in closed /\ state[c] \in {"close", "error"}
Heard(c) ==
    \/ c \notin closed /\ state[c] = "connected" /\ Open(log[c])
    \/ Gone(c) /\ closing[home[c]] = c /\ c \notin told /\ Open(log[c])
    \/ Gone(c) /\ closing[home[c]] = c /\ c \in told /\ Down(log[c])
    \/ Gone(c) /\ closing[home[c]] # c /\ Ended(log[c]) /\ Rightly(c)

Orderly ==
    \A c \in Conns : size = 0 \/ c \notin early =>
        /\ c = conn => Fresh(c)
        /\ home[c] # None /\ c # conn => Heard(c)

JInv == TypeOK /\ EachItsOwnLoop /\ OneAtATime /\ Place /\ Known /\ Concluded /\ Orderly

\* At the start there is no connection.
LEMMA InitJInv == Init => JInv
<1> SUFFICES ASSUME Init PROVE JInv
    OBVIOUS
<1> USE ServerAssumption DEF Init
<1>1. TypeOK
    BY DEF TypeOK, Pool, Loops, CallBacks, Stories
<1>2. EachItsOwnLoop /\ OneAtATime
    BY DEF EachItsOwnLoop, OneAtATime, Starting, Pool
<1>3. Place
    BY DEF Place, Accepting, Loops
<1>4. Known
    BY DEF Known
<1>5. Concluded
    BY DEF Concluded, NoEnd, EndLast, EndsOnce
<1>6. Orderly
    BY DEF Orderly
<1> QED
    BY <1>1, <1>2, <1>3, <1>4, <1>5, <1>6 DEF JInv

Words == Connects \cup {"read"} \cup Ends

\* A callback adds at most its word to the story of its connection.
LEMMA ToldAdds ==
    ASSUME TypeOK, NEW c \in Conns, NEW i \in 1 .. Len(CallBacks), NEW what \in Words,
           Told(c, i, what)
    PROVE  /\ log' \in [Conns -> Stories]
           /\ \A d \in Conns \ {c} : log'[d] = log[d]
           /\ log'[c] = IF i <= equipped[c] THEN Append(log[c], what) ELSE log[c]
           /\ log[c] \in Seq(Words)
<1>1. log[c] \in Seq(Words) /\ log \in [Conns -> Seq(Words)]
    BY DEF TypeOK, Stories, Words
<1>2. Append(log[c], what) \in Seq(Words)
    BY <1>1
<1>3. log' \in [Conns -> Seq(Words)]
    BY <1>1, <1>2 DEF Told
<1> QED
    BY <1>1, <1>3 DEF Told, Stories, Words

\* A story goes on with what was read, goes down, and ends.
LEMMA StoryGoesOn ==
    ASSUME NEW s \in Seq(Words), NEW e \in Ends
    PROVE  /\ Open(s) => Open(Append(s, "read")) /\ Down(Append(s, "down"))
           /\ Down(s) => Ended(Append(s, e))
BY DEF Open, Down, Ended

\* What a story without an end, and one that has just ended, may go on with.
LEMMA EndsGoOn ==
    ASSUME NEW s \in Seq(Words), NEW what \in Words
    PROVE  /\ NoEnd(s) => EndLast(s)
           /\ EndLast(s) => EndsOnce(s)
           /\ NoEnd(s) /\ what \notin Ends => NoEnd(Append(s, what))
           /\ NoEnd(s) => EndLast(Append(s, what))
           /\ EndLast(s) /\ what \in Connects => EndsOnce(Append(s, what))
BY DEF NoEnd, EndLast, EndsOnce, Connects, Ends

\* What the words are.
LEMMA TheWords ==
    /\ Connects \subseteq Words /\ Ends \subseteq Words /\ "read" \in Words
    /\ \A w \in Connects \cup {"read"} : w \notin Ends
    /\ \A c : Seen(c) \in Connects
    /\ Len(CallBacks) = 4
BY DEF Words, Connects, Ends, Seen, CallBacks

\* getNext stays within the pool.
LEMMA NextLoop ==
    ASSUME TypeOK PROVE GetNext \in Nat /\ (size > 0 => GetNext < size) /\ (size = 0 => GetNext = 0)
BY ServerAssumption DEF GetNext, TypeOK

\* What the two callbacks of a closing connection do to the stories.
LEMMA TellsAdd ==
    ASSUME TypeOK, NEW l \in Loops, Tells(l), NEW c, c = closing[l],
           NEW what, what = IF c \notin told THEN Seen(c)
                            ELSE IF c \in reset THEN "error" ELSE "closed"
    PROVE  /\ c \in Conns /\ what \in Words
           /\ log' \in [Conns -> Stories]
           /\ \A d \in Conns \ {c} : log'[d] = log[d]
           /\ log'[c] \in {log[c], Append(log[c], what)}
           /\ equipped[c] = Len(CallBacks) => log'[c] = Append(log[c], what)
           /\ log[c] \in Seq(Words)
           /\ IF c \notin told
              THEN told' = told \cup {c} /\ UNCHANGED closing
              ELSE closing' = [closing EXCEPT ![l] = None] /\ UNCHANGED told
<1>1. c \in Conns
    BY DEF Tells, TellDown, TellEnd, TypeOK
<1>2. what \in Words
    BY TheWords DEF Ends
<1>3. PICK i \in 1 .. Len(CallBacks) : Told(c, i, what)
    <2>1. CASE c \notin told
        BY <2>1, TheWords DEF Tells, TellDown, TellEnd
    <2>2. CASE c \in told /\ c \in reset
        BY <2>2, TheWords DEF Tells, TellDown, TellEnd
    <2>3. CASE c \in told /\ c \notin reset
        BY <2>3, TheWords DEF Tells, TellDown, TellEnd
    <2> QED
        BY <2>1, <2>2, <2>3
<1>4. /\ log' \in [Conns -> Stories]
      /\ \A d \in Conns \ {c} : log'[d] = log[d]
      /\ log'[c] = IF i <= equipped[c] THEN Append(log[c], what) ELSE log[c]
      /\ log[c] \in Seq(Words)
    BY <1>1, <1>2, <1>3, ToldAdds
<1>5. IF c \notin told
      THEN told' = told \cup {c} /\ UNCHANGED closing
      ELSE closing' = [closing EXCEPT ![l] = None] /\ UNCHANGED told
    BY DEF Tells, TellDown, TellEnd
<1>6. equipped[c] = Len(CallBacks) => i <= equipped[c]
    BY TheWords
<1> QED
    BY <1>1, <1>2, <1>4, <1>5, <1>6

\* Everything keeps the types.
LEMMA NextTypeOK == JInv /\ [Next]_vars => TypeOK'
<1> SUFFICES ASSUME JInv, [Next]_vars PROVE TypeOK'
    OBVIOUS
<1> USE ServerAssumption DEF JInv, history
<1>1. CASE StartLoop
    BY <1>1 DEF StartLoop, TypeOK, connVars, kernelVars, Pool
<1>2. CASE Wait
    <2>1. mpc' \in {"start", "asleep"} /\ eventLoop' \in Seq(Pool) /\ Len(eventLoop') <= size
        <3>1. IInv'
            BY NextIInv DEF IInv, StartTypes, TypeOK
        <3> QED
            BY <1>2, <3>1 DEF Wait, IInv, StartTypes
    <2> QED
        BY <1>2, <2>1 DEF Wait, TypeOK, connVars, kernelVars
<1>3. ASSUME NEW l \in Pool, Publish(l) \/ BeginLoop(l) PROVE TypeOK'
    BY <1>3 DEF Publish, BeginLoop, TypeOK, connVars, kernelVars
<1>4. CASE Serve \/ Spurious \/ SetForwarding \/ SetConnected
    BY <1>4 DEF Serve, Spurious, SetForwarding, SetConnected, TypeOK, Place, Accepting,
                startVars, connVars, kernelVars
<1>5. CASE SetCallBack
    <2>1. equipped[conn] + 1 \in 0 .. Len(CallBacks) /\ mpc' \in {"connect", "equip"}
        BY <1>5, TheWords DEF SetCallBack, TypeOK, Place, Accepting
    <2> QED
        BY <1>5, <2>1 DEF SetCallBack, TypeOK, startVars, kernelVars
<1>6. CASE TellConnected
    <2>1. conn \in Conns
        BY <1>6 DEF TellConnected, TypeOK, Place, Accepting
    <2>2. log' \in [Conns -> Stories]
        BY <1>6, <2>1, ToldAdds, TheWords DEF TellConnected
    <2> QED
        BY <1>6, <2>2 DEF TellConnected, TypeOK, startVars, kernelVars
<1>7. ASSUME NEW l \in Loops, Tells(l) PROVE TypeOK'
    <2> DEFINE c == closing[l]
               what == IF c \notin told THEN Seen(c)
                       ELSE IF c \in reset THEN "error" ELSE "closed"
    <2>1. /\ c \in Conns /\ log' \in [Conns -> Stories]
          /\ IF c \notin told
             THEN told' = told \cup {c} /\ UNCHANGED closing
             ELSE closing' = [closing EXCEPT ![l] = None] /\ UNCHANGED told
        BY <1>7, TellsAdd
    <2> HIDE DEF c
    <2>2. closing' \in [Loops -> Conns \cup {None}] /\ told' \subseteq Conns
        BY <2>1 DEF TypeOK
    <2> QED
        BY <1>7, <2>1, <2>2 DEF Tells, TellDown, TellEnd, TypeOK, startVars, kernelVars
<1>8. ASSUME NEW c \in Conns, Accept(c) PROVE TypeOK'
    <2>1. next' = GetNext /\ next' \in Nat /\ (next' = 0 \/ next' < size)
        BY <1>8, NextLoop DEF Accept, TypeOK
    <2>2. (IF size = 0 THEN 0 ELSE eventLoop[next' + 1]) \in Loops
        BY <1>8, <2>1, NextLoop DEF Accept, TypeOK, Place, Loops
    <2>3. home' \in [Conns -> Loops \cup {None}]
        BY <1>8, <2>2 DEF Accept, TypeOK
    <2> QED
        BY <1>8, <2>1, <2>3 DEF Accept, TypeOK, startVars, kernelVars
<1>9. ASSUME NEW c \in Conns,
             Register(c) \/ HandleInVain(c) \/ Arrive(c) \/ HangUp(c) \/ PeerResets(c)
      PROVE  TypeOK'
    BY <1>9 DEF Register, HandleInVain, Arrive, HangUp, PeerResets, Early, TypeOK, startVars, kernelVars
<1>10. ASSUME NEW c \in Conns, ReadData(c) PROVE TypeOK'
    <2>1. log' \in [Conns -> Stories]
        BY <1>10, ToldAdds, TheWords DEF ReadData
    <2>2. reads' \in [Conns -> Nat] /\ early' \subseteq Conns /\ data' \subseteq Conns
        BY <1>10 DEF ReadData, Early, TypeOK
    <2> QED
        BY <1>10, <2>1, <2>2 DEF ReadData, TypeOK, startVars
<1>11. ASSUME NEW c \in Conns, CloseHandel(c) \/ ErrorHandel(c) PROVE TypeOK'
    <2>1. PICK what \in {"close", "error"} : Leave(c, what)
        BY <1>11 DEF CloseHandel, ErrorHandel
    <2>2. watched' \subseteq Conns /\ deafened' \subseteq Conns /\ early' \subseteq Conns
        BY <2>1 DEF Leave, Early, TypeOK
    <2>3. /\ state' \in [Conns -> {"connecting", "connected", "close", "error"}]
          /\ closing' \in [Loops -> Conns \cup {None}] /\ closed' \subseteq Conns
        BY <2>1 DEF Leave, TypeOK
    <2> QED
        BY <2>1, <2>2, <2>3 DEF Leave, TypeOK, startVars
<1>12. CASE UNCHANGED vars
    BY <1>12 DEF vars, startVars, connVars, kernelVars, TypeOK
<1> QED
    BY <1>1, <1>2, <1>3, <1>4, <1>5, <1>6, <1>7, <1>8, <1>9, <1>10, <1>11, <1>12
    DEF Next, Main, Thread, Serves

\* Every step of handelAccept leaves the server's thread where the next one starts.
LEMMA NextPlace == JInv /\ [Next]_vars => Place'
<1> SUFFICES ASSUME JInv, [Next]_vars PROVE Place'
    OBVIOUS
<1> USE ServerAssumption DEF JInv, Place, Accepting, history
<1>1. CASE StartLoop \/ Wait \/ Serve \/ Spurious
    BY <1>1 DEF StartLoop, Wait, Serve, Spurious, startVars, connVars
<1>2. ASSUME NEW l \in Pool, Publish(l) \/ BeginLoop(l) PROVE Place'
    BY <1>2 DEF Publish, BeginLoop, connVars
<1>3. CASE SetConnected \/ TellConnected
    BY <1>3 DEF SetConnected, TellConnected, startVars, TypeOK
<1>4. CASE SetForwarding
    <2>1. equipped[conn] < Len(CallBacks)
        BY <1>4, TheWords DEF SetForwarding
    <2> QED
        BY <1>4, <2>1 DEF SetForwarding, startVars, TypeOK
<1>5. CASE SetCallBack
    <2>1. /\ conn \in Conns /\ mpc = "equip" /\ equipped[conn] \in 0 .. 4 /\ equipped[conn] < 4
          /\ equipped'[conn] = equipped[conn] + 1
          /\ UNCHANGED <<startVars, conn, home, closing>>
        BY <1>5, TheWords DEF SetCallBack, TypeOK
    <2>2. mpc' = IF equipped[conn] + 1 = 4 THEN "connect" ELSE "equip"
        BY <1>5, TheWords DEF SetCallBack
    <2> QED
        BY <2>1, <2>2, TheWords DEF startVars
<1>6. ASSUME NEW l \in Loops, Tells(l) PROVE Place'
    BY <1>6 DEF Tells, TellDown, TellEnd, startVars, TypeOK, Loops
<1>7. ASSUME NEW c \in Conns, Accept(c) PROVE Place'
    <2>1. home'[c] # None
        BY <1>7, NextLoop DEF Accept, TypeOK, Pool, Loops
    <2>2. equipped[c] = 0 /\ conn' = c /\ mpc' = "forward" /\ mpc = "serve"
          /\ UNCHANGED <<size, eventLoop, equipped, closing>>
        BY <1>7 DEF Accept, Known, startVars
    <2> QED
        BY <1>7, <2>1, <2>2 DEF Accept, TypeOK
<1>8. ASSUME NEW c \in Conns, CloseHandel(c) \/ ErrorHandel(c) PROVE Place'
    <2>1. PICK what \in {"close", "error"} : Leave(c, what)
        BY <1>8 DEF CloseHandel, ErrorHandel
    <2>2. UNCHANGED <<mpc, conn, eventLoop, size, home, equipped>>
        BY <2>1 DEF Leave, startVars
    <2>3. mpc # "serve" => closing'[0] = None
        BY <2>1 DEF Leave, Handles, Free, TypeOK
    <2> QED
        BY <2>2, <2>3
<1>9. ASSUME NEW c \in Conns,
             \/ Register(c) \/ ReadData(c) \/ HandleInVain(c)
             \/ Arrive(c) \/ HangUp(c) \/ PeerResets(c)
      PROVE  Place'
    BY <1>9 DEF Register, ReadData, HandleInVain, Arrive, HangUp, PeerResets, startVars
<1>10. CASE UNCHANGED vars
    BY <1>10 DEF vars, startVars, connVars
<1> QED
    BY <1>1, <1>2, <1>3, <1>4, <1>5, <1>6, <1>7, <1>8, <1>9, <1>10
    DEF Next, Main, Thread, Serves

\* Every connection stays known.
LEMMA NextKnown == JInv /\ [Next]_vars => Known'
<1> SUFFICES ASSUME JInv, [Next]_vars PROVE Known'
    OBVIOUS
<1> USE ServerAssumption DEF JInv, Known, history
<1>1. CASE StartLoop \/ Wait \/ Serve \/ Spurious
    BY <1>1 DEF StartLoop, Wait, Serve, Spurious, startVars, connVars, kernelVars
<1>2. ASSUME NEW l \in Pool, Publish(l) \/ BeginLoop(l) PROVE Known'
    BY <1>2 DEF Publish, BeginLoop, connVars, kernelVars
<1>3. CASE SetForwarding \/ SetConnected
    BY <1>3 DEF SetForwarding, SetConnected, startVars, kernelVars
<1>4. CASE SetCallBack
    <2>1. conn \in Conns /\ home[conn] # None
        BY <1>4 DEF SetCallBack, Place, Accepting, TypeOK
    <2>2. \A c \in Conns \ {conn} : equipped'[c] = equipped[c]
        BY <1>4 DEF SetCallBack, TypeOK
    <2> QED
        BY <1>4, <2>1, <2>2 DEF SetCallBack, startVars, kernelVars
<1>5. CASE TellConnected
    <2>1. conn \in Conns /\ home[conn] # None /\ equipped[conn] = Len(CallBacks)
        BY <1>5 DEF TellConnected, Place, Accepting, TypeOK
    <2>2. \A c \in Conns : home[c] = None => log'[c] = <<>>
        BY <1>5, <2>1 DEF TellConnected, Told, TypeOK
    <2> QED
        BY <1>5, <2>1, <2>2 DEF TellConnected, startVars, kernelVars
<1>6. ASSUME NEW l \in Loops, Tells(l) PROVE Known'
    <2> DEFINE c == closing[l]
               what == IF c \notin told THEN Seen(c)
                       ELSE IF c \in reset THEN "error" ELSE "closed"
    <2>1. /\ c \in Conns /\ \A d \in Conns \ {c} : log'[d] = log[d]
          /\ IF c \notin told
             THEN told' = told \cup {c} /\ UNCHANGED closing
             ELSE closing' = [closing EXCEPT ![l] = None] /\ UNCHANGED told
        BY <1>6, TellsAdd
    <2>2. home[c] = l /\ c \in closed
        BY <2>1
    <2> HIDE DEF c
    <2>3. home[c] # None
        BY <2>2 DEF Loops, Pool
    <2>4. \A k \in Loops : closing'[k] \in {closing[k], None}
        BY <2>1 DEF TypeOK
    <2>5. told' \subseteq told \cup {c}
        BY <2>1
    <2>6. UNCHANGED <<size, home, posted, watched, equipped, conn, closed, hungUp, reset>>
        BY <1>6 DEF Tells, TellDown, TellEnd, startVars, kernelVars
    <2> QED
        BY <2>1, <2>2, <2>3, <2>4, <2>5, <2>6
<1>7. ASSUME NEW c \in Conns, Accept(c) PROVE Known'
    <2>1. /\ home'[c] \in Loops /\ (size = 0 => home'[c] = 0)
          /\ \A d \in Conns \ {c} : home'[d] = home[d]
        BY <1>7, NextLoop DEF Accept, TypeOK, Place, Loops
    <2>2. /\ c \notin closed /\ c \notin posted \cup watched /\ c \notin told
          /\ \A l \in Loops : closing[l] # c
        BY <1>7 DEF Accept, Loops, Pool
    <2>3. /\ conn' = c /\ conn = None
          /\ posted' \subseteq posted \cup {c} /\ watched' \subseteq watched \cup {c}
          /\ posted' = posted \/ watched' = watched
          /\ UNCHANGED <<size, equipped, closed, closing, log, told, hungUp, reset>>
        BY <1>7 DEF Accept, startVars, kernelVars, Place, Accepting
    <2> QED
        BY <2>1, <2>2, <2>3 DEF Loops, Pool
<1>8. ASSUME NEW c \in Conns, Register(c) PROVE Known'
    BY <1>8 DEF Register, startVars, kernelVars, TypeOK
<1>9. ASSUME NEW c \in Conns, ReadData(c) PROVE Known'
    BY <1>9 DEF ReadData, Told, Handles, startVars, TypeOK
<1>10. ASSUME NEW c \in Conns, CloseHandel(c) \/ ErrorHandel(c) PROVE Known'
    <2>1. PICK what : Leave(c, what) /\ c \in hungUp \cup reset
        BY <1>10 DEF CloseHandel, ErrorHandel
    <2>2. /\ c \in watched /\ watched' \subseteq watched \ {c}
          /\ closed' = closed \cup {c} /\ closing' = [closing EXCEPT ![home[c]] = c]
          /\ UNCHANGED <<size, home, posted, equipped, conn, log, told, hungUp, reset>>
        BY <2>1 DEF Leave, Handles, startVars
    <2>3. \A l \in Loops : closing'[l] = closing[l] \/ (closing'[l] = c /\ l = home[c])
        BY <2>2 DEF TypeOK
    <2> QED
        BY <2>1, <2>2, <2>3
<1>11. ASSUME NEW c \in Conns, HandleInVain(c) \/ Arrive(c) \/ HangUp(c) \/ PeerResets(c)
       PROVE  Known'
    BY <1>11 DEF HandleInVain, Arrive, HangUp, PeerResets, startVars, kernelVars
<1>12. CASE UNCHANGED vars
    BY <1>12 DEF vars, startVars, connVars, kernelVars
<1> QED
    BY <1>1, <1>2, <1>3, <1>4, <1>5, <1>6, <1>7, <1>8, <1>9, <1>10, <1>11, <1>12
    DEF Next, Main, Thread, Serves

\* A connection that is read from or begins to close has not been closed before.
LEMMA HandledIsOpen ==
    ASSUME JInv, NEW c \in Conns, Handles(c)
    PROVE  /\ c \notin closed /\ c \notin told /\ home[c] \in Loops
           /\ closing[home[c]] = None
BY ServerAssumption DEF JInv, Known, Handles, Free, TypeOK

\* No end is told too early, twice, or before something that was read.
LEMMA NextConcluded == JInv /\ [Next]_vars => Concluded'
<1> SUFFICES ASSUME JInv, [Next]_vars PROVE Concluded'
    OBVIOUS
<1> USE ServerAssumption DEF JInv
<1>1. ASSUME UNCHANGED <<conn, home, closed, closing, log>> PROVE Concluded'
    BY <1>1 DEF Concluded
<1>2. CASE \/ StartLoop \/ Wait \/ Serve \/ Spurious
           \/ SetForwarding \/ SetCallBack \/ SetConnected
    BY <1>1, <1>2 DEF StartLoop, Wait, Serve, Spurious, SetForwarding, SetCallBack, SetConnected,
                      startVars, connVars, kernelVars, history
<1>3. ASSUME NEW l \in Pool, Publish(l) \/ BeginLoop(l) PROVE Concluded'
    BY <1>1, <1>3 DEF Publish, BeginLoop, connVars, kernelVars, history
<1>4. CASE TellConnected
    <2>1. conn \in Conns /\ home[conn] # None
        BY <1>4 DEF TellConnected, TypeOK, Place, Accepting
    <2>2. /\ conn' = None /\ UNCHANGED <<home, closed, closing>>
          /\ Told(conn, 1, Seen(conn))
        BY <1>4 DEF TellConnected, kernelVars
    <2>3. /\ \A d \in Conns \ {conn} : log'[d] = log[d]
          /\ log'[conn] \in {log[conn], Append(log[conn], Seen(conn))}
          /\ log[conn] \in Seq(Words) /\ Seen(conn) \in Connects /\ Seen(conn) \in Words
        <3>1. Seen(conn) \in Connects /\ Seen(conn) \in Words /\ 1 \in 1 .. Len(CallBacks)
            BY TheWords
        <3> QED
            BY <2>1, <2>2, <3>1, ToldAdds
    <2>4. EndLast(log[conn]) /\ EndsOnce(log[conn])
        BY <2>1 DEF Concluded
    <2>5. EndsOnce(log'[conn])
        BY <2>3, <2>4, EndsGoOn
    <2>6. NoEnd(log[conn]) => NoEnd(log'[conn])
        BY <2>3, EndsGoOn, TheWords
    <2>7. \A c \in Conns : c # conn'
        BY <2>2
    <2>8. ASSUME NEW c \in Conns
          PROVE  /\ c \notin closed \/ closing[home[c]] = c => NoEnd(log'[c])
                 /\ EndsOnce(log'[c])
        BY <2>1, <2>3, <2>5, <2>6 DEF Concluded
    <2> QED
        BY <2>2, <2>7, <2>8 DEF Concluded
<1>5. ASSUME NEW l \in Loops, Tells(l) PROVE Concluded'
    <2> DEFINE c == closing[l]
               what == IF c \notin told THEN Seen(c)
                       ELSE IF c \in reset THEN "error" ELSE "closed"
    <2>1. /\ c \in Conns /\ what \in Words
          /\ \A d \in Conns \ {c} : log'[d] = log[d]
          /\ log'[c] \in {log[c], Append(log[c], what)}
          /\ log[c] \in Seq(Words)
          /\ IF c \notin told
             THEN told' = told \cup {c} /\ UNCHANGED closing
             ELSE closing' = [closing EXCEPT ![l] = None] /\ UNCHANGED told
        BY <1>5, TellsAdd
    <2>2. home[c] = l /\ c \in closed /\ closing[home[c]] = c
        BY <2>1 DEF Known
    <2>3. what \notin Ends \/ c \in told
        BY TheWords
    <2>4. UNCHANGED <<conn, home, closed>>
        BY <1>5 DEF Tells, TellDown, TellEnd, kernelVars
    <2> HIDE DEF c, what
    <2>5. NoEnd(log[c])
        BY <2>1, <2>2 DEF Concluded
    <2>6. EndLast(log'[c]) /\ EndsOnce(log'[c])
        <3>1. EndLast(log[c]) /\ EndLast(Append(log[c], what)) /\ EndsOnce(log[c])
            BY <2>1, <2>5, EndsGoOn
        <3>2. Append(log[c], what) \in Seq(Words)
            BY <2>1
        <3>3. EndLast(log'[c]) /\ log'[c] \in Seq(Words)
            BY <2>1, <3>1, <3>2
        <3> QED
            BY <2>1, <3>3, EndsGoOn
    <2>7. closing'[home[c]] = c => NoEnd(log'[c])
        <3>1. CASE c \in told
            <4>1. closing'[home[c]] = None
                BY <2>1, <2>2, <3>1 DEF TypeOK
            <4> QED
                BY <2>1, <4>1
        <3>2. CASE c \notin told
            BY <2>1, <2>3, <2>5, <3>2, EndsGoOn
        <3> QED
            BY <3>1, <3>2
    <2>8. ASSUME NEW d \in Conns, d # c, d \in closed
          PROVE  closing'[home[d]] = d => closing[home[d]] = d
        <3>1. home[d] \in Loops
            BY <2>8 DEF Known, TypeOK
        <3>2. closing'[home[d]] \in {closing[home[d]], None}
            BY <2>1, <3>1 DEF TypeOK
        <3> QED
            BY <2>8, <3>2
    <2>9. ASSUME NEW d \in Conns
          PROVE  /\ d \notin closed \/ closing'[home[d]] = d => NoEnd(log'[d])
                 /\ d = conn => EndLast(log'[d])
                 /\ EndsOnce(log'[d])
        BY <2>1, <2>2, <2>6, <2>7, <2>8 DEF Concluded
    <2> QED
        BY <2>4, <2>9 DEF Concluded
<1>6. ASSUME NEW c \in Conns, Accept(c) PROVE Concluded'
    <2>1. /\ conn' = c /\ home[c] = None
          /\ \A d \in Conns \ {c} : home'[d] = home[d]
          /\ UNCHANGED <<closed, closing, log>>
        BY <1>6 DEF Accept, kernelVars, TypeOK, history
    <2>2. log[c] = <<>>
        BY <2>1 DEF Known
    <2>3. NoEnd(log[c]) /\ EndLast(log[c]) /\ EndsOnce(log[c])
        BY <2>2 DEF NoEnd, EndLast, EndsOnce
    <2>4. ASSUME NEW d \in Conns
          PROVE  /\ d \notin closed \/ closing[home'[d]] = d => NoEnd(log[d])
                 /\ d = c => EndLast(log[d])
                 /\ EndsOnce(log[d])
        BY <2>1, <2>3 DEF Concluded
    <2> QED
        BY <2>1, <2>4 DEF Concluded
<1>7. ASSUME NEW c \in Conns, Register(c) \/ Arrive(c) \/ HangUp(c) \/ PeerResets(c) \/ HandleInVain(c)
      PROVE Concluded'
    BY <1>1, <1>7 DEF Register, Arrive, HangUp, PeerResets, HandleInVain, kernelVars, history
<1>8. ASSUME NEW c \in Conns, ReadData(c) PROVE Concluded'
    <2>1. /\ Handles(c) /\ Told(c, 2, "read")
          /\ UNCHANGED <<conn, home, closed, closing>>
        BY <1>8 DEF ReadData
    <2>2. /\ \A d \in Conns \ {c} : log'[d] = log[d]
          /\ log'[c] \in {log[c], Append(log[c], "read")}
          /\ log[c] \in Seq(Words) /\ "read" \in Words /\ "read" \notin Ends
        <3>1. "read" \in Words /\ "read" \notin Ends /\ 2 \in 1 .. Len(CallBacks)
            BY TheWords
        <3> QED
            BY <2>1, <3>1, ToldAdds
    <2>3. NoEnd(log[c])
        BY <2>1, HandledIsOpen DEF Concluded
    <2>4. NoEnd(Append(log[c], "read")) /\ Append(log[c], "read") \in Seq(Words)
        BY <2>2, <2>3, EndsGoOn
    <2>5. NoEnd(log'[c]) /\ log'[c] \in Seq(Words)
        BY <2>2, <2>3, <2>4
    <2>6. EndLast(log'[c]) /\ EndsOnce(log'[c])
        BY <2>2, <2>5, EndsGoOn
    <2>7. ASSUME NEW d \in Conns
          PROVE  /\ d \notin closed \/ closing[home[d]] = d => NoEnd(log'[d])
                 /\ d = conn => EndLast(log'[d])
                 /\ EndsOnce(log'[d])
        BY <2>2, <2>5, <2>6 DEF Concluded
    <2> QED
        BY <2>1, <2>7 DEF Concluded
<1>9. ASSUME NEW c \in Conns, CloseHandel(c) \/ ErrorHandel(c) PROVE Concluded'
    <2>1. PICK what : Leave(c, what)
        BY <1>9 DEF CloseHandel, ErrorHandel
    <2>2. /\ Handles(c) /\ closed' = closed \cup {c}
          /\ closing' = [closing EXCEPT ![home[c]] = c]
          /\ UNCHANGED <<conn, home, log>>
        BY <2>1 DEF Leave
    <2>3. c \notin closed /\ closing[home[c]] = None
        BY <2>2, HandledIsOpen
    <2>4. ASSUME NEW d \in Conns, d # c PROVE closing'[home[d]] = d => closing[home[d]] = d
        BY <2>2, <2>4 DEF TypeOK
    <2>5. ASSUME NEW d \in Conns
          PROVE  d \notin closed' \/ closing'[home[d]] = d => NoEnd(log[d])
        BY <2>2, <2>3, <2>4 DEF Concluded
    <2> QED
        BY <2>2, <2>5 DEF Concluded
<1>10. CASE UNCHANGED vars
    BY <1>1, <1>10 DEF vars, startVars, connVars, kernelVars, history
<1> QED
    BY <1>2, <1>3, <1>4, <1>5, <1>6, <1>7, <1>8, <1>9, <1>10
    DEF Next, Main, Thread, Serves

\* What the user of a connection is told stays in order.
LEMMA NextOrderly == JInv /\ [Next]_vars => Orderly'
<1> SUFFICES ASSUME JInv, [Next]_vars PROVE Orderly'
    OBVIOUS
<1> USE ServerAssumption DEF JInv
<1>1. ASSUME UNCHANGED <<size, early, conn, home, state, closed, closing, told, log, reset>>,
             mpc' = mpc \/ mpc' # "tell"
      PROVE  Orderly'
    BY <1>1 DEF Orderly, Fresh, Heard, Gone, Rightly
<1>2. CASE StartLoop \/ Wait \/ Serve \/ Spurious \/ SetForwarding \/ SetCallBack
    BY <1>1, <1>2 DEF StartLoop, Wait, Serve, Spurious, SetForwarding, SetCallBack,
                      startVars, connVars, kernelVars, history
<1>3. ASSUME NEW l \in Pool, Publish(l) \/ BeginLoop(l) PROVE Orderly'
    BY <1>1, <1>3 DEF Publish, BeginLoop, connVars, kernelVars, history
<1>4. CASE SetConnected
    <2>1. /\ conn \in Conns /\ state' = [state EXCEPT ![conn] = "connected"]
          /\ UNCHANGED <<size, early, conn, home, closed, closing, told, log, reset>>
        BY <1>4 DEF SetConnected, TypeOK, Place, Accepting, startVars, kernelVars, history
    <2>2. ASSUME NEW c \in Conns, size = 0 \/ c \notin early, home[c] # None, c # conn PROVE Heard(c)'
        BY <2>1, <2>2 DEF Orderly, Heard, Gone, Rightly, TypeOK
    <2>3. ASSUME size = 0 \/ conn \notin early PROVE Fresh(conn)'
        BY <2>1, <2>3 DEF Orderly, Fresh, TypeOK
    <2> QED
        BY <2>1, <2>2, <2>3 DEF Orderly
<1>5. CASE TellConnected
    <2>1. conn \in Conns /\ home[conn] # None /\ equipped[conn] = Len(CallBacks)
        BY <1>5 DEF TellConnected, TypeOK, Place, Accepting
    <2>2. /\ conn' = None /\ mpc = "tell" /\ mpc' = "serve"
          /\ UNCHANGED <<size, early, home, state, closed, closing, told, reset>>
          /\ Told(conn, 1, Seen(conn))
        BY <1>5 DEF TellConnected, startVars, kernelVars
    <2>3. /\ \A d \in Conns \ {conn} : log'[d] = log[d]
          /\ log'[conn] = Append(log[conn], Seen(conn))
        <3>1. Seen(conn) \in Words /\ 1 \in 1 .. Len(CallBacks) /\ 1 <= equipped[conn]
            BY <2>1, TheWords
        <3> QED
            BY <2>1, <2>2, <3>1, ToldAdds
    <2>4. ASSUME NEW c \in Conns, size = 0 \/ c \notin early, home[c] # None PROVE Heard(c)'
        <3>1. CASE c = conn
            <4>1. log[c] = <<>> /\ c \notin closed /\ state[c] = "connected"
                BY <2>2, <2>4, <3>1 DEF Orderly, Fresh
            <4>2. log'[c] = <<"up">>
                BY <2>3, <3>1, <4>1 DEF Seen
            <4>3. Open(log'[c])
                BY <4>2 DEF Open
            <4> QED
                BY <2>2, <4>1, <4>3 DEF Heard
        <3>2. CASE c # conn
            BY <2>2, <2>3, <2>4, <3>2 DEF Orderly, Heard, Gone, Rightly
        <3> QED
            BY <3>1, <3>2
    <2> QED
        BY <2>2, <2>4 DEF Orderly, Fresh
<1>6. ASSUME NEW l \in Loops, Tells(l) PROVE Orderly'
    <2>5. PICK d : closing[l] = d
        OBVIOUS
    <2>4. PICK what : what = IF d \notin told THEN Seen(d)
                             ELSE IF d \in reset THEN "error" ELSE "closed"
        OBVIOUS
    <2>1. /\ d \in Conns /\ what \in Words
          /\ \A c \in Conns \ {d} : log'[c] = log[c]
          /\ equipped[d] = Len(CallBacks) => log'[d] = Append(log[d], what)
          /\ log[d] \in Seq(Words)
          /\ IF d \notin told
             THEN told' = told \cup {d} /\ UNCHANGED closing
             ELSE closing' = [closing EXCEPT ![l] = None] /\ UNCHANGED told
        BY <1>6, <2>4, <2>5, TellsAdd
    <2>2. home[d] = l /\ d \in closed
        BY <2>1, <2>5 DEF Known
    <2>3. UNCHANGED <<size, early, conn, mpc, home, state, closed, reset>>
        BY <1>6 DEF Tells, TellDown, TellEnd, startVars, kernelVars
    <2>6. ASSUME NEW c \in Conns, size = 0 \/ c \notin early, c # d PROVE
                 /\ c = conn => Fresh(c)'
                 /\ home[c] # None /\ c # conn => Heard(c)'
        <3>1. c = conn => Fresh(c)'
            BY <2>1, <2>3, <2>6 DEF Orderly, Fresh
        <3>2. ASSUME home[c] # None, c # conn PROVE Heard(c)'
            <4>1. home[c] \in Loops /\ Heard(c)
                BY <2>6, <3>2 DEF Orderly, TypeOK
            <4>2. closing'[home[c]] = c <=> closing[home[c]] = c
                <5>1. CASE home[c] = l
                    <6>1. closing'[l] # c /\ closing[l] # c
                        BY <2>1, <2>5, <2>6 DEF TypeOK
                    <6> QED
                        BY <5>1, <6>1
                <5>2. CASE home[c] # l
                    BY <2>1, <4>1, <5>2 DEF TypeOK
                <5> QED
                    BY <5>1, <5>2
            <4>3. (c \in told' <=> c \in told) /\ log'[c] = log[c]
                BY <2>1, <2>6
            <4> QED
                BY <2>3, <4>1, <4>2, <4>3 DEF Heard, Gone, Rightly
        <3> QED
            BY <3>1, <3>2
    <2>7. ASSUME size = 0 \/ d \notin early PROVE d # conn /\ Heard(d)'
        <3>1. d # conn /\ home[d] # None
            BY <2>1, <2>2, <2>7 DEF Orderly, Fresh, Loops, Pool
        <3>2. Heard(d) /\ equipped[d] = Len(CallBacks)
            BY <2>1, <2>7, <3>1 DEF Orderly, Known
        <3>3. log'[d] = Append(log[d], what) /\ Gone(d) /\ closing[home[d]] = d
            BY <2>1, <2>2, <2>5, <3>2 DEF Heard
        <3>6. Gone(d)' /\ home' = home
            BY <2>3, <3>3 DEF Gone
        <3>4. CASE d \notin told
            <4>1. Open(log[d])
                BY <3>2, <3>3, <3>4 DEF Heard
            <4>2. what = "down"
                BY <2>4, <3>3, <3>4 DEF Seen, Gone
            <4>3. Down(log'[d])
                BY <2>1, <3>3, <4>1, <4>2, StoryGoesOn, TheWords DEF Ends
            <4>4. d \in told' /\ closing'[home[d]] = d
                BY <2>1, <3>3, <3>4
            <4> QED
                BY <3>1, <3>6, <4>3, <4>4 DEF Heard
        <3>5. CASE d \in told
            <4>1. Down(log[d])
                BY <3>2, <3>3, <3>5 DEF Heard, Gone
            <4>2. what \in Ends /\ what = IF d \in reset THEN "error" ELSE "closed"
                BY <2>4, <3>5 DEF Ends
            <4>3. Ended(log'[d])
                BY <2>1, <3>3, <4>1, <4>2, StoryGoesOn
            <4>4. log'[d][Len(log'[d])] = what
                BY <2>1, <3>3
            <4>5. closing'[home[d]] # d
                BY <2>1, <2>2, <3>5 DEF TypeOK
            <4>6. Rightly(d)'
                BY <2>3, <4>2, <4>4 DEF Rightly
            <4> QED
                BY <3>1, <3>6, <4>3, <4>5, <4>6 DEF Heard
        <3> QED
            BY <3>1, <3>4, <3>5
    <2> QED
        BY <2>1, <2>3, <2>6, <2>7 DEF Orderly
<1>7. ASSUME NEW c \in Conns, Accept(c) PROVE Orderly'
    <2>1. /\ conn' = c /\ conn = None /\ mpc' = "forward" /\ home[c] = None
          /\ \A d \in Conns \ {c} : home'[d] = home[d]
          /\ UNCHANGED <<size, early, state, closed, closing, told, log, reset>>
        BY <1>7 DEF Accept, startVars, kernelVars, history, Place, Accepting, TypeOK
    <2>2. log[c] = <<>> /\ c \notin closed
        BY <2>1 DEF Known
    <2>3. ASSUME NEW d \in Conns, size = 0 \/ d \notin early, d # c, home[d] # None PROVE Heard(d)'
        BY <2>1, <2>3 DEF Orderly, Heard, Gone, Rightly
    <2> QED
        BY <2>1, <2>2, <2>3 DEF Orderly, Fresh
<1>8. ASSUME NEW c \in Conns, Register(c) \/ Arrive(c) \/ HangUp(c) PROVE Orderly'
    BY <1>1, <1>8 DEF Register, Arrive, HangUp, startVars, kernelVars, history
<1>9. ASSUME NEW c \in Conns, PeerResets(c) PROVE Orderly'
    <2>1. /\ UNCHANGED <<size, early, conn, home, state, closed, closing, told, log, mpc>>
          /\ reset' = reset \cup {c} /\ c \notin closed
        BY <1>9 DEF PeerResets, startVars, history
    <2>2. ASSUME NEW d \in Conns, size = 0 \/ d \notin early, d # conn, home[d] # None PROVE Heard(d)'
        <3>1. Heard(d)
            BY <2>2 DEF Orderly
        <3>2. d \in closed => (d \in reset' <=> d \in reset)
            BY <2>1
        <3> QED
            BY <2>1, <3>1, <3>2 DEF Heard, Gone, Rightly
    <2> QED
        BY <2>1, <2>2 DEF Orderly, Fresh
<1>10. ASSUME NEW c \in Conns, HandleInVain(c) PROVE Orderly'
    <2>1. /\ UNCHANGED <<size, conn, home, state, closed, closing, told, log, mpc, reset>>
          /\ early \subseteq early'
        BY <1>10 DEF HandleInVain, Early, startVars, kernelVars
    <2> QED
        BY <2>1 DEF Orderly, Fresh, Heard, Gone, Rightly
<1>11. ASSUME NEW c \in Conns, Handles(c), size = 0 \/ c \notin early \cup ({c} \cap {conn})
       PROVE  c # conn /\ home[c] # None
    BY <1>11 DEF Handles, Known, Free, Place, TypeOK, Accepting
<1>12. ASSUME NEW c \in Conns, ReadData(c) PROVE Orderly'
    <2>1. /\ Handles(c) /\ Told(c, 2, "read")
          /\ UNCHANGED <<size, conn, home, state, closed, closing, told, mpc, reset>>
          /\ early' = early \cup ({c} \cap {conn})
        BY <1>12 DEF ReadData, Early, startVars
    <2>2. /\ \A d \in Conns \ {c} : log'[d] = log[d]
          /\ log'[c] = IF 2 <= equipped[c] THEN Append(log[c], "read") ELSE log[c]
          /\ log[c] \in Seq(Words)
        <3>1. "read" \in Words /\ 2 \in 1 .. Len(CallBacks)
            BY TheWords
        <3> QED
            BY <2>1, <3>1, ToldAdds
    <2>3. c \notin closed
        BY <2>1, HandledIsOpen
    <2>4. ASSUME NEW d \in Conns, size = 0 \/ d \notin early', d # c PROVE
                 /\ d = conn => Fresh(d)'
                 /\ home[d] # None /\ d # conn => Heard(d)'
        BY <2>1, <2>2, <2>4 DEF Orderly, Fresh, Heard, Gone, Rightly
    <2>5. ASSUME size = 0 \/ c \notin early' PROVE c # conn /\ Heard(c)'
        <3>1. c # conn /\ home[c] # None
            BY <1>11, <2>1, <2>5
        <3>2. Heard(c) /\ equipped[c] = Len(CallBacks)
            BY <2>1, <2>5, <3>1 DEF Orderly, Known
        <3>3. state[c] = "connected" /\ Open(log[c])
            BY <2>3, <3>2 DEF Heard, Gone
        <3>4. 2 <= equipped[c]
            BY <3>2, TheWords
        <3>5. Open(log'[c])
            BY <2>2, <3>3, <3>4, StoryGoesOn, TheWords DEF Ends
        <3> QED
            BY <2>1, <2>3, <3>1, <3>3, <3>5 DEF Heard
    <2> QED
        BY <2>1, <2>4, <2>5 DEF Orderly
<1>13. ASSUME NEW c \in Conns, CloseHandel(c) \/ ErrorHandel(c) PROVE Orderly'
    <2>1. PICK what \in {"close", "error"} : Leave(c, what)
        BY <1>13 DEF CloseHandel, ErrorHandel
    <2>2. /\ Handles(c)
          /\ UNCHANGED <<size, conn, home, log, mpc, told, reset>>
          /\ early' = early \cup ({c} \cap {conn})
          /\ closed' = closed \cup {c}
          /\ state' = [state EXCEPT ![c] = what]
          /\ closing' = [closing EXCEPT ![home[c]] = c]
        BY <2>1 DEF Leave, Early, startVars
    <2>3. c \notin closed /\ c \notin told /\ home[c] \in Loops /\ closing[home[c]] = None
        BY <2>2, HandledIsOpen
    <2>4. ASSUME NEW d \in Conns, size = 0 \/ d \notin early', d # c PROVE
                 /\ d = conn => Fresh(d)'
                 /\ home[d] # None /\ d # conn => Heard(d)'
        <3>1. /\ (d \in closed' <=> d \in closed) /\ state'[d] = state[d]
              /\ home[d] # None => (closing'[home[d]] = d <=> closing[home[d]] = d)
            BY <2>2, <2>3, <2>4 DEF TypeOK
        <3> QED
            BY <2>2, <2>4, <3>1 DEF Orderly, Fresh, Heard, Gone, Rightly
    <2>5. ASSUME size = 0 \/ c \notin early' PROVE c # conn /\ Heard(c)'
        <3>1. c # conn /\ home[c] # None
            BY <1>11, <2>2, <2>5
        <3>2. Heard(c)
            BY <2>2, <2>5, <3>1 DEF Orderly
        <3>3. Open(log[c])
            BY <2>3, <3>2 DEF Heard, Gone
        <3>4. closing'[home[c]] = c /\ state'[c] \in {"close", "error"} /\ c \in closed'
            BY <2>2, <2>3 DEF TypeOK
        <3> QED
            BY <2>2, <2>3, <3>1, <3>3, <3>4 DEF Heard, Gone
    <2> QED
        BY <2>2, <2>4, <2>5 DEF Orderly
<1>14. CASE UNCHANGED vars
    BY <1>1, <1>14 DEF vars, startVars, connVars, kernelVars, history
<1> QED
    BY <1>2, <1>3, <1>4, <1>5, <1>6, <1>7, <1>8, <1>9, <1>10, <1>12, <1>13, <1>14
    DEF Next, Main, Thread, Serves

\* The parts together.
LEMMA NextJInv == JInv /\ [Next]_vars => JInv'
<1> SUFFICES ASSUME JInv, [Next]_vars PROVE JInv'
    OBVIOUS
<1>1. IInv
    BY DEF JInv, IInv, StartTypes, TypeOK
<1>2. EachItsOwnLoop' /\ OneAtATime'
    BY <1>1, NextIInv DEF IInv
<1> QED
    BY <1>2, NextTypeOK, NextPlace, NextKnown, NextConcluded, NextOrderly DEF JInv

\* A story that is open, down or ended is one ToldInOrder allows.
LEMMA OrderlyIsInOrder == JInv => ToldInOrder
<1> SUFFICES ASSUME JInv, NEW c \in Conns
             PROVE
        /\ EndsOnce(log[c])
        /\ size = 0 \/ c \notin early =>
              /\ InOrder(c, log[c])
              /\ log[c] # <<>> /\ c # conn /\ c \notin {closing[l] : l \in Loops} =>
                    (state[c] = "connected" <=> log[c][Len(log[c])] \notin Ends)
    BY DEF ToldInOrder
<1> USE ServerAssumption DEF JInv
<1>1. EndsOnce(log[c])
    BY DEF Concluded
<1> SUFFICES ASSUME size = 0 \/ c \notin early
             PROVE
        /\ InOrder(c, log[c])
        /\ log[c] # <<>> /\ c # conn /\ c \notin {closing[l] : l \in Loops} =>
              (state[c] = "connected" <=> log[c][Len(log[c])] \notin Ends)
    BY <1>1
<1> DEFINE s == log[c]
<1>2. s \in Seq(Words)
    BY DEF TypeOK, Stories, Words
<1>3. CASE s = <<>>
    BY <1>3 DEF InOrder
<1>4. CASE s # <<>>
    <2>1. home[c] # None /\ c # conn
        BY <1>4 DEF Known, Orderly, Fresh
    <2>2. Heard(c) /\ home[c] \in Loops
        BY <2>1 DEF Orderly, TypeOK
    <2>3. CASE c \notin closed /\ state[c] = "connected" /\ Open(s)
        BY <1>2, <1>4, <2>3 DEF InOrder, Open, Ends
    <2>4. CASE Gone(c) /\ closing[home[c]] = c /\ Open(s)
        BY <1>2, <1>4, <2>2, <2>4 DEF InOrder, Open, Ends
    <2>5. CASE Gone(c) /\ closing[home[c]] = c /\ Down(s)
        BY <1>2, <1>4, <2>2, <2>5 DEF InOrder, Down, Ends
    <2>6. CASE Gone(c) /\ closing[home[c]] # c /\ Ended(s) /\ Rightly(c)
        <3>1. s[Len(s)] = IF c \in reset THEN "error" ELSE "closed"
            BY <2>6 DEF Rightly
        <3>2. c \in hungUp \cup reset
            BY <2>6 DEF Gone, Known
        <3> HIDE DEF s
        <3>3. InOrder(c, s)
            BY <1>2, <2>6, <3>1, <3>2 DEF InOrder, Ended, Ends
        <3>4. s[Len(s)] \in Ends /\ state[c] # "connected"
            BY <2>6 DEF Ended, Gone
        <3> QED
            BY <3>3, <3>4 DEF s
    <2> QED
        BY <2>2, <2>3, <2>4, <2>5, <2>6 DEF Heard
<1> QED
    BY <1>3, <1>4

\* The variables of the server, its loops and connections keep their types; among
\* other things getNext always names a loop of the pool.
THEOREM TypeCorrect == Spec => []TypeOK
<1>1. JInv => TypeOK
    BY DEF JInv
<1> QED
    BY <1>1, InitJInv, NextJInv, PTL DEF Spec

\* For any number of connections and loops, and with removals that may unwatch other
\* connections: whatever happens while handelAccept is still at work, the user hears
\* of the end of a connection once and of nothing read after it; and if nothing
\* happens that early, or on a single loop, everything in order, with closeCallBack
\* after the peer has closed and errorCallBack after it has reset the connection.
THEOREM UserIsToldInOrder == Spec => []ToldInOrder
BY InitJInv, NextJInv, OrderlyIsInOrder, PTL DEF Spec
=============================================================================
