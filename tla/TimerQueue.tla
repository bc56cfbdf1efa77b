----------------------------- MODULE TimerQueue -----------------------------
(***************************************************************************)
(* fm/TimerQueue and fm/Timer: the timers of one loop, kept in the order   *)
(* in which they expire, over a single timerfd.                            *)
(*                                                                         *)
(* Time is counted from now: left[t] is what remains until timer t is due, *)
(* and timerfd what remains until the descriptor becomes readable.  The    *)
(* two clocks of the code, system_clock and CLOCK_MONOTONIC, advance here  *)
(* together.                                                               *)
(*                                                                         *)
(* The specification and its parts have names of their own: RetryProofs    *)
(* extends this module and Connector, whose retries wait here.             *)
(***************************************************************************)
EXTENDS Integers, Sequences, SequencesExt

CONSTANTS Timers,  \* Timer objects, by their addresses, each allocated once
          Delays   \* what addTimer is called with; zero is left out

Disarmed == -1     \* of timerfd
MaxDelay == CHOOSE d \in Delays : \A e \in Delays : e <= d

ASSUME TimerQueueAssumption ==
    /\ Timers \subseteq Nat
    /\ Delays \subseteq Nat \ {0} /\ \E d \in Delays : \A e \in Delays : e <= d

VARIABLES
    pc,        \* the loop thread: at "poll", in the handlers of other channels
               \* ("dispatch"), in TimeOut, or there in a "callback"
    timer_set, \* the timers in the order of the std::set
    left,      \* time until timeStamp, zero when it has passed
    delay,     \* of each timer, zero before it is made
    recycle,   \* of each timer
    timerfd,   \* time until it is readable, or Disarmed
    posted,    \* the CreateTimer calls that other threads have posted
    ran,       \* history: the timers whose callback was called
    orderly    \* history: every timer that was added was a single one that is not
               \* due before those already there, nor could be armed before them

timers == <<timer_set, left, delay, recycle>>
timerVars == <<pc, timers, timerfd, posted, ran, orderly>>

TimersInit ==
    /\ pc = "poll"
    /\ timer_set = <<>>
    /\ left = [t \in Timers |-> 0] /\ delay = [t \in Timers |-> 0]
    /\ recycle = [t \in Timers |-> FALSE]
    /\ timerfd = Disarmed /\ posted = {}
    /\ ran = {} /\ orderly = TRUE
-----------------------------------------------------------------------------
(* The std::set with TimerEvent as its order.                              *)

\* TimerEvent: u is due before a timer t with the time d left, or lies at a
\* lower address when both are due together.
Before(u, t, d) == left[u] < d \/ (left[u] = d /\ u < t)

Inserted(set, t, d) ==
    LET before == {i \in DOMAIN set : Before(set[i], t, d)}
    IN InsertAt(set, Cardinality(before) + 1, t)

\* What is left when the timer in front has been given a new time in its place
\* in the tree, inserted again, and erased from the front.  The insertion finds
\* the timer itself, and does nothing, unless the tree has led it behind another
\* one, which depends on the shape of the tree.
Reset(set, d) ==
    LET t == Head(set)
        others == Tail(set)
    IN (IF \E u \in Range(others) : Before(u, t, d) THEN {Inserted(others, t, d)} ELSE {})
       \cup (IF others # <<>> /\ \A u \in Range(others) : Before(u, t, d) THEN {} ELSE {others})
-----------------------------------------------------------------------------
(* addTimer.                                                               *)

Add(t, d, r) ==
    /\ delay[t] = 0
    /\ delay' = [delay EXCEPT ![t] = d]
    /\ left' = [left EXCEPT ![t] = d]
    /\ recycle' = [recycle EXCEPT ![t] = r]
    /\ timer_set' = Inserted(timer_set, t, d)
    /\ orderly' = (/\ orderly /\ ~r
                   /\ \A u \in Range(timer_set) : left[u] <= d
                   /\ \A e \in posted : d <= delay[e])

\* An addTimer that leaves the timerfd alone when it is armed for an earlier time.
AddTimerArmsIfEarlier(t, d, r) ==
    /\ pc # "timeOut"
    /\ Add(t, d, r)
    /\ timerfd' = IF timerfd = Disarmed \/ d < timerfd THEN d ELSE timerfd
    /\ UNCHANGED <<pc, posted, ran>>

\* On the loop thread, by a handler or by the callback of a timer: CreateTimer
\* arms the timerfd at once.
AddTimer(t, d, r) ==
    /\ pc # "timeOut"
    /\ Add(t, d, r)
    /\ timerfd' = d
    /\ UNCHANGED <<pc, posted, ran>>

\* On another thread, while the loop does not look at timer_set: CreateTimer is
\* posted.  (Tasks of a loop can overtake each other: see EventLoop.)
AddElsewhere(t, d, r) ==
    /\ pc \in {"poll", "dispatch"}
    /\ Add(t, d, r)
    /\ posted' = posted \cup {t}
    /\ UNCHANGED <<pc, timerfd, ran>>

\* The loop runs a posted CreateTimer.
CreateTimer(t) ==
    /\ pc = "poll"
    /\ t \in posted
    /\ posted' = posted \ {t}
    /\ timerfd' = delay[t]
    /\ UNCHANGED <<pc, timers, ran, orderly>>
-----------------------------------------------------------------------------
(* TimeOut.                                                                *)

\* poll returns, with the timerfd among the descriptors that are readable.
Poll ==
    /\ pc = "poll"
    /\ timerfd = 0
    /\ pc' = "dispatch"
    /\ UNCHANGED <<timers, timerfd, posted, ran, orderly>>

\* Another handler may have armed the timerfd anew; then there is nothing to read,
\* which is only logged.
ReadTimerfd ==
    /\ pc = "dispatch"
    /\ timerfd' = IF timerfd = 0 THEN Disarmed ELSE timerfd
    /\ pc' = "timeOut"
    /\ UNCHANGED <<timers, posted, ran, orderly>>

IsDue == timer_set # <<>> /\ left[Head(timer_set)] = 0

\* Timer::run, which runInLoop calls in place.
RunTimer ==
    /\ pc = "timeOut"
    /\ IsDue
    /\ ran' = ran \cup {Head(timer_set)}
    /\ pc' = "callback"
    /\ UNCHANGED <<timers, timerfd, posted, orderly>>

\* An erase at the wrong end of the set.
EraseLast ==
    /\ pc = "callback"
    /\ timer_set' = SubSeq(timer_set, 1, Len(timer_set) - 1)
    /\ pc' = "timeOut"
    /\ UNCHANGED <<left, delay, recycle, timerfd, posted, ran, orderly>>

\* The callback has returned: reset and insert a recurring timer, erase the front.
Erase ==
    LET t == Head(timer_set)
    IN /\ pc = "callback"
       /\ IF recycle[t]
          THEN /\ left' = [left EXCEPT ![t] = delay[t]]
               /\ timer_set' \in Reset(timer_set, delay[t])
          ELSE /\ timer_set' = Tail(timer_set)
               /\ UNCHANGED left
       /\ pc' = "timeOut"
       /\ UNCHANGED <<delay, recycle, timerfd, posted, ran, orderly>>

EndTimeOut ==
    /\ pc = "timeOut"
    /\ ~IsDue
    /\ pc' = "poll"
    /\ UNCHANGED <<timers, timerfd, posted, ran, orderly>>

Minus(n) == IF n > 0 THEN n - 1 ELSE n

\* Time passes.
Tick ==
    /\ left' = [t \in Timers |-> Minus(left[t])]
    /\ timerfd' = Minus(timerfd)
    /\ UNCHANGED <<pc, timer_set, delay, recycle, posted, ran, orderly>>
-----------------------------------------------------------------------------
TimeOut == Poll \/ ReadTimerfd \/ RunTimer \/ Erase \/ EndTimeOut

TimersNext ==
    \/ \E t \in Timers, d \in Delays, r \in BOOLEAN : AddTimer(t, d, r) \/ AddElsewhere(t, d, r)
    \/ \E t \in Timers : CreateTimer(t)
    \/ TimeOut \/ Tick

\* Time passes, and the loop goes on.  A posted CreateTimer may wait for ever, as
\* any posted task may when nothing else wakes the loop: see EventLoop.
TimersSpec ==
    /\ TimersInit /\ [][TimersNext]_timerVars
    /\ WF_timerVars(Tick) /\ WF_timerVars(TimeOut)
-----------------------------------------------------------------------------
TimersTypeOK ==
    /\ pc \in {"poll", "dispatch", "timeOut", "callback"}
    /\ timer_set \in Seq(Timers)
    /\ left \in [Timers -> 0 .. MaxDelay] /\ delay \in [Timers -> Delays \cup {0}]
    /\ recycle \in [Timers -> BOOLEAN]
    /\ timerfd \in {Disarmed} \cup 0 .. MaxDelay
    /\ posted \subseteq Timers /\ ran \subseteq Timers /\ orderly \in BOOLEAN

SetInOrder ==
    \A i, j \in 1 .. Len(timer_set) :
        i < j => /\ timer_set[i] # timer_set[j]
                 /\ left[timer_set[i]] <= left[timer_set[j]]

SingleIsKept ==
    \A t \in Timers :
        delay[t] > 0 /\ ~recycle[t] =>
            (t \in Range(timer_set)
                <=> t \notin ran \/ (pc = "callback" /\ t = Head(timer_set)))

\* Although timers are added by the callbacks of others, and recurring ones get
\* a new time while they are in the tree: it stays in order, with no timer twice.
\* A single timer waits in it until its callback has returned, and is then gone:
\* it is neither dropped nor called again.
SetIsKept == TimersTypeOK /\ SetInOrder /\ SingleIsKept

\* From some moment on no timer is added.  Without that, even timers that come in
\* order can be starved: each of them arms the one timerfd anew.
FlowEnds == <>[][delay' = delay]_timerVars

\* When the flow of timers ends, every orderly timer whose CreateTimer has been run
\* is called, whatever becomes of the CreateTimers that are still posted.
EveryTimerRuns ==
    FlowEnds => \A t \in Timers :
                   (delay[t] > 0 /\ t \notin posted) ~> (t \in ran \/ ~orderly)
=============================================================================
