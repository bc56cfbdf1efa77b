------------------------------ MODULE EventLoop ------------------------------
(***************************************************************************)
(* fm/EventLoop: one thread runs EventLoop::loop, any thread may call      *)
(* runInLoop or quit.  Threads meet in callbacks_ (guarded by mutex_), in  *)
(* the flag quit_ and in the counter of the eventfd wakeFd_.               *)
(*                                                                         *)
(* A step of a thread reaches from one point where another thread can      *)
(* interfere to the next: a critical section of mutex_ is one step, a      *)
(* system call is one step, the run of one callback is one step.           *)
(*                                                                         *)
(* Each of Tasks is given to runInLoop once, and the histories follow it.  *)
(* Recurring are tasks that are posted again and again, as often as they   *)
(* have run, and that no history mentions: posting need never end.         *)
(***************************************************************************)
EXTENDS Naturals, Sequences, Functions

CONSTANTS Tasks,     \* the callables given to runInLoop once
          Recurring, \* the callables given to runInLoop any number of times
          Threads    \* the threads other than the loop thread

ASSUME RecurringAssumption == Tasks \cap Recurring = {}

VARIABLES
    pc,          \* where the loop thread is in EventLoop::loop
    looping_, quit_,
    callbacks_,  \* EventLoop::callbacks_, shared
    callback,    \* the local vector `callback' of loop()
    pos,         \* index in callback of the next one to call
    wakeFd_,     \* the counter of the eventfd is not zero: wakeFd_ is readable
    io,          \* another descriptor of the poller is ready
    active,      \* activeChannelList: the channels still to be handled
    tpc,         \* where each other thread is in runInLoop or quit
    posted,      \* history: the Tasks pushed, in the order of the pushes
    executed,    \* history: the Tasks called, in the order of the calls
    carried      \* history: what the second swap of loop() took from callbacks_

loopVars == <<pc, looping_, callback, pos, active>>
vars == <<loopVars, quit_, callbacks_, wakeFd_, io, tpc, posted, executed, carried>>

Issued == Range(posted) \cup Range(executed)

\* The callables of the local vector that are still to be called.
Remaining == {callback[i] : i \in pos .. Len(callback)}

\* The history s after task.
Noted(s, task) == IF task \in Tasks THEN Append(s, task) ELSE s

Init ==
    /\ pc = "start"
    /\ looping_ = FALSE /\ quit_ = FALSE
    /\ callbacks_ = <<>> /\ callback = <<>> /\ pos = 1
    /\ wakeFd_ = FALSE /\ io = FALSE /\ active = {}
    /\ tpc = [t \in Threads |-> "idle"]
    /\ posted = <<>> /\ executed = <<>> /\ carried = {}

-----------------------------------------------------------------------------
(* The other threads.                                                      *)

\* A push that puts the new callable in front of the older ones.
PushBackAtFront(task) == callbacks_' = <<task>> \o callbacks_

\* runInLoop, first half: callbacks_.push_back under mutex_.
PushBack(task) == callbacks_' = Append(callbacks_, task)

Post(t, task) ==
    /\ tpc[t] = "idle"
    /\ task \notin Issued \cup Range(callbacks_) \cup Remaining
    /\ PushBack(task)
    /\ posted' = Noted(posted, task) /\ carried' = carried \ {task}
    /\ tpc' = [tpc EXCEPT ![t] = "wakeUp"]
    /\ UNCHANGED <<loopVars, quit_, wakeFd_, io, executed>>

\* A caller that returns without writing to the eventfd.
WakeUpForgotten(t) ==
    /\ tpc[t] = "wakeUp"
    /\ tpc' = [tpc EXCEPT ![t] = "idle"]
    /\ UNCHANGED <<loopVars, quit_, callbacks_, wakeFd_, io, posted, executed, carried>>

\* wakeUp(), the second half of runInLoop and of quit.
WakeUp(t) ==
    /\ tpc[t] = "wakeUp"
    /\ wakeFd_' = TRUE
    /\ tpc' = [tpc EXCEPT ![t] = "idle"]
    /\ UNCHANGED <<loopVars, quit_, callbacks_, io, posted, executed, carried>>

\* quit(), up to its wakeUp(), on the path where assert(looping_) holds.
Quit(t) ==
    /\ tpc[t] = "idle"
    /\ looping_
    /\ quit_' = TRUE
    /\ tpc' = [tpc EXCEPT ![t] = "wakeUp"]
    /\ UNCHANGED <<loopVars, callbacks_, wakeFd_, io, posted, executed, carried>>

\* The kernel: a descriptor other than wakeFd_ becomes ready.
IoReady ==
    /\ ~io
    /\ io' = TRUE
    /\ UNCHANGED <<loopVars, quit_, callbacks_, wakeFd_, tpc, posted, executed, carried>>

-----------------------------------------------------------------------------
(* The loop thread.                                                        *)

Start ==
    /\ pc = "start"
    /\ pc' = "while"
    /\ looping_' = TRUE
    /\ UNCHANGED <<quit_, callbacks_, callback, pos, wakeFd_, io, active, tpc,
                   posted, executed, carried>>

\* while (!quit_), and the clear() of activeChannelList.
While ==
    /\ pc = "while"
    /\ pc' = IF quit_ THEN "stopped" ELSE "poll"
    /\ looping_' = ~quit_
    /\ active' = {}
    /\ UNCHANGED <<quit_, callbacks_, callback, pos, wakeFd_, io, tpc, posted,
                   executed, carried>>

\* poller.poll(-1): blocks until a descriptor is ready, returns all that are.
Poll ==
    /\ pc = "poll"
    /\ wakeFd_ \/ io
    /\ active' = {c \in {"wake", "io"} : IF c = "wake" THEN wakeFd_ ELSE io}
    /\ pc' = "handle"
    /\ UNCHANGED <<looping_, quit_, callbacks_, callback, pos, wakeFd_, io, tpc,
                   posted, executed, carried>>

\* epoll_wait is interrupted while it waits: nfd < 0, no channel is active.
PollInterrupted ==
    /\ pc = "poll"
    /\ ~wakeFd_ /\ ~io
    /\ active' = {}
    /\ pc' = "handle"
    /\ UNCHANGED <<looping_, quit_, callbacks_, callback, pos, wakeFd_, io, tpc,
                   posted, executed, carried>>

\* Channel::handle of wakeChannel_: EventLoop::handleRead empties the counter.
HandleRead ==
    /\ pc = "handle"
    /\ "wake" \in active
    /\ active' = active \ {"wake"}
    /\ wakeFd_' = FALSE
    /\ UNCHANGED <<pc, looping_, quit_, callbacks_, callback, pos, io, tpc,
                   posted, executed, carried>>

\* Channel::handle of any other channel returns.
HandleIo ==
    /\ pc = "handle"
    /\ "io" \in active
    /\ active' = active \ {"io"}
    /\ io' = FALSE
    /\ UNCHANGED <<pc, looping_, quit_, callbacks_, callback, pos, wakeFd_, tpc,
                   posted, executed, carried>>

\* The loop thread is in code of the user: before loop(), in the handler of a
\* channel, or in the callable that the for loop called last.
InUserCode ==
    \/ pc = "start"
    \/ pc = "handle" /\ "io" \in active
    \/ pc = "run" /\ pos > 1

\* runInLoop on the loop thread calls the task in place.
RunInPlace(task) ==
    /\ InUserCode
    /\ task \notin Issued
    /\ executed' = Append(executed, task)
    /\ UNCHANGED <<loopVars, quit_, callbacks_, wakeFd_, io, tpc, posted, carried>>

\* quit() on the loop thread, with its wakeUp().
QuitInPlace ==
    /\ InUserCode
    /\ looping_
    /\ quit_' = TRUE
    /\ wakeFd_' = TRUE
    /\ UNCHANGED <<loopVars, callbacks_, io, tpc, posted, executed, carried>>

\* Takes the shared vector without giving the local one in exchange.
SwapDropsLocal ==
    /\ pc = "handle" /\ active = {}
    /\ callback' = callbacks_ /\ callbacks_' = <<>>
    /\ pos' = 1
    /\ pc' = IF callbacks_ = <<>> THEN "while" ELSE "run"
    /\ UNCHANGED <<looping_, quit_, wakeFd_, io, active, tpc, posted, executed,
                   carried>>

\* The for loop starts one before the first element.
SwapOffByOne ==
    /\ pc = "handle" /\ active = {}
    /\ callback' = callbacks_ /\ callbacks_' = callback
    /\ pos' = 0
    /\ pc' = IF callbacks_ = <<>> THEN "while" ELSE "run"
    /\ UNCHANGED <<looping_, quit_, wakeFd_, io, active, tpc, posted, executed,
                   carried>>

\* The first swap, under mutex_, and the test of callback.empty().
Swap ==
    /\ pc = "handle" /\ active = {}
    /\ callback' = callbacks_ /\ callbacks_' = callback
    /\ pos' = 1
    /\ pc' = IF callbacks_ = <<>> THEN "while" ELSE "run"
    /\ UNCHANGED <<looping_, quit_, wakeFd_, io, active, tpc, posted, executed,
                   carried>>

\* One turn of the for loop over callback.
RunCallback ==
    /\ pc = "run"
    /\ pos <= Len(callback)
    /\ pos' = pos + 1
    /\ executed' = Noted(executed, callback[pos])
    /\ UNCHANGED <<pc, looping_, quit_, callbacks_, callback, wakeFd_, io, active,
                   tpc, posted, carried>>

\* The second swap without the clear() before it.
SwapBackUncleared ==
    /\ pc = "run"
    /\ pos > Len(callback)
    /\ callback' = callbacks_ /\ callbacks_' = callback
    /\ carried' = carried \cup Range(callbacks_)
    /\ pos' = 1
    /\ pc' = "while"
    /\ UNCHANGED <<looping_, quit_, wakeFd_, io, active, tpc, posted, executed>>

\* callback.clear() and the second swap, under mutex_: what was pushed while
\* the batch ran is now in the local vector, and the loop polls again.
SwapBack ==
    /\ pc = "run"
    /\ pos > Len(callback)
    /\ callback' = callbacks_ /\ callbacks_' = <<>>
    /\ carried' = carried \cup Range(callbacks_)
    /\ pos' = 1
    /\ pc' = "while"
    /\ UNCHANGED <<looping_, quit_, wakeFd_, io, active, tpc, posted, executed>>

LoopStep ==
    \/ Start \/ While \/ Poll \/ HandleRead \/ HandleIo
    \/ Swap \/ RunCallback \/ SwapBack

Next ==
    \/ LoopStep
    \/ PollInterrupted
    \/ IoReady
    \/ QuitInPlace
    \/ \E task \in Tasks : RunInPlace(task)
    \/ \E t \in Threads :
          \/ \E task \in Tasks \cup Recurring : Post(t, task)
          \/ WakeUp(t)
          \/ Quit(t)

\* The loop thread and a thread inside runInLoop or quit are scheduled; nobody
\* has to call them, and no descriptor has to become ready.
Fairness == WF_vars(LoopStep) /\ \A t \in Threads : WF_vars(WakeUp(t))

Spec == Init /\ [][Next]_vars /\ Fairness
-----------------------------------------------------------------------------
TypeOK ==
    /\ pc \in {"start", "while", "poll", "handle", "run", "stopped"}
    /\ looping_ \in BOOLEAN /\ quit_ \in BOOLEAN
    /\ callbacks_ \in Seq(Tasks \cup Recurring) /\ callback \in Seq(Tasks \cup Recurring)
    /\ pos \in Nat \ {0}
    /\ wakeFd_ \in BOOLEAN /\ io \in BOOLEAN
    /\ active \subseteq {"wake", "io"}
    /\ tpc \in [Threads -> {"idle", "wakeUp"}]
    /\ posted \in Seq(Tasks) /\ executed \in Seq(Tasks)
    /\ carried \subseteq Tasks \cup Recurring

\* Swapping the two vectors twice per iteration, with a clear() in between,
\* neither loses nor repeats a callable (EventLoop::loop): every task given to
\* runInLoop is exactly once in the shared vector, in the rest of the local one,
\* or among those that were called.
NoTaskLostOrRunTwice ==
    /\ IsInjective(executed)
    /\ IsInjective(callbacks_)
    /\ \A i, j \in pos .. Len(callback) : callback[i] = callback[j] => i = j
    /\ Range(callbacks_) \cap Remaining = {}
    /\ Range(executed) \cap (Range(callbacks_) \cup Remaining) = {}
    /\ Range(posted) \subseteq Range(executed) \cup Range(callbacks_) \cup Remaining

\* The wake-up protocol of runInLoop (push, then write to the eventfd) against
\* that of loop (read the eventfd, then swap): whenever the loop thread blocks
\* in poll with nothing left to wake it, all it could be sleeping on are tasks
\* that its own second swap set aside.
NoFreshTaskSleeps ==
    (pc = "poll" /\ ~wakeFd_ /\ ~io /\ \A t \in Threads : tpc[t] = "idle")
        => Range(callbacks_) \cup Range(callback) \subseteq carried

\* A task can overtake one pushed before it only if the second swap of loop()
\* set that one aside.
OvertakesOnlyCarried ==
    \A i, j \in DOMAIN posted :
        (i < j /\ posted[i] \notin carried /\ posted[j] \in Range(executed))
            => \E m, n \in DOMAIN executed :
                  m < n /\ executed[m] = posted[i] /\ executed[n] = posted[j]

\* EventLoop::loop and runInLoop implement the abstract task queue.
TQ == INSTANCE TaskQueue WITH
        pending <- Range(posted) \ Range(executed),
        done <- executed,
        stopping <- quit_

ImplementsTaskQueue == TQ!TQSpec

\* quit() ends loop(), whoever calls it and whatever the loop waits for.
QuitStopsLoop == quit_ ~> (pc = "stopped")

\* No task is left behind for good, although the second swap sets tasks aside, if
\* the loop comes again and again to its first swap with nothing newly pushed.
LullsServeEveryTask == []<><<Swap /\ callbacks_ = <<>>>>_vars => TQ!EveryTaskServed

\* What test004.cpp, whose threads never stop posting, relies on: as long as poll()
\* keeps returning, a callable posted from another thread is called.
BusyLoopServesEveryTask == []<>(pc = "handle") => TQ!EveryTaskServed

\* What test004.cpp relies on: a callable posted from another thread is called,
\* also if no other one comes after it.
EveryPostedTaskRuns == TQ!EveryTaskServed
=============================================================================
