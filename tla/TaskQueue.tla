------------------------------ MODULE TaskQueue ------------------------------
(***************************************************************************)
(* What EventLoop::runInLoop promises its callers, with no threads, no     *)
(* mutex and no wake-up: a task that was handed over is run by the loop    *)
(* at most once, and never before it was handed over.  EventLoop is shown  *)
(* to implement this module.                                               *)
(***************************************************************************)
EXTENDS Sequences, Functions

CONSTANT Tasks

VARIABLES pending,  \* tasks handed to the loop and not run yet
          done,     \* tasks the loop has run, in the order of the runs
          stopping  \* somebody asked the loop to stop

tqVars == <<pending, done, stopping>>

TQInit == pending = {} /\ done = <<>> /\ stopping = FALSE

\* A caller on another thread hands a task over; the loop will run it later.
Submit(t) ==
    /\ t \notin pending \cup Range(done)
    /\ pending' = pending \cup {t}
    /\ UNCHANGED <<done, stopping>>

\* The loop thread runs a task that was handed over.
Perform(t) ==
    /\ t \in pending
    /\ pending' = pending \ {t}
    /\ done' = Append(done, t)
    /\ UNCHANGED stopping

\* A caller that already is on the loop thread has its task run in place.
PerformNow(t) ==
    /\ t \notin pending \cup Range(done)
    /\ done' = Append(done, t)
    /\ UNCHANGED <<pending, stopping>>

AskStop == stopping' = TRUE /\ UNCHANGED <<pending, done>>

TQNext ==
    \/ \E t \in Tasks : Submit(t) \/ Perform(t) \/ PerformNow(t)
    \/ AskStop

TQSpec == TQInit /\ [][TQNext]_tqVars

\* What a caller would like on top: a task handed over is run, unless the
\* loop was told to stop.
EveryTaskServed == \A t \in Tasks : (t \in pending) ~> (t \in Range(done) \/ stopping)
=============================================================================
