--------------------------- MODULE EventLoopProofs ---------------------------
(***************************************************************************)
(* Theorems about EventLoop for any set of tasks and of threads.           *)
(*                                                                         *)
(* IInv is the inductive invariant.  Its parts beyond TypeOK:              *)
(*   AtRest    between two batches the local vector holds only what the    *)
(*             second swap set aside, and the for loop is at its start;    *)
(*   Signalled a task that no second swap set aside is announced: by the   *)
(*             eventfd, or by a thread on its way to write to it, unless   *)
(*             the loop is past poll and about to swap;                    *)
(*   Accounted every one of Tasks in either vector was pushed.             *)
(***************************************************************************)
EXTENDS EventLoop, TLAPS

AtRest == pc # "run" => pos = 1 /\ Range(callback) \subseteq carried

Signalled ==
    (pc # "handle" /\ ~(Range(callbacks_) \subseteq carried))
        => wakeFd_ \/ \E t \in Threads : tpc[t] = "wakeUp"

Accounted == (Range(callbacks_) \cup Remaining) \ Recurring \subseteq Range(posted)

Callables == Tasks \cup Recurring

IInv == TypeOK /\ AtRest /\ Signalled /\ NoTaskLostOrRunTwice /\ Accounted
-----------------------------------------------------------------------------
(* Sequences seen as the sets of their elements.                           *)

\* Appending an element adds just that element to the range.
LEMMA RangeAppend ==
    ASSUME NEW S, NEW s \in Seq(S), NEW e \in S
    PROVE  /\ Append(s, e) \in Seq(S)
           /\ Range(Append(s, e)) = Range(s) \cup {e}
<1>1. Append(s, e) \in Seq(S) /\ DOMAIN Append(s, e) = 1 .. Len(s) + 1
  OBVIOUS
<1>2. \A i \in 1 .. Len(s) : Append(s, e)[i] = s[i]
  OBVIOUS
<1>3. Append(s, e)[Len(s) + 1] = e
  OBVIOUS
<1>4. Len(s) \in Nat /\ DOMAIN s = 1 .. Len(s)
  OBVIOUS
<1>5. Range(Append(s, e)) \subseteq Range(s) \cup {e}
  BY <1>1, <1>2, <1>3, <1>4, SMT DEF Range
<1>6. Range(s) \subseteq Range(Append(s, e))
  <2> SUFFICES ASSUME NEW i \in 1 .. Len(s)
               PROVE  s[i] \in Range(Append(s, e))
    BY <1>4 DEF Range
  <2>1. i \in DOMAIN Append(s, e)
    BY <1>1, <1>4
  <2> QED BY <2>1, <1>2 DEF Range
<1>7. e \in Range(Append(s, e))
  <2>1. Len(s) + 1 \in DOMAIN Append(s, e)
    BY <1>1, <1>4
  <2> QED BY <2>1, <1>3 DEF Range
<1> QED BY <1>1, <1>5, <1>6, <1>7

\* Appending a new element to a sequence without repetitions keeps it so.
LEMMA InjectiveAppend ==
    ASSUME NEW S, NEW s \in Seq(S), NEW e \in S, IsInjective(s), e \notin Range(s)
    PROVE  IsInjective(Append(s, e))
<1>1. /\ DOMAIN Append(s, e) = 1 .. Len(s) + 1
      /\ \A i \in 1 .. Len(s) : Append(s, e)[i] = s[i]
      /\ Append(s, e)[Len(s) + 1] = e
      /\ Len(s) \in Nat /\ DOMAIN s = 1 .. Len(s)
  OBVIOUS
<1> SUFFICES ASSUME NEW i \in 1 .. Len(s) + 1, NEW j \in 1 .. Len(s) + 1,
                    Append(s, e)[i] = Append(s, e)[j]
             PROVE  i = j
  BY <1>1 DEF IsInjective
<1>2. \A k \in 1 .. Len(s) : s[k] # e
  BY <1>1 DEF Range
<1>3. \A k, l \in 1 .. Len(s) : s[k] = s[l] => k = l
  BY <1>1 DEF IsInjective
<1> QED BY <1>1, <1>2, <1>3

\* A history grows by one of Tasks, and a recurring task leaves it as it is.
LEMMA NotedGrows ==
    ASSUME NEW s \in Seq(Tasks), NEW e \in Callables
    PROVE  /\ Noted(s, e) \in Seq(Tasks)
           /\ e \in Tasks => Noted(s, e) = Append(s, e)
           /\ e \notin Tasks => Noted(s, e) = s
           /\ Range(Noted(s, e)) = Range(s) \cup ({e} \cap Tasks)
<1>1. CASE e \in Tasks
  <2>1. Noted(s, e) = Append(s, e)
    BY <1>1 DEF Noted
  <2>2. Append(s, e) \in Seq(Tasks) /\ Range(Append(s, e)) = Range(s) \cup {e}
    BY <1>1, RangeAppend
  <2> QED BY <1>1, <2>1, <2>2
<1>2. CASE e \notin Tasks
  BY <1>2 DEF Noted
<1> QED BY <1>1, <1>2

\* Before a batch the rest of the local vector is all of it.
LEMMA RemainingAtStart ==
    ASSUME TypeOK, pos = 1 PROVE Remaining = Range(callback)
BY DEF TypeOK, Remaining, Range

-----------------------------------------------------------------------------
(* Type correctness.                                                       *)

\* The initial state of a loop has the types of TypeOK.
LEMMA InitType == Init => TypeOK
<1> SUFFICES ASSUME Init PROVE TypeOK
  OBVIOUS
<1>1. <<>> \in Seq(Tasks) /\ <<>> \in Seq(Tasks \cup Recurring)
  OBVIOUS
<1>2. tpc \in [Threads -> {"idle", "wakeUp"}]
  BY DEF Init
<1>3. looping_ \in BOOLEAN /\ quit_ \in BOOLEAN /\ wakeFd_ \in BOOLEAN /\ io \in BOOLEAN
  BY DEF Init
<1> QED BY <1>1, <1>2, <1>3 DEF Init, TypeOK

\* Every step of any thread keeps the types of TypeOK.
LEMMA NextType == TypeOK /\ [Next]_vars => TypeOK'
<1> SUFFICES ASSUME TypeOK, [Next]_vars PROVE TypeOK'
  OBVIOUS
<1> USE DEF TypeOK
<1>1. CASE Start  BY <1>1 DEF Start
<1>2. CASE While  BY <1>2 DEF While
<1>3. CASE Poll  BY <1>3 DEF Poll
<1>4. CASE HandleRead  BY <1>4 DEF HandleRead
<1>5. CASE HandleIo  BY <1>5 DEF HandleIo
<1>6. CASE Swap  BY <1>6 DEF Swap
<1>7. CASE RunCallback
  <2>1. callback[pos] \in Callables
    BY <1>7 DEF RunCallback, Callables
  <2>2. executed' \in Seq(Tasks)
    BY <1>7, <2>1, NotedGrows DEF RunCallback
  <2> QED BY <1>7, <2>2 DEF RunCallback
<1>8. CASE SwapBack
  BY <1>8 DEF SwapBack, Range
<1>9. CASE PollInterrupted  BY <1>9 DEF PollInterrupted
<1>10. CASE IoReady  BY <1>10 DEF IoReady, loopVars
<1>11. CASE QuitInPlace  BY <1>11 DEF QuitInPlace, loopVars
<1>12. ASSUME NEW task \in Tasks, RunInPlace(task) PROVE TypeOK'
  BY <1>12 DEF RunInPlace, loopVars
<1>13. ASSUME NEW t \in Threads, NEW task \in Callables, Post(t, task) PROVE TypeOK'
  <2>1. posted' \in Seq(Tasks)
    BY <1>13, NotedGrows DEF Post
  <2>2. callbacks_' \in Seq(Tasks \cup Recurring)
    BY <1>13 DEF Post, PushBack, Callables
  <2> QED BY <1>13, <2>1, <2>2 DEF Post, loopVars
<1>14. ASSUME NEW t \in Threads, WakeUp(t) PROVE TypeOK'
  BY <1>14 DEF WakeUp, loopVars
<1>15. ASSUME NEW t \in Threads, Quit(t) PROVE TypeOK'
  BY <1>15 DEF Quit, loopVars
<1>16. CASE UNCHANGED vars  BY <1>16 DEF vars, loopVars
<1> QED
  BY <1>1, <1>2, <1>3, <1>4, <1>5, <1>6, <1>7, <1>8, <1>9, <1>10, <1>11, <1>12,
     <1>13, <1>14, <1>15, <1>16 DEF Next, LoopStep, Callables

\* The variables of a loop keep their types, whatever the threads do.
THEOREM TypeCorrect == Spec => []TypeOK
BY InitType, NextType, PTL DEF Spec

-----------------------------------------------------------------------------
(* The wake-up protocol.                                                   *)

\* The initial state satisfies the two parts about waking up.
LEMMA InitWake == Init => AtRest /\ Signalled
BY DEF Init, AtRest, Signalled, Range

\* No step leaves a fresh task in the shared vector unannounced.
LEMMA NextWake ==
    TypeOK /\ AtRest /\ Signalled /\ [Next]_vars => AtRest' /\ Signalled'
<1> SUFFICES ASSUME TypeOK, AtRest, Signalled, [Next]_vars
             PROVE  AtRest' /\ Signalled'
  OBVIOUS
<1> USE DEF AtRest, Signalled
<1>1. CASE Start  BY <1>1 DEF Start
<1>2. CASE While  BY <1>2 DEF While
<1>3. CASE Poll  BY <1>3 DEF Poll
<1>4. CASE HandleRead  BY <1>4 DEF HandleRead
<1>5. CASE HandleIo  BY <1>5 DEF HandleIo
<1>6. CASE Swap
  <2>1. Range(callbacks_)' \subseteq carried'
    BY <1>6 DEF Swap
  <2>2. pos' = 1
    BY <1>6 DEF Swap
  <2>3. pc' # "run" => Range(callback)' \subseteq carried'
    BY <1>6 DEF Swap, Range
  <2> QED BY <2>1, <2>2, <2>3
<1>7. CASE RunCallback  BY <1>7 DEF RunCallback
<1>8. CASE SwapBack
  <2>1. Range(callbacks_)' = {}
    BY <1>8 DEF SwapBack, Range
  <2>2. pos' = 1 /\ Range(callback)' \subseteq carried'
    BY <1>8 DEF SwapBack
  <2> QED BY <2>1, <2>2
<1>9. CASE PollInterrupted  BY <1>9 DEF PollInterrupted
<1>10. CASE IoReady  BY <1>10 DEF IoReady, loopVars
<1>11. CASE QuitInPlace  BY <1>11 DEF QuitInPlace, loopVars
<1>12. ASSUME NEW task \in Tasks, RunInPlace(task) PROVE AtRest' /\ Signalled'
  BY <1>12 DEF RunInPlace, loopVars
<1>13. ASSUME NEW t \in Threads, NEW task \in Callables, Post(t, task)
       PROVE  AtRest' /\ Signalled'
  <2>1. tpc'[t] = "wakeUp"
    BY <1>13 DEF Post, TypeOK
  <2>2. Signalled'
    BY <2>1
  <2>3. pos = 1 => task \notin Range(callback)
    BY <1>13, RemainingAtStart DEF Post
  <2>4. AtRest'
    BY <1>13, <2>3 DEF Post, loopVars
  <2> QED BY <2>2, <2>4
<1>14. ASSUME NEW t \in Threads, WakeUp(t) PROVE AtRest' /\ Signalled'
  BY <1>14 DEF WakeUp, loopVars
<1>15. ASSUME NEW t \in Threads, Quit(t) PROVE AtRest' /\ Signalled'
  <2>1. tpc'[t] = "wakeUp"
    BY <1>15 DEF Quit, TypeOK
  <2> QED BY <1>15, <2>1 DEF Quit, loopVars
<1>16. CASE UNCHANGED vars  BY <1>16 DEF vars, loopVars
<1> QED
  BY <1>1, <1>2, <1>3, <1>4, <1>5, <1>6, <1>7, <1>8, <1>9, <1>10, <1>11, <1>12,
     <1>13, <1>14, <1>15, <1>16 DEF Next, LoopStep, Callables

\* The invariant says what it should when the loop is blocked in poll.
LEMMA WakeSuffices == AtRest /\ Signalled => NoFreshTaskSleeps
BY DEF AtRest, Signalled, NoFreshTaskSleeps

\* However many threads race with the loop, the only tasks it can be asleep on
\* are those its own second swap set aside.
THEOREM FreshTasksWakeTheLoop == Spec => []NoFreshTaskSleeps
<1>1. Init => TypeOK /\ AtRest /\ Signalled
  BY InitType, InitWake
<1>2. (TypeOK /\ AtRest /\ Signalled) /\ [Next]_vars
        => (TypeOK /\ AtRest /\ Signalled)'
  BY NextType, NextWake
<1>3. TypeOK /\ AtRest /\ Signalled => NoFreshTaskSleeps
  BY WakeSuffices
<1> QED BY <1>1, <1>2, <1>3, PTL DEF Spec

-----------------------------------------------------------------------------
(* No task is lost or run twice.                                           *)

\* The elements of an empty sequence.
LEMMA RangeEmpty == Range(<<>>) = {}
BY DEF Range

\* Steps that touch neither the vectors nor the histories.
LEMMA FrameTasks ==
    ASSUME NoTaskLostOrRunTwice, Accounted,
           UNCHANGED <<callbacks_, callback, pos, posted, executed>>
    PROVE  NoTaskLostOrRunTwice' /\ Accounted'
BY DEF NoTaskLostOrRunTwice, Accounted, Remaining

\* The first swap exchanges the roles of the two vectors.
LEMMA SwapTasks ==
    ASSUME TypeOK, AtRest, NoTaskLostOrRunTwice, Accounted, Swap
    PROVE  NoTaskLostOrRunTwice' /\ Accounted'
<1> USE DEF Swap
<1>1. Remaining = Range(callback)
  BY RemainingAtStart DEF AtRest
<1>2. TypeOK'
  BY NextType DEF Next, LoopStep
<1>3. Remaining' = Range(callbacks_)
  <2>1. pos' = 1 /\ callback' = callbacks_
    OBVIOUS
  <2> QED BY <1>2, <2>1 DEF TypeOK, Remaining, Range
<1>4. IsInjective(callback)
  BY DEF NoTaskLostOrRunTwice, IsInjective, TypeOK, AtRest
<1>5. \A i, j \in pos' .. Len(callback') : callback'[i] = callback'[j] => i = j
  BY DEF NoTaskLostOrRunTwice, IsInjective, TypeOK
<1> QED
  BY <1>1, <1>3, <1>4, <1>5 DEF NoTaskLostOrRunTwice, Accounted

\* A turn of the for loop moves one task from the local vector to the past.
LEMMA RunTasks ==
    ASSUME TypeOK, NoTaskLostOrRunTwice, Accounted, RunCallback
    PROVE  /\ NoTaskLostOrRunTwice' /\ Accounted'
           /\ callback[pos] \notin Range(executed)
           /\ callback[pos] \in Tasks => callback[pos] \in Range(posted)
           /\ Range(executed)' = Range(executed) \cup ({callback[pos]} \cap Tasks)
<1> DEFINE e == callback[pos]
<1>1. e \in Callables /\ e \in Remaining /\ pos \in Nat /\ Len(callback) \in Nat
  BY DEF RunCallback, TypeOK, Remaining, Callables
<1>2. e \notin Range(executed) /\ e \notin Range(callbacks_) /\ (e \in Tasks => e \in Range(posted))
  BY <1>1, RecurringAssumption DEF NoTaskLostOrRunTwice, Accounted
<1>3. Remaining' = Remaining \ {e}
  <2>1. Remaining' = {callback[i] : i \in pos + 1 .. Len(callback)}
    BY DEF RunCallback, Remaining
  <2>2. \A i \in pos + 1 .. Len(callback) : i \in pos .. Len(callback) /\ i # pos
    BY <1>1
  <2>3. \A i \in pos .. Len(callback) : i = pos \/ i \in pos + 1 .. Len(callback)
    BY <1>1
  <2>4. pos \in pos .. Len(callback)
    BY <1>1 DEF RunCallback
  <2>5. \A i \in pos + 1 .. Len(callback) : callback[i] # e
    BY <2>2, <2>4 DEF NoTaskLostOrRunTwice
  <2> HIDE DEF e
  <2>6. Remaining' \subseteq Remaining \ {e}
    BY <2>1, <2>2, <2>5 DEF Remaining
  <2>7. Remaining \ {e} \subseteq Remaining'
    BY <2>1, <2>3 DEF Remaining, e
  <2> QED BY <2>6, <2>7
<1>4. /\ Range(executed') = Range(executed) \cup ({e} \cap Tasks)
      /\ executed' = IF e \in Tasks THEN Append(executed, e) ELSE executed
  BY <1>1, NotedGrows DEF RunCallback, TypeOK
<1>5. IsInjective(executed')
  BY <1>1, <1>2, <1>4, InjectiveAppend DEF TypeOK, NoTaskLostOrRunTwice
<1>6. \A i, j \in pos' .. Len(callback') : callback'[i] = callback'[j] => i = j
  BY <1>1 DEF RunCallback, NoTaskLostOrRunTwice
<1>7. UNCHANGED <<callbacks_, posted>>
  BY DEF RunCallback
<1> HIDE DEF e
<1>10. Range(posted) \subseteq Tasks
  BY DEF TypeOK, Range
<1>8. NoTaskLostOrRunTwice'
  BY <1>1, <1>2, <1>3, <1>4, <1>5, <1>6, <1>7, <1>10 DEF NoTaskLostOrRunTwice
<1>9. Accounted'
  BY <1>3, <1>7 DEF Accounted
<1> QED BY <1>2, <1>4, <1>8, <1>9 DEF e

\* The second swap takes the shared vector into an empty local one.
LEMMA SwapBackTasks ==
    ASSUME TypeOK, NoTaskLostOrRunTwice, Accounted, SwapBack
    PROVE  NoTaskLostOrRunTwice' /\ Accounted'
<1> USE DEF SwapBack
<1>1. Remaining = {}
  BY DEF Remaining, TypeOK
<1>2. Range(callbacks_)' = {} /\ IsInjective(callbacks_')
  BY RangeEmpty DEF IsInjective
<1>3. Remaining' = Range(callbacks_)
  BY DEF TypeOK, Remaining, Range
<1>4. \A i, j \in pos' .. Len(callback') : callback'[i] = callback'[j] => i = j
  BY DEF NoTaskLostOrRunTwice, IsInjective, TypeOK
<1> QED BY <1>1, <1>2, <1>3, <1>4 DEF NoTaskLostOrRunTwice, Accounted

\* A push adds a task that was nowhere before.
LEMMA PostTasks ==
    ASSUME TypeOK, NoTaskLostOrRunTwice, Accounted,
           NEW t \in Threads, NEW task \in Callables, Post(t, task)
    PROVE  NoTaskLostOrRunTwice' /\ Accounted'
<1>1. task \notin Range(posted) /\ task \notin Range(executed)
  BY DEF Post, Issued
<1>2. task \notin Range(callbacks_) /\ task \notin Remaining
  BY DEF Post
<1>3. /\ Range(callbacks_') = Range(callbacks_) \cup {task}
      /\ Range(posted') = Range(posted) \cup ({task} \cap Tasks)
  <2>1. callbacks_ \in Seq(Callables) /\ callbacks_' = Append(callbacks_, task)
    BY DEF Post, PushBack, TypeOK, Callables
  <2>2. posted \in Seq(Tasks) /\ posted' = Noted(posted, task)
    BY DEF Post, TypeOK
  <2> QED BY <2>1, <2>2, RangeAppend, NotedGrows
<1>4. IsInjective(callbacks_')
  BY <1>2, InjectiveAppend DEF Post, PushBack, TypeOK, NoTaskLostOrRunTwice, Callables
<1>5. UNCHANGED <<callback, pos, executed, Remaining>>
  BY DEF Post, loopVars, Remaining
<1>6. NoTaskLostOrRunTwice'
  BY <1>1, <1>2, <1>3, <1>4, <1>5 DEF NoTaskLostOrRunTwice
<1>7. Accounted'
  BY <1>3, <1>5 DEF Accounted, Callables
<1> QED BY <1>6, <1>7

\* A task that runs in place was nowhere before.
LEMMA InPlaceTasks ==
    ASSUME TypeOK, NoTaskLostOrRunTwice, Accounted, NEW task \in Tasks, RunInPlace(task)
    PROVE  /\ NoTaskLostOrRunTwice' /\ Accounted'
           /\ task \notin Range(posted) \cup Range(executed)
           /\ Range(executed)' = Range(executed) \cup {task}
<1>1. task \notin Range(posted) /\ task \notin Range(executed)
  BY DEF RunInPlace, Issued
<1>2. task \notin Range(callbacks_) /\ task \notin Remaining
  BY <1>1, RecurringAssumption DEF Accounted
<1>3. Range(executed') = Range(executed) \cup {task}
  BY RangeAppend DEF RunInPlace, TypeOK
<1>4. IsInjective(executed')
  BY <1>1, InjectiveAppend DEF RunInPlace, TypeOK, NoTaskLostOrRunTwice
<1>5. UNCHANGED <<callbacks_, callback, pos, posted, Remaining>>
  BY DEF RunInPlace, loopVars, Remaining
<1>6. NoTaskLostOrRunTwice'
  BY <1>2, <1>3, <1>4, <1>5 DEF NoTaskLostOrRunTwice
<1>7. Accounted'
  BY <1>5 DEF Accounted
<1> QED BY <1>1, <1>3, <1>6, <1>7

\* The initial state satisfies the parts about tasks.
LEMMA InitTasks == Init => NoTaskLostOrRunTwice /\ Accounted
BY RangeEmpty DEF Init, NoTaskLostOrRunTwice, Accounted, Remaining, IsInjective

\* Every step of any thread keeps every task in exactly one place.
LEMMA NextTasks == IInv /\ [Next]_vars => NoTaskLostOrRunTwice' /\ Accounted'
<1> SUFFICES ASSUME IInv, [Next]_vars PROVE NoTaskLostOrRunTwice' /\ Accounted'
  OBVIOUS
<1> USE DEF IInv
<1>1. CASE Start  BY <1>1, FrameTasks DEF Start
<1>2. CASE While  BY <1>2, FrameTasks DEF While
<1>3. CASE Poll  BY <1>3, FrameTasks DEF Poll
<1>4. CASE HandleRead  BY <1>4, FrameTasks DEF HandleRead
<1>5. CASE HandleIo  BY <1>5, FrameTasks DEF HandleIo
<1>6. CASE Swap  BY <1>6, SwapTasks
<1>7. CASE RunCallback  BY <1>7, RunTasks
<1>8. CASE SwapBack  BY <1>8, SwapBackTasks
<1>9. CASE PollInterrupted  BY <1>9, FrameTasks DEF PollInterrupted
<1>10. CASE IoReady  BY <1>10, FrameTasks DEF IoReady, loopVars
<1>11. CASE QuitInPlace  BY <1>11, FrameTasks DEF QuitInPlace, loopVars
<1>12. ASSUME NEW task \in Tasks, RunInPlace(task)
       PROVE  NoTaskLostOrRunTwice' /\ Accounted'
  BY <1>12, InPlaceTasks
<1>13. ASSUME NEW t \in Threads, NEW task \in Callables, Post(t, task)
       PROVE  NoTaskLostOrRunTwice' /\ Accounted'
  BY <1>13, PostTasks
<1>14. ASSUME NEW t \in Threads, WakeUp(t)
       PROVE  NoTaskLostOrRunTwice' /\ Accounted'
  BY <1>14, FrameTasks DEF WakeUp, loopVars
<1>15. ASSUME NEW t \in Threads, Quit(t)
       PROVE  NoTaskLostOrRunTwice' /\ Accounted'
  BY <1>15, FrameTasks DEF Quit, loopVars
<1>16. CASE UNCHANGED vars  BY <1>16, FrameTasks DEF vars, loopVars
<1> QED
  BY <1>1, <1>2, <1>3, <1>4, <1>5, <1>6, <1>7, <1>8, <1>9, <1>10, <1>11, <1>12,
     <1>13, <1>14, <1>15, <1>16 DEF Next, LoopStep, Callables

\* IInv is an inductive invariant of the specification.
LEMMA Inductive == Spec => []IInv
<1>1. Init => IInv
  BY InitType, InitWake, InitTasks DEF IInv
<1>2. IInv /\ [Next]_vars => IInv'
  BY NextType, NextWake, NextTasks DEF IInv
<1> QED BY <1>1, <1>2, PTL DEF Spec

\* The two swaps of loop() neither lose nor repeat a task, however the pushes
\* of any number of threads fall between them.
THEOREM TasksAccountedFor == Spec => []NoTaskLostOrRunTwice
BY Inductive, PTL DEF IInv

-----------------------------------------------------------------------------
(* EventLoop implements TaskQueue.                                         *)

\* The initial state of a loop is an empty queue.
LEMMA InitRefines == Init => TQ!TQInit
BY RangeEmpty DEF Init, TQ!TQInit

\* Every step of a loop is a step of the queue or changes nothing there.
LEMMA NextRefines == IInv /\ [Next]_vars => [TQ!TQNext]_TQ!tqVars
<1> SUFFICES ASSUME IInv, [Next]_vars PROVE [TQ!TQNext]_TQ!tqVars
  OBVIOUS
<1> USE DEF IInv, TQ!tqVars
<1>1. CASE UNCHANGED <<posted, executed, quit_>>
  BY <1>1
<1>2. CASE quit_' = TRUE /\ UNCHANGED <<posted, executed>>
  BY <1>2 DEF TQ!TQNext, TQ!AskStop
<1>3. CASE RunCallback
  <2>1. CASE callback[pos] \in Tasks
    <3>1. executed' = Append(executed, callback[pos])
      BY <1>3, <2>1 DEF RunCallback, Noted
    <3>2. TQ!Perform(callback[pos])
      BY <1>3, <2>1, <3>1, RunTasks DEF TQ!Perform, RunCallback
    <3> QED BY <2>1, <3>2 DEF TQ!TQNext
  <2>2. CASE callback[pos] \notin Tasks
    BY <1>3, <2>2, <1>1 DEF RunCallback, Noted
  <2> QED BY <2>1, <2>2
<1>4. ASSUME NEW task \in Tasks, RunInPlace(task) PROVE TQ!TQNext
  <2>1. TQ!PerformNow(task)
    BY <1>4, InPlaceTasks DEF TQ!PerformNow, RunInPlace, TQ!Range, Range
  <2> QED BY <2>1 DEF TQ!TQNext
<1>5. ASSUME NEW t \in Threads, NEW task \in Callables, Post(t, task)
      PROVE  [TQ!TQNext]_TQ!tqVars
  <2>1. CASE task \in Tasks
    <3>1. Range(posted') = Range(posted) \cup {task}
      BY <1>5, <2>1, NotedGrows DEF Post, TypeOK
    <3>2. TQ!Submit(task)
      BY <1>5, <3>1 DEF TQ!Submit, Post, Issued, TQ!Range, Range
    <3> QED BY <2>1, <3>2 DEF TQ!TQNext
  <2>2. CASE task \notin Tasks
    BY <1>5, <2>2, <1>1 DEF Post, Noted
  <2> QED BY <2>1, <2>2
<1>6. ASSUME NEW t \in Threads, WakeUp(t) \/ Quit(t)
      PROVE  UNCHANGED <<posted, executed>> /\ (quit_' = TRUE \/ quit_' = quit_)
  BY <1>6 DEF WakeUp, Quit
<1>7. CASE QuitInPlace  BY <1>7, <1>2 DEF QuitInPlace
<1>8. CASE \/ Start \/ While \/ Poll \/ HandleRead \/ HandleIo \/ Swap \/ SwapBack
           \/ PollInterrupted \/ IoReady
  BY <1>8, <1>1 DEF Start, While, Poll, HandleRead, HandleIo, Swap, SwapBack,
                    PollInterrupted, IoReady
<1>9. CASE UNCHANGED vars  BY <1>9, <1>1 DEF vars
<1> QED
  BY <1>1, <1>2, <1>3, <1>4, <1>5, <1>6, <1>7, <1>8, <1>9 DEF Next, LoopStep, Callables

\* The loop with its mutex, its two vectors and its eventfd does what TaskQueue
\* says: whatever is run was handed over before, and is run once.
THEOREM LoopRefinesQueue == Spec => ImplementsTaskQueue
<1>1. Spec => []IInv
  BY Inductive
<1> QED
  BY <1>1, InitRefines, NextRefines, PTL
  DEF Spec, ImplementsTaskQueue, TQ!TQSpec
-----------------------------------------------------------------------------
(* The order of the tasks.  Of two tasks, of which no second swap has set   *)
(* the first aside, the second is behind the first wherever that is: in     *)
(* the shared vector, in the local one or, if need be, in the shared one    *)
(* while the first is in the local one, and among those that were called.   *)

BehindShared(x, y) ==
    \A k \in 1 .. Len(callbacks_) : callbacks_[k] = x =>
        \E l \in 1 .. Len(callbacks_) : k < l /\ callbacks_[l] = y

BehindLocal(x, y) ==
    \A k \in pos .. Len(callback) : callback[k] = x =>
        \/ y \in Range(callbacks_)
        \/ \E l \in pos .. Len(callback) : k < l /\ callback[l] = y

BehindCalled(x, y) ==
    y \in Range(executed) =>
        \E m, n \in DOMAIN executed : m < n /\ executed[m] = x /\ executed[n] = y

Behind(x, y) == BehindShared(x, y) /\ BehindLocal(x, y) /\ BehindCalled(x, y)

InLine ==
    \A i, j \in DOMAIN posted :
        i < j /\ posted[i] \notin carried => Behind(posted[i], posted[j])

\* An execution that grows at its end keeps the order it has.
LEMMA CalledGrows ==
    ASSUME TypeOK, NEW e \in Tasks, executed' = Append(executed, e),
           NEW x, NEW y \in Range(executed), BehindCalled(x, y)
    PROVE  BehindCalled(x, y)'
<1>1. /\ DOMAIN executed = 1 .. Len(executed) /\ Len(executed) \in Nat
      /\ DOMAIN executed' = 1 .. Len(executed) + 1
      /\ \A i \in 1 .. Len(executed) : executed'[i] = executed[i]
  BY DEF TypeOK
<1>2. PICK m, n \in DOMAIN executed : m < n /\ executed[m] = x /\ executed[n] = y
  BY DEF BehindCalled
<1>3. m \in DOMAIN executed' /\ n \in DOMAIN executed'
  BY <1>1, <1>2
<1> QED
  BY <1>1, <1>2, <1>3 DEF BehindCalled

\* Steps that touch neither the vectors nor the histories.
LEMMA FrameInLine ==
    ASSUME InLine, UNCHANGED <<callbacks_, callback, pos, posted, executed, carried>>
    PROVE  InLine'
BY DEF InLine, Behind, BehindShared, BehindLocal, BehindCalled

\* A task that is pushed is behind every task there is.
LEMMA PostInLine ==
    ASSUME IInv, InLine, NEW t \in Threads, NEW task \in Tasks, Post(t, task)
    PROVE  InLine'
<1> USE DEF IInv
<1>1. /\ posted' = Append(posted, task) /\ callbacks_' = Append(callbacks_, task)
      /\ UNCHANGED <<callback, pos, executed>> /\ carried' = carried \ {task}
      /\ task \notin Range(posted) /\ task \notin Range(executed)
  BY DEF Post, PushBack, loopVars, Issued, Noted
<1>2. /\ DOMAIN posted = 1 .. Len(posted) /\ Len(posted) \in Nat
      /\ DOMAIN posted' = 1 .. Len(posted) + 1
      /\ \A i \in 1 .. Len(posted) : posted'[i] = posted[i]
      /\ posted'[Len(posted) + 1] = task
  BY <1>1 DEF TypeOK
<1>3. /\ Len(callbacks_) \in Nat /\ Len(callbacks_') = Len(callbacks_) + 1
      /\ \A k \in 1 .. Len(callbacks_) : callbacks_'[k] = callbacks_[k]
      /\ callbacks_'[Len(callbacks_) + 1] = task
  BY <1>1 DEF TypeOK
<1>4. Range(callbacks_') = Range(callbacks_) \cup {task}
  <2>1. callbacks_ \in Seq(Callables) /\ task \in Callables
    BY DEF TypeOK, Callables
  <2> QED BY <1>1, <2>1, RangeAppend
<1> SUFFICES ASSUME NEW i \in DOMAIN posted', NEW j \in DOMAIN posted', NEW x, NEW y,
                    i < j, x = posted'[i], y = posted'[j], x \notin carried'
             PROVE  Behind(x, y)'
  BY <1>1 DEF InLine, Behind, BehindShared, BehindLocal, BehindCalled
<1>5. i \in 1 .. Len(posted) /\ x = posted[i] /\ x # task
  <2>1. i \in 1 .. Len(posted)
    BY <1>2
  <2> QED
    BY <2>1, <1>1, <1>2 DEF Range
<1>6. CASE j \in 1 .. Len(posted)
  <2>1. Behind(x, y)
    BY <1>1, <1>2, <1>5, <1>6 DEF InLine
  <2>2. BehindShared(x, y)'
    BY <2>1, <1>1, <1>3, <1>5 DEF Behind, BehindShared
  <2>3. BehindLocal(x, y)'
    BY <2>1, <1>1, <1>4 DEF Behind, BehindLocal
  <2>4. BehindCalled(x, y)'
    BY <2>1, <1>1 DEF Behind, BehindCalled
  <2> QED
    BY <2>2, <2>3, <2>4 DEF Behind
<1>7. CASE j = Len(posted) + 1
  <2>1. y = task
    BY <1>2, <1>7
  <2>2. BehindShared(x, y)'
    BY <2>1, <1>1, <1>3, <1>5 DEF BehindShared
  <2>3. BehindLocal(x, y)'
    BY <2>1, <1>4 DEF BehindLocal
  <2>4. BehindCalled(x, y)'
    BY <2>1, <1>1 DEF BehindCalled
  <2> QED
    BY <2>2, <2>3, <2>4 DEF Behind
<1> QED
  BY <1>2, <1>6, <1>7

\* A recurring task is none of those that are in line.
LEMMA PostRecurringInLine ==
    ASSUME IInv, InLine, NEW t \in Threads, NEW task \in Recurring, Post(t, task)
    PROVE  InLine'
<1> USE DEF IInv
<1>1. /\ posted' = posted /\ callbacks_' = Append(callbacks_, task)
      /\ UNCHANGED <<callback, pos, executed>> /\ carried' = carried \ {task}
  BY RecurringAssumption DEF Post, PushBack, loopVars, Noted
<1>2. /\ Len(callbacks_) \in Nat /\ Len(callbacks_') = Len(callbacks_) + 1
      /\ \A k \in 1 .. Len(callbacks_) : callbacks_'[k] = callbacks_[k]
      /\ callbacks_'[Len(callbacks_) + 1] = task
  BY <1>1 DEF TypeOK
<1>3. Range(callbacks_') = Range(callbacks_) \cup {task}
  <2>1. callbacks_ \in Seq(Callables) /\ task \in Callables
    BY DEF TypeOK, Callables
  <2> QED BY <1>1, <2>1, RangeAppend
<1>4. \A i \in DOMAIN posted : posted[i] # task
  BY RecurringAssumption DEF TypeOK
<1> SUFFICES ASSUME NEW x, NEW y, x # task, Behind(x, y)
             PROVE  Behind(x, y)'
  BY <1>1, <1>4 DEF InLine, Behind, BehindShared, BehindLocal, BehindCalled
<1>5. BehindShared(x, y)'
  BY <1>2 DEF Behind, BehindShared
<1>6. BehindLocal(x, y)'
  BY <1>1, <1>3 DEF Behind, BehindLocal
<1>7. BehindCalled(x, y)'
  BY <1>1 DEF Behind, BehindCalled
<1> QED
  BY <1>5, <1>6, <1>7 DEF Behind

\* The first swap puts the shared vector in the place of the local one, and tasks
\* that were set aside in the place of the shared one.
LEMMA SwapInLine ==
    ASSUME IInv, InLine, Swap
    PROVE  InLine'
<1> USE DEF IInv
<1>1. /\ callback' = callbacks_ /\ callbacks_' = callback /\ pos' = 1
      /\ UNCHANGED <<posted, executed, carried>>
      /\ Range(callback) \subseteq carried
  BY DEF Swap, AtRest
<1>2. DOMAIN callback = 1 .. Len(callback)
  BY DEF TypeOK
<1> SUFFICES ASSUME NEW x, NEW y, x \notin carried, Behind(x, y)
             PROVE  Behind(x, y)'
  BY <1>1 DEF InLine, Behind, BehindShared, BehindLocal, BehindCalled
<1>3. BehindShared(x, y)'
  BY <1>1, <1>2 DEF BehindShared, Range
<1>4. BehindLocal(x, y)'
  BY <1>1 DEF Behind, BehindShared, BehindLocal
<1>5. BehindCalled(x, y)'
  BY <1>1 DEF Behind, BehindCalled
<1> QED
  BY <1>3, <1>4, <1>5 DEF Behind

\* The second swap empties the shared vector, and sets aside what was in it.
LEMMA SwapBackInLine ==
    ASSUME IInv, InLine, SwapBack
    PROVE  InLine'
<1> USE DEF IInv
<1>1. /\ callback' = callbacks_ /\ callbacks_' = <<>> /\ pos' = 1
      /\ UNCHANGED <<posted, executed>>
      /\ carried' = carried \cup Range(callbacks_)
  BY DEF SwapBack
<1>2. DOMAIN callbacks_ = 1 .. Len(callbacks_)
  BY DEF TypeOK
<1> SUFFICES ASSUME NEW x, NEW y, x \notin carried', Behind(x, y)
             PROVE  Behind(x, y)'
  BY <1>1 DEF InLine, Behind, BehindShared, BehindLocal, BehindCalled
<1>3. BehindShared(x, y)'
  BY <1>1 DEF BehindShared
<1>4. BehindLocal(x, y)'
  BY <1>1, <1>2 DEF BehindLocal, Range
<1>5. BehindCalled(x, y)'
  BY <1>1 DEF Behind, BehindCalled
<1> QED
  BY <1>3, <1>4, <1>5 DEF Behind

\* What the for loop calls is behind all that were pushed before it: these are
\* neither in the shared vector nor further on in the local one, so they were called.
LEMMA RunInLine ==
    ASSUME IInv, InLine, RunCallback
    PROVE  InLine'
<1> USE DEF IInv
<1> DEFINE e == callback[pos]
<1>1. /\ pos \in Nat \ {0} /\ pos <= Len(callback) /\ pos' = pos + 1
      /\ executed' = IF e \in Tasks THEN Append(executed, e) ELSE executed
      /\ UNCHANGED <<callbacks_, callback, posted, carried>>
      /\ e \in Callables /\ Len(callback) \in Nat
  BY DEF RunCallback, TypeOK, Callables, Noted
<1>2. /\ DOMAIN executed = 1 .. Len(executed) /\ Len(executed) \in Nat
      /\ e \in Tasks => /\ DOMAIN executed' = 1 .. Len(executed) + 1
                        /\ \A i \in 1 .. Len(executed) : executed'[i] = executed[i]
                        /\ executed'[Len(executed) + 1] = e
  BY <1>1 DEF TypeOK
<1>3. Range(executed') = Range(executed) \cup ({e} \cap Tasks)
  BY <1>1, RangeAppend DEF TypeOK
<1>4. DOMAIN callbacks_ = 1 .. Len(callbacks_)
  BY DEF TypeOK
<1>5. \A i \in DOMAIN posted : posted[i] \in Range(posted)
  BY DEF Range
<1> HIDE DEF e
<1> SUFFICES ASSUME NEW x \in Range(posted), NEW y, x \notin carried, Behind(x, y)
             PROVE  Behind(x, y)'
  BY <1>1, <1>5 DEF InLine, Behind, BehindShared, BehindLocal, BehindCalled
<1>6. BehindShared(x, y)'
  BY <1>1 DEF Behind, BehindShared
<1>7. BehindLocal(x, y)'
  <2> SUFFICES ASSUME NEW k \in pos + 1 .. Len(callback), callback[k] = x,
                      y \notin Range(callbacks_)
               PROVE  \E l \in pos + 1 .. Len(callback) : k < l /\ callback[l] = y
    BY <1>1 DEF BehindLocal
  <2>1. PICK l \in pos .. Len(callback) : k < l /\ callback[l] = y
    BY <1>1 DEF Behind, BehindLocal
  <2> QED
    BY <2>1, <1>1
<1>8. BehindCalled(x, y)'
  <2>1. CASE y \in Range(executed)
    BY <2>1, <1>1, CalledGrows DEF Behind, BehindCalled
  <2>2. CASE y = e /\ e \in Tasks
    <3>1. e \in Remaining /\ e \notin Range(callbacks_)
      BY <1>1 DEF Remaining, NoTaskLostOrRunTwice, e
    <3>2. x \notin Range(callbacks_)
      BY <2>2, <3>1, <1>4 DEF Behind, BehindShared, Range
    <3>3. x \notin Remaining
      <4> SUFFICES ASSUME NEW k \in pos .. Len(callback), callback[k] = x PROVE FALSE
        BY DEF Remaining
      <4>1. PICK l \in pos .. Len(callback) : k < l /\ callback[l] = e
        BY <2>2, <3>1 DEF Behind, BehindLocal
      <4>2. l = pos
        BY <4>1, <1>1 DEF NoTaskLostOrRunTwice, e
      <4> QED
        BY <4>1, <4>2, <1>1
    <3>4. PICK m \in 1 .. Len(executed) : executed[m] = x
      BY <3>2, <3>3, <1>2 DEF NoTaskLostOrRunTwice, Range
    <3>5. /\ m \in DOMAIN executed' /\ Len(executed) + 1 \in DOMAIN executed'
          /\ m < Len(executed) + 1
          /\ executed'[m] = x /\ executed'[Len(executed) + 1] = y
      BY <3>4, <2>2, <1>2
    <3> QED
      BY <3>5 DEF BehindCalled
  <2>3. CASE y \notin Range(executed) \cup ({e} \cap Tasks)
    BY <2>3, <1>3 DEF BehindCalled
  <2> QED
    BY <2>1, <2>2, <2>3
<1> QED
  BY <1>6, <1>7, <1>8 DEF Behind

\* What runInLoop calls in place was never pushed.
LEMMA InPlaceInLine ==
    ASSUME IInv, InLine, NEW task \in Tasks, RunInPlace(task)
    PROVE  InLine'
<1> USE DEF IInv
<1>1. /\ executed' = Append(executed, task) /\ task \notin Range(posted)
      /\ UNCHANGED <<callbacks_, callback, pos, posted, carried>>
  BY DEF RunInPlace, loopVars, Issued
<1>2. Range(executed') = Range(executed) \cup {task}
  BY <1>1, RangeAppend DEF TypeOK
<1> SUFFICES ASSUME NEW x, NEW y \in Range(posted), Behind(x, y)
             PROVE  Behind(x, y)'
  BY <1>1 DEF InLine, Range, Behind, BehindShared, BehindLocal, BehindCalled
<1>3. BehindShared(x, y)' /\ BehindLocal(x, y)'
  BY <1>1 DEF Behind, BehindShared, BehindLocal
<1>4. BehindCalled(x, y)'
  <2>1. CASE y \in Range(executed)
    BY <2>1, <1>1, CalledGrows DEF Behind
  <2>2. CASE y \notin Range(executed)
    BY <2>2, <1>1, <1>2 DEF BehindCalled
  <2> QED
    BY <2>1, <2>2
<1> QED
  BY <1>3, <1>4 DEF Behind

\* Every step keeps the tasks in line.
LEMMA NextInLine == IInv /\ InLine /\ [Next]_vars => InLine'
<1> SUFFICES ASSUME IInv, InLine, [Next]_vars PROVE InLine'
  OBVIOUS
<1>1. CASE Start  BY <1>1, FrameInLine DEF Start
<1>2. CASE While  BY <1>2, FrameInLine DEF While
<1>3. CASE Poll  BY <1>3, FrameInLine DEF Poll
<1>4. CASE HandleRead  BY <1>4, FrameInLine DEF HandleRead
<1>5. CASE HandleIo  BY <1>5, FrameInLine DEF HandleIo
<1>6. CASE Swap  BY <1>6, SwapInLine
<1>7. CASE RunCallback  BY <1>7, RunInLine
<1>8. CASE SwapBack  BY <1>8, SwapBackInLine
<1>9. CASE PollInterrupted  BY <1>9, FrameInLine DEF PollInterrupted
<1>10. CASE IoReady  BY <1>10, FrameInLine DEF IoReady, loopVars
<1>11. CASE QuitInPlace  BY <1>11, FrameInLine DEF QuitInPlace, loopVars
<1>12. ASSUME NEW task \in Tasks, RunInPlace(task) PROVE InLine'
  BY <1>12, InPlaceInLine
<1>13. ASSUME NEW t \in Threads, NEW task \in Callables, Post(t, task) PROVE InLine'
  BY <1>13, PostInLine, PostRecurringInLine DEF Callables
<1>14. ASSUME NEW t \in Threads, WakeUp(t) PROVE InLine'
  BY <1>14, FrameInLine DEF WakeUp, loopVars
<1>15. ASSUME NEW t \in Threads, Quit(t) PROVE InLine'
  BY <1>15, FrameInLine DEF Quit, loopVars
<1>16. CASE UNCHANGED vars  BY <1>16, FrameInLine DEF vars, loopVars
<1> QED
  BY <1>1, <1>2, <1>3, <1>4, <1>5, <1>6, <1>7, <1>8, <1>9, <1>10, <1>11, <1>12,
     <1>13, <1>14, <1>15, <1>16 DEF Next, LoopStep, Callables

\* However many threads push whatever number of tasks: a task overtakes another
\* only if the second swap of loop() has set that one aside.
THEOREM TasksInOrder == Spec => []OvertakesOnlyCarried
<1>1. Init => IInv /\ InLine
  BY InitType, InitWake, InitTasks DEF IInv, InLine, Init
<1>2. IInv /\ [Next]_vars => IInv'
  BY NextType, NextWake, NextTasks DEF IInv
<1>3. InLine => OvertakesOnlyCarried
  BY DEF InLine, Behind, BehindCalled, OvertakesOnlyCarried
<1> QED
  BY <1>1, <1>2, <1>3, NextInLine, PTL DEF Spec
=============================================================================
