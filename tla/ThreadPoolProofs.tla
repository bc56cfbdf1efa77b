-------------------------- MODULE ThreadPoolProofs --------------------------
(***************************************************************************)
(* ThreadPool for any number of workers, clients and tasks.                *)
(*                                                                         *)
(* commit pushes under the lock but notifies without it.  What saves it is *)
(* that a worker goes from its test of the predicate to its wait with the  *)
(* lock: while one is on the way, nothing can be queued (AsleepOnNothing), *)
(* so that whoever queues later finds it waiting.                          *)
(***************************************************************************)
EXTENDS ThreadPool, FiniteSetTheorems, SequenceTheorems, TLAPS

PCs == {"while", "lock", "test", "sleep", "waits", "take", "begin", "task", "end", "ended"}

Resting == {w \in Workers : pc[w] \notin {"task", "end"}}

\* TypeOK but for the range of idle, which follows from IdleIsCounted.
Types ==
    /\ run \in BOOLEAN
    /\ tasks \in Seq(Tasks)
    /\ lock \in Workers \cup {None}
    /\ idle \in Int
    /\ pc \in [Workers -> PCs]
    /\ hand \in [Workers -> Tasks \cup {None}]
    /\ commits \in [Threads -> {"out", "push", "notify"}]
    /\ arg \in [Threads -> Tasks \cup {None}]
    /\ \A t \in Threads : commits[t] = "push" => arg[t] \in Tasks
    /\ \A w \in Workers : pc[w] = "task" => hand[w] \in Tasks
    /\ \A w \in Workers : pc[w] = "begin" => hand[w] \in Tasks
    /\ owner \in {"owns", "stopped", "joins", "gone"}
    /\ committed \in Seq(Tasks) /\ ran \subseteq Tasks

\* The lock belongs to the worker that is inside its block.
LockIsHeld == \A w \in Workers : pc[w] \in {"test", "sleep", "take"} => lock = w

\* A worker that goes to sleep has seen the queue empty, and it still is.
AsleepOnNothing == \A w \in Workers : pc[w] = "sleep" => tasks = <<>>

\* A worker that takes a task of a running pool finds one.
TakesSomething == \A w \in Workers : pc[w] = "take" => ~run \/ tasks # <<>>

IInv == Types /\ LockIsHeld /\ AsleepOnNothing /\ TakesSomething /\ NoTaskIsSleptOn /\ IdleIsCounted

\* The tasks that have left the queue.
Dequeued == {committed[i] : i \in 1 .. Len(committed) - Len(tasks)}

\* Where a task can be: it is committed by one thread, then queued once, then in
\* the hand of one worker, and then run.
CommittedOnce ==
    /\ \A i, j \in 1 .. Len(committed) : i # j => committed[i] # committed[j]
    /\ \A t \in Threads : arg[t] # None =>
          /\ \A i \in 1 .. Len(committed) : committed[i] # arg[t]
          /\ \A u \in Threads \ {t} : arg[u] # arg[t]

HeldOnce ==
    /\ \A w \in Workers : hand[w] # None <=> pc[w] \in {"begin", "task"}
    /\ \A w \in Held : /\ hand[w] \in Dequeued /\ hand[w] \notin ran
                      /\ \A v \in Held \ {w} : hand[v] # hand[w]
    /\ ran \subseteq Dequeued /\ IsFiniteSet(ran)

QueueOrder ==
    /\ Len(tasks) <= Len(committed)
    /\ \A i \in 1 .. Len(tasks) : tasks[i] = committed[Len(committed) - Len(tasks) + i]

Count == Len(committed) = Len(tasks) + Cardinality(Held) + Cardinality(ran)

KInv == CommittedOnce /\ HeldOnce /\ QueueOrder /\ Count
-----------------------------------------------------------------------------
\* The invariant holds at the start.
LEMMA InitIInv == Init => IInv
<1> SUFFICES ASSUME Init PROVE IInv
  OBVIOUS
<1>1. Types
  <2>1. IsFiniteSet(Workers) /\ Cardinality(Workers) \in Int
    BY ThreadPoolAssumption, FS_CardinalityType
  <2>2. <<>> \in Seq(Tasks)
    OBVIOUS
  <2>3. QED  BY <2>1, <2>2 DEF Init, Types, PCs, Threads
<1>2. LockIsHeld /\ AsleepOnNothing /\ TakesSomething
  BY DEF Init, LockIsHeld, AsleepOnNothing, TakesSomething
<1>3. NoTaskIsSleptOn
  BY DEF Init, NoTaskIsSleptOn
<1>4. IdleIsCounted
  <2>1. {w \in Workers : pc[w] \notin {"task", "end"}} = Workers
    BY DEF Init
  <2>2. QED  BY <2>1 DEF Init, IdleIsCounted
<1>5. QED  BY <1>1, <1>2, <1>3, <1>4 DEF IInv

\* commit and its notification.
LEMMA CommitStep ==
    ASSUME IInv, NEW t \in Threads, NEW k \in Tasks, Commit(t, k)
    PROVE  IInv'
<1>1. Types'
  BY DEF IInv, Types, Commit
<1>2. (LockIsHeld /\ AsleepOnNothing /\ TakesSomething)'
  BY DEF IInv, Commit, LockIsHeld, AsleepOnNothing, TakesSomething
<1>3. NoTaskIsSleptOn'
  BY DEF IInv, Types, Commit, NoTaskIsSleptOn
<1>4. IdleIsCounted'
  BY DEF IInv, Commit, IdleIsCounted
<1>5. QED  BY <1>1, <1>2, <1>3, <1>4 DEF IInv

\* The critical section of commit, after which its caller owes a notification.
LEMMA PushStep ==
    ASSUME IInv, NEW t \in Threads, Push(t)
    PROVE  IInv'
<1>1. tasks' \in Seq(Tasks) /\ tasks' # <<>> /\ committed' \in Seq(Tasks)
  BY DEF IInv, Types, Push
<1>2. Types'
  <2>1. /\ commits' \in [Threads -> {"out", "push", "notify"}]
        /\ arg' \in [Threads -> Tasks \cup {None}]
        /\ \A u \in Threads : commits'[u] = "push" => arg'[u] \in Tasks
    BY DEF IInv, Types, Push
  <2>2. UNCHANGED <<run, lock, idle, pc, hand, owner, ran>>
    BY DEF Push
  <2>3. QED  BY <1>1, <2>1, <2>2 DEF IInv, Types
<1>3. \A w \in Workers : pc[w] \notin {"test", "sleep", "take"}
  BY ThreadPoolAssumption DEF IInv, LockIsHeld, Push, Threads
<1>4. (LockIsHeld /\ AsleepOnNothing /\ TakesSomething)'
  BY <1>3 DEF Push, LockIsHeld, AsleepOnNothing, TakesSomething
<1>5. NoTaskIsSleptOn'
  BY DEF IInv, Types, Push, NoTaskIsSleptOn
<1>6. IdleIsCounted'
  BY DEF IInv, Push, IdleIsCounted
<1>7. QED  BY <1>2, <1>4, <1>5, <1>6 DEF IInv

\* A worker that is woken rests before and after.
LEMMA WokenStep ==
    ASSUME IInv, NEW S \in SUBSET Waiting,
           pc' = [w \in Workers |-> IF w \in S THEN "lock" ELSE pc[w]]
    PROVE  /\ pc' \in [Workers -> PCs]
           /\ \A w \in Workers : pc'[w] \in {"task", "end", "begin", "test", "sleep", "take"} => pc[w] = pc'[w]
           /\ Resting' = Resting
<1>1. pc \in [Workers -> PCs] /\ \A w \in S : w \in Workers /\ pc[w] = "waits"
  BY DEF IInv, Types, Waiting
<1>2. QED  BY <1>1 DEF PCs, Resting

\* Its notification.
LEMMA NotifyOneStep ==
    ASSUME IInv, NEW t \in Threads, NotifyOne(t)
    PROVE  IInv'
<1>1. PICK S \in SUBSET Waiting :
          /\ pc' = [w \in Workers |-> IF w \in S THEN "lock" ELSE pc[w]]
          /\ S = {} => Waiting = {}
  <2>1. pc \in [Workers -> PCs]
    BY DEF IInv, Types
  <2>2. CASE Waiting = {}
    <3>1. pc' = [w \in Workers |-> IF w \in {} THEN "lock" ELSE pc[w]]
      BY <2>1, <2>2 DEF NotifyOne
    <3>2. QED  BY <2>2, <3>1
  <2>3. CASE Waiting # {}
    <3>1. PICK v \in Waiting : pc' = [pc EXCEPT ![v] = "lock"]
      BY <2>3 DEF NotifyOne
    <3>2. pc' = [w \in Workers |-> IF w \in {v} THEN "lock" ELSE pc[w]]
      BY <2>1, <3>1
    <3>3. QED  BY <3>2
  <2>4. QED  BY <2>2, <2>3
<1>2. /\ pc' \in [Workers -> PCs] /\ Resting' = Resting
      /\ \A w \in Workers : pc'[w] \in {"task", "end", "begin", "test", "sleep", "take"} => pc[w] = pc'[w]
  BY <1>1, WokenStep
<1>3. Types'
  BY <1>2 DEF IInv, Types, NotifyOne, commitVars
<1>4. (LockIsHeld /\ AsleepOnNothing /\ TakesSomething)'
  BY <1>2 DEF IInv, NotifyOne, LockIsHeld, AsleepOnNothing, TakesSomething
<1>5. \E w \in Workers : pc'[w] # "waits"
  <2>1. CASE S = {}
    <3>1. PICK w \in Workers : TRUE
      BY ThreadPoolAssumption
    <3>2. pc[w] # "waits" /\ pc'[w] = pc[w]
      BY <1>1, <2>1 DEF Waiting
    <3>3. QED  BY <3>2
  <2>2. CASE S # {}
    <3>1. PICK w \in S : TRUE
      BY <2>2
    <3>2. w \in Workers /\ pc'[w] = "lock"
      BY <1>1, <3>1 DEF Waiting
    <3>3. QED  BY <3>2
  <2>3. QED  BY <2>1, <2>2
<1>6. NoTaskIsSleptOn'
  BY <1>5 DEF NoTaskIsSleptOn
<1>7. IdleIsCounted'
  BY <1>2 DEF IInv, NotifyOne, IdleIsCounted, Resting
<1>8. QED  BY <1>3, <1>4, <1>6, <1>7 DEF IInv

\* A step of worker w within the part of its loop where it rests.
LEMMA RestingKept ==
    ASSUME Types, NEW w \in Workers, NEW where \in PCs, GoTo(w, where),
           pc[w] \in {"task", "end"} <=> where \in {"task", "end"}
    PROVE  Resting' = Resting
<1>1. pc \in [Workers -> PCs]
  BY DEF Types
<1>2. QED  BY <1>1 DEF GoTo, Resting

\* The steps of a worker that change neither the queue nor idle, and neither
\* take the lock nor go to sleep or to take.
LEMMA WhileStep ==
    ASSUME IInv, NEW w \in Workers, While(w)
    PROVE  IInv'
<1> DEFINE where == IF run THEN "lock" ELSE "ended"
<1>1. where \in PCs /\ GoTo(w, where) /\ pc[w] = "while" /\ Types
  BY DEF While, PCs, IInv
<1>2. Resting' = Resting
  BY <1>1, RestingKept
<1>3. Types'
  BY <1>1 DEF Types, While, GoTo, commitVars
<1>4. (LockIsHeld /\ AsleepOnNothing /\ TakesSomething)'
  BY DEF IInv, Types, While, GoTo, LockIsHeld, AsleepOnNothing, TakesSomething
<1>5. NoTaskIsSleptOn'
  BY DEF IInv, Types, While, GoTo, NoTaskIsSleptOn
<1>6. IdleIsCounted'
  BY <1>2 DEF IInv, While, IdleIsCounted, Resting
<1>7. QED  BY <1>3, <1>4, <1>5, <1>6 DEF IInv

\* A worker takes the lock that nobody holds.
LEMMA LockStep ==
    ASSUME IInv, NEW w \in Workers, Lock(w)
    PROVE  IInv'
<1>1. "test" \in PCs /\ GoTo(w, "test") /\ pc[w] = "lock" /\ Types
  BY DEF Lock, PCs, IInv
<1>2. Resting' = Resting
  BY <1>1, RestingKept
<1>3. Types'
  BY <1>1 DEF Types, Lock, GoTo, commitVars
<1>4. \A v \in Workers : pc[v] \notin {"test", "sleep", "take"}
  BY ThreadPoolAssumption DEF IInv, LockIsHeld, Lock, Threads
<1>5. (LockIsHeld /\ AsleepOnNothing /\ TakesSomething)'
  BY <1>4 DEF IInv, Types, Lock, GoTo, LockIsHeld, AsleepOnNothing, TakesSomething
<1>6. NoTaskIsSleptOn'
  BY DEF IInv, Types, Lock, GoTo, NoTaskIsSleptOn
<1>7. IdleIsCounted'
  BY <1>2 DEF IInv, Lock, IdleIsCounted, Resting
<1>8. QED  BY <1>3, <1>5, <1>6, <1>7 DEF IInv

\* It looks at _run and at the queue, under the lock.
LEMMA TestStep ==
    ASSUME IInv, NEW w \in Workers, Test(w)
    PROVE  IInv'
<1> DEFINE where == IF ~run \/ tasks # <<>> THEN "take" ELSE "sleep"
<1>1. where \in PCs /\ GoTo(w, where) /\ pc[w] = "test" /\ Types
  BY DEF Test, PCs, IInv
<1>2. Resting' = Resting
  BY <1>1, RestingKept
<1>3. Types'
  BY <1>1 DEF Types, Test, GoTo, commitVars
<1>4. (LockIsHeld /\ AsleepOnNothing /\ TakesSomething)'
  BY DEF IInv, Types, Test, GoTo, LockIsHeld, AsleepOnNothing, TakesSomething
<1>5. NoTaskIsSleptOn'
  BY DEF IInv, Types, Test, GoTo, NoTaskIsSleptOn
<1>6. IdleIsCounted'
  BY <1>2 DEF IInv, Test, IdleIsCounted, Resting
<1>7. QED  BY <1>3, <1>4, <1>5, <1>6 DEF IInv

\* wait() blocks: the queue is empty, so that there is no task to sleep on.
LEMMA SleepStep ==
    ASSUME IInv, NEW w \in Workers, Sleep(w)
    PROVE  IInv'
<1>1. "waits" \in PCs /\ GoTo(w, "waits") /\ pc[w] = "sleep" /\ Types
  BY DEF Sleep, PCs, IInv
<1>2. Resting' = Resting
  BY <1>1, RestingKept
<1>3. Types'
  BY <1>1 DEF Types, Sleep, GoTo, commitVars
<1>4. \A v \in Workers : pc[v] \in {"test", "sleep", "take"} => v = w
  BY <1>1 DEF IInv, LockIsHeld
<1>5. (LockIsHeld /\ AsleepOnNothing /\ TakesSomething)'
  BY <1>1, <1>4 DEF IInv, Types, Sleep, GoTo, LockIsHeld, AsleepOnNothing, TakesSomething
<1>6. tasks' = <<>>
  BY <1>1 DEF IInv, AsleepOnNothing, Sleep
<1>7. NoTaskIsSleptOn'
  BY <1>6 DEF NoTaskIsSleptOn
<1>8. IdleIsCounted'
  BY <1>2 DEF IInv, Sleep, IdleIsCounted, Resting
<1>9. QED  BY <1>3, <1>5, <1>7, <1>8 DEF IInv

\* wait() may return without a notification.
LEMMA SpuriousStep ==
    ASSUME IInv, NEW w \in Workers, Spurious(w)
    PROVE  IInv'
<1>1. "lock" \in PCs /\ GoTo(w, "lock") /\ pc[w] = "waits" /\ Types
  BY DEF Spurious, PCs, IInv
<1>2. Resting' = Resting
  BY <1>1, RestingKept
<1>3. Types'
  BY <1>1 DEF Types, Spurious, GoTo, commitVars
<1>4. (LockIsHeld /\ AsleepOnNothing /\ TakesSomething)'
  BY DEF IInv, Types, Spurious, GoTo, LockIsHeld, AsleepOnNothing, TakesSomething
<1>5. NoTaskIsSleptOn'
  BY DEF IInv, Types, Spurious, GoTo, NoTaskIsSleptOn
<1>6. IdleIsCounted'
  BY <1>2 DEF IInv, Spurious, IdleIsCounted, Resting
<1>7. QED  BY <1>3, <1>4, <1>5, <1>6 DEF IInv

\* A worker takes the front of the queue, or leaves.
LEMMA TakeStep ==
    ASSUME IInv, NEW w \in Workers, Take(w)
    PROVE  IInv'
<1>1. pc[w] = "take" /\ Types /\ lock' = None
  BY DEF Take, IInv
<1>2. \A v \in Workers : pc[v] \in {"test", "sleep", "take"} => v = w
  BY <1>1 DEF IInv, LockIsHeld
<1>3. /\ UNCHANGED <<run, idle, commits, arg, owner, committed, ran>>
      /\ \/ GoTo(w, "ended") /\ UNCHANGED <<tasks, hand>>
         \/ /\ tasks # <<>> /\ hand' = [hand EXCEPT ![w] = tasks[1]]
            /\ tasks' = Tail(tasks) /\ GoTo(w, "begin")
  BY <1>1 DEF Take, commitVars, IInv, TakesSomething
<1>4. "ended" \in PCs /\ "begin" \in PCs
  BY DEF PCs
<1>5. Resting' = Resting
  BY <1>1, <1>3, <1>4, RestingKept
<1>6. tasks # <<>> => tasks[1] \in Tasks /\ Tail(tasks) \in Seq(Tasks)
  BY <1>1 DEF Types
<1>7. Types'
  <2>1. CASE GoTo(w, "ended") /\ UNCHANGED <<tasks, hand>>
    BY <1>1, <1>3, <1>4, <2>1 DEF Types, GoTo
  <2>2. CASE /\ tasks # <<>> /\ hand' = [hand EXCEPT ![w] = tasks[1]]
             /\ tasks' = Tail(tasks) /\ GoTo(w, "begin")
    BY <1>1, <1>3, <1>4, <1>6, <2>2 DEF Types, GoTo
  <2>3. QED  BY <1>3, <2>1, <2>2
<1>8. (LockIsHeld /\ AsleepOnNothing /\ TakesSomething)'
  BY <1>1, <1>2, <1>3 DEF Types, GoTo, LockIsHeld, AsleepOnNothing, TakesSomething
<1>9. \E v \in Workers : pc'[v] # "waits"
  BY <1>1, <1>3 DEF Types, GoTo
<1>10. NoTaskIsSleptOn'
  BY <1>9 DEF NoTaskIsSleptOn
<1>11. IdleIsCounted'
  BY <1>3, <1>5 DEF IInv, IdleIsCounted, Resting
<1>12. QED  BY <1>7, <1>8, <1>10, <1>11 DEF IInv

\* A worker that begins no longer rests: the set loses it, and idle goes down.
LEMMA BeginStep ==
    ASSUME IInv, NEW w \in Workers, Begin(w)
    PROVE  IInv'
<1>1. "task" \in PCs /\ GoTo(w, "task") /\ pc[w] = "begin" /\ Types
  BY DEF Begin, PCs, IInv
<1>2. Resting' = Resting \ {w} /\ w \in Resting
  BY <1>1 DEF Types, GoTo, Resting
<1>3. Types'
  BY <1>1 DEF Types, Begin, GoTo, commitVars
<1>4. (LockIsHeld /\ AsleepOnNothing /\ TakesSomething)'
  BY DEF IInv, Types, Begin, GoTo, LockIsHeld, AsleepOnNothing, TakesSomething
<1>5. NoTaskIsSleptOn'
  BY DEF IInv, Types, Begin, GoTo, NoTaskIsSleptOn
<1>6. IdleIsCounted'
  <2>1. IsFiniteSet(Resting)
    BY ThreadPoolAssumption, FS_Subset DEF Resting
  <2>2. Cardinality(Resting \ {w}) = Cardinality(Resting) - 1
    BY <1>2, <2>1, FS_RemoveElement
  <2>3. idle' = idle - 1 /\ idle = Cardinality(Resting)
    BY DEF Begin, IInv, IdleIsCounted, Resting
  <2>4. idle' = Cardinality(Resting')
    BY <1>2, <2>2, <2>3
  <2>5. QED  BY <2>4 DEF IdleIsCounted, Resting
<1>7. QED  BY <1>3, <1>4, <1>5, <1>6 DEF IInv

\* The task itself, between the two changes of the idle count.
LEMMA RunStep ==
    ASSUME IInv, NEW w \in Workers, Run(w)
    PROVE  IInv'
<1>1. "end" \in PCs /\ GoTo(w, "end") /\ pc[w] = "task" /\ Types
  BY DEF Run, PCs, IInv
<1>2. Resting' = Resting
  BY <1>1, RestingKept
<1>3. hand[w] \in Tasks
  BY <1>1 DEF Types
<1>4. Types'
  BY <1>1, <1>3 DEF Types, Run, GoTo, commitVars
<1>5. (LockIsHeld /\ AsleepOnNothing /\ TakesSomething)'
  BY DEF IInv, Types, Run, GoTo, LockIsHeld, AsleepOnNothing, TakesSomething
<1>6. NoTaskIsSleptOn'
  BY DEF IInv, Types, Run, GoTo, NoTaskIsSleptOn
<1>7. IdleIsCounted'
  BY <1>2 DEF IInv, Run, IdleIsCounted, Resting
<1>8. QED  BY <1>4, <1>5, <1>6, <1>7 DEF IInv

\* A worker that ends a task rests again, and idle goes up.
LEMMA EndStep ==
    ASSUME IInv, NEW w \in Workers, End(w)
    PROVE  IInv'
<1>1. "while" \in PCs /\ GoTo(w, "while") /\ pc[w] = "end" /\ Types
  BY DEF End, PCs, IInv
<1>2. Resting' = Resting \cup {w} /\ w \notin Resting
  BY <1>1 DEF Types, GoTo, Resting
<1>3. Types'
  BY <1>1 DEF Types, End, GoTo, commitVars
<1>4. (LockIsHeld /\ AsleepOnNothing /\ TakesSomething)'
  BY DEF IInv, Types, End, GoTo, LockIsHeld, AsleepOnNothing, TakesSomething
<1>5. NoTaskIsSleptOn'
  BY DEF IInv, Types, End, GoTo, NoTaskIsSleptOn
<1>6. IdleIsCounted'
  <2>1. IsFiniteSet(Resting)
    BY ThreadPoolAssumption, FS_Subset DEF Resting
  <2>2. Cardinality(Resting \cup {w}) = Cardinality(Resting) + 1
    BY <1>2, <2>1, FS_AddElement
  <2>3. idle' = idle + 1 /\ idle = Cardinality(Resting)
    BY DEF End, IInv, IdleIsCounted, Resting
  <2>4. idle' = Cardinality(Resting')
    BY <1>2, <2>2, <2>3
  <2>5. QED  BY <2>4 DEF IdleIsCounted, Resting
<1>7. QED  BY <1>3, <1>4, <1>5, <1>6 DEF IInv

\* The destructor.
LEMMA StopStep == IInv /\ Stop => IInv'
<1> SUFFICES ASSUME IInv, Stop PROVE IInv'
  OBVIOUS
<1>1. Types'
  BY DEF IInv, Types, Stop, commitVars
<1>2. (LockIsHeld /\ AsleepOnNothing /\ TakesSomething)'
  BY DEF IInv, Stop, LockIsHeld, AsleepOnNothing, TakesSomething
<1>3. NoTaskIsSleptOn' /\ IdleIsCounted'
  BY DEF IInv, Stop, NoTaskIsSleptOn, IdleIsCounted
<1>4. QED  BY <1>1, <1>2, <1>3 DEF IInv

\* The destructor's notification.
LEMMA NotifyAllStep == IInv /\ NotifyAll => IInv'
<1> SUFFICES ASSUME IInv, NotifyAll PROVE IInv'
  OBVIOUS
<1>1. pc' = [w \in Workers |-> IF w \in Waiting THEN "lock" ELSE pc[w]]
  BY DEF NotifyAll, Waiting
<1>2. /\ pc' \in [Workers -> PCs] /\ Resting' = Resting
      /\ \A w \in Workers : pc'[w] \in {"task", "end", "begin", "test", "sleep", "take"} => pc[w] = pc'[w]
  <2>1. Waiting \in SUBSET Waiting
    OBVIOUS
  <2>2. QED  BY <1>1, <2>1, WokenStep
<1>3. Types'
  BY <1>2 DEF IInv, Types, NotifyAll, commitVars
<1>4. (LockIsHeld /\ AsleepOnNothing /\ TakesSomething)'
  BY <1>2 DEF IInv, NotifyAll, LockIsHeld, AsleepOnNothing, TakesSomething
<1>5. \A w \in Workers : pc'[w] # "waits"
  BY <1>1 DEF Waiting
<1>6. NoTaskIsSleptOn'
  <2>1. PICK w \in Workers : TRUE
    BY ThreadPoolAssumption
  <2>2. QED  BY <1>5, <2>1 DEF NoTaskIsSleptOn
<1>7. IdleIsCounted'
  BY <1>2 DEF IInv, NotifyAll, IdleIsCounted, Resting
<1>8. QED  BY <1>3, <1>4, <1>6, <1>7 DEF IInv

\* The destructor returns.
LEMMA JoinStep == IInv /\ Join => IInv'
<1> SUFFICES ASSUME IInv, Join PROVE IInv'
  OBVIOUS
<1>1. Types'
  BY DEF IInv, Types, Join, commitVars
<1>2. (LockIsHeld /\ AsleepOnNothing /\ TakesSomething)'
  BY DEF IInv, Join, LockIsHeld, AsleepOnNothing, TakesSomething
<1>3. NoTaskIsSleptOn' /\ IdleIsCounted'
  BY DEF IInv, Join, commitVars, NoTaskIsSleptOn, IdleIsCounted
<1>4. QED  BY <1>1, <1>2, <1>3 DEF IInv
-----------------------------------------------------------------------------
\* Every step keeps the invariant.
LEMMA NextIInv == IInv /\ [Next]_vars => IInv'
<1> SUFFICES ASSUME IInv, [Next]_vars PROVE IInv'
  OBVIOUS
<1>1. ASSUME NEW t \in Threads, (\E k \in Tasks : Commit(t, k)) \/ Enqueue(t)
      PROVE  IInv'
  BY <1>1, CommitStep, PushStep, NotifyOneStep DEF Enqueue
<1>2. ASSUME NEW w \in Workers, Work(w) \/ Spurious(w)
      PROVE  IInv'
  BY <1>2, WhileStep, LockStep, TestStep, SleepStep, SpuriousStep, TakeStep,
     BeginStep, RunStep, EndStep DEF Work
<1>3. CASE Stop \/ NotifyAll \/ Join
  BY <1>3, StopStep, NotifyAllStep, JoinStep
<1>4. CASE UNCHANGED vars
  BY <1>4 DEF vars, commitVars, IInv, Types, LockIsHeld, AsleepOnNothing, TakesSomething,
              NoTaskIsSleptOn, IdleIsCounted
<1>5. QED  BY <1>1, <1>2, <1>3, <1>4 DEF Next

\* The invariant holds always.
LEMMA Invariance == Spec => []IInv
<1>1. QED  BY InitIInv, NextIInv, PTL DEF Spec

\* The variables keep their types; the count of idle workers is never negative
\* and never more than the number of workers.
THEOREM TypeCorrect == Spec => []TypeOK
<1>1. ASSUME IInv PROVE TypeOK
  <2>1. IsFiniteSet(Resting) /\ Cardinality(Resting) <= Cardinality(Workers)
    BY ThreadPoolAssumption, FS_Subset DEF Resting
  <2>2. Cardinality(Resting) \in Nat /\ Cardinality(Workers) \in Nat
    BY ThreadPoolAssumption, <2>1, FS_CardinalityType
  <2>3. idle \in 0 .. Cardinality(Workers)
    BY <1>1, <2>1, <2>2 DEF IInv, IdleIsCounted, Resting
  <2>4. QED  BY <1>1, <2>3 DEF IInv, Types, TypeOK, PCs
<1>2. IInv => TypeOK
  BY <1>1
<1>3. QED  BY Invariance, <1>2, PTL

\* With a task in the queue of a running pool a worker is awake, or a commit is
\* about to wake one.
THEOREM TasksWakeWorkers == Spec => []NoTaskIsSleptOn
<1>1. IInv => NoTaskIsSleptOn
  BY DEF IInv
<1>2. QED  BY Invariance, <1>1, PTL

\* idlCount() counts the workers that are not in the middle of a task.
THEOREM IdleCount == Spec => []IdleIsCounted
<1>1. IInv => IdleIsCounted
  BY DEF IInv
<1>2. QED  BY Invariance, <1>1, PTL
-----------------------------------------------------------------------------
(* Where the tasks are.                                                    *)

LEMMA InitKInv == Init => KInv
<1> SUFFICES ASSUME Init PROVE KInv
  OBVIOUS
<1>1. Held = {} /\ ran = {} /\ Len(committed) = 0 /\ Len(tasks) = 0
  BY DEF Init, Held
<1>2. CommittedOnce /\ QueueOrder
  BY <1>1 DEF Init, CommittedOnce, QueueOrder, Threads
<1>3. HeldOnce /\ Count
  BY <1>1, FS_EmptySet DEF Init, HeldOnce, Count
<1>4. QED  BY <1>2, <1>3 DEF KInv

\* A step that leaves the tasks where they are.
LEMMA TasksStay ==
    ASSUME KInv, UNCHANGED <<tasks, hand, arg, committed, ran>>,
           \A w \in Workers : pc'[w] \in {"begin", "task"} <=> pc[w] \in {"begin", "task"}
    PROVE  KInv'
<1>1. CommittedOnce' /\ QueueOrder' /\ Count'
  BY DEF KInv, CommittedOnce, QueueOrder, Count, Held
<1>2. HeldOnce'
  BY DEF KInv, HeldOnce, Held, Dequeued
<1>3. QED  BY <1>1, <1>2 DEF KInv

LEMMA CommitKept ==
    ASSUME IInv, KInv, NEW t \in Threads, NEW k \in Tasks, Commit(t, k)
    PROVE  KInv'
<1>1. /\ UNCHANGED <<tasks, pc, hand, committed, ran>> /\ arg' = [arg EXCEPT ![t] = k]
      /\ arg \in [Threads -> Tasks \cup {None}]
  BY DEF Commit, IInv, Types
<1>2. /\ \A u \in Threads : arg[u] # k
      /\ \A i \in 1 .. Len(committed) : committed[i] # k
  BY DEF Commit, Fresh
<1>3. CommittedOnce'
  BY <1>1, <1>2 DEF KInv, CommittedOnce
<1>4. QueueOrder' /\ Count'
  BY <1>1 DEF KInv, QueueOrder, Count, Held
<1>5. HeldOnce'
  BY <1>1 DEF KInv, HeldOnce, Held, Dequeued
<1>6. QED  BY <1>3, <1>4, <1>5 DEF KInv

LEMMA PushKept ==
    ASSUME IInv, KInv, NEW t \in Threads, Push(t)
    PROVE  KInv'
<1> DEFINE n == Len(committed)
           m == Len(tasks)
<1>1. /\ UNCHANGED <<pc, hand, ran>> /\ arg' = [arg EXCEPT ![t] = None]
      /\ arg \in [Threads -> Tasks \cup {None}] /\ arg[t] \in Tasks /\ arg[t] # None
      /\ tasks' = Append(tasks, arg[t]) /\ committed' = Append(committed, arg[t])
  BY ThreadPoolAssumption DEF Push, IInv, Types
<1>2. /\ n \in Nat /\ m \in Nat /\ m <= n
      /\ committed \in Seq(Tasks) /\ tasks \in Seq(Tasks)
  BY DEF KInv, QueueOrder, IInv, Types
<1>3. /\ Len(committed') = n + 1 /\ committed'[n + 1] = arg[t]
      /\ \A i \in 1 .. n : committed'[i] = committed[i]
      /\ Len(tasks') = m + 1 /\ tasks'[m + 1] = arg[t]
      /\ \A i \in 1 .. m : tasks'[i] = tasks[i]
  BY <1>1, <1>2
<1> HIDE DEF n, m
<1>4. CommittedOnce'
  <2>1. \A i \in 1 .. n : committed[i] # arg[t]
    BY <1>1 DEF KInv, CommittedOnce, n
  <2>2. ASSUME NEW i \in 1 .. n + 1, NEW j \in 1 .. n + 1, i # j
        PROVE  committed'[i] # committed'[j]
    BY <1>2, <1>3, <2>1, <2>2 DEF KInv, CommittedOnce, n
  <2>3. ASSUME NEW u \in Threads, arg'[u] # None
        PROVE  /\ \A i \in 1 .. n + 1 : committed'[i] # arg'[u]
               /\ \A v \in Threads \ {u} : arg'[v] # arg'[u]
    <3>1. u # t /\ arg'[u] = arg[u]
      BY <1>1, <2>3
    <3>2. /\ \A i \in 1 .. n : committed[i] # arg[u]
          /\ \A v \in Threads \ {u} : arg[v] # arg[u]
      BY <2>3, <3>1 DEF KInv, CommittedOnce, n
    <3>3. arg[t] # arg[u] /\ \A v \in Threads : arg'[v] \in {arg[v], None}
      BY <1>1, <3>1, <3>2
    <3>4. \A i \in 1 .. n + 1 : committed'[i] # arg[u]
      BY <1>2, <1>3, <3>2, <3>3
    <3>5. QED  BY <2>3, <3>1, <3>2, <3>3, <3>4
  <2>4. QED  BY <1>3, <2>2, <2>3 DEF CommittedOnce
<1>5. Dequeued' = Dequeued /\ Held' = Held
  <2>1. Len(committed') - Len(tasks') = n - m /\ n - m <= n
    BY <1>2, <1>3
  <2>2. QED  BY <1>1, <1>2, <1>3, <2>1 DEF Dequeued, Held, n, m
<1>6. HeldOnce'
  BY <1>1, <1>5 DEF KInv, HeldOnce
<1>7. QueueOrder'
  <2>1. ASSUME NEW i \in 1 .. m + 1
        PROVE  tasks'[i] = committed'[(n + 1) - (m + 1) + i]
    <3>1. CASE i = m + 1
      BY <1>2, <1>3, <3>1
    <3>2. CASE i \in 1 .. m
      <4>1. tasks[i] = committed[n - m + i]
        BY <3>2 DEF KInv, QueueOrder, n, m
      <4>2. n - m + i \in 1 .. n /\ (n + 1) - (m + 1) + i = n - m + i
        BY <1>2, <3>2
      <4>3. QED  BY <1>3, <3>2, <4>1, <4>2
    <3>3. QED  BY <1>2, <3>1, <3>2
  <2>2. QED  BY <1>2, <1>3, <2>1 DEF QueueOrder
<1>8. Count'
  <2>1. IsFiniteSet(ran) /\ IsFiniteSet(Held)
    BY ThreadPoolAssumption, FS_Subset DEF KInv, HeldOnce, Held
  <2>2. Cardinality(ran) \in Nat /\ Cardinality(Held) \in Nat
    BY <2>1, FS_CardinalityType
  <2>3. n = m + Cardinality(Held) + Cardinality(ran)
    BY DEF KInv, Count, n, m
  <2>4. n + 1 = (m + 1) + Cardinality(Held) + Cardinality(ran)
    BY <1>2, <2>2, <2>3
  <2>5. QED  BY <1>1, <1>3, <1>5, <2>4 DEF Count
<1>9. QED  BY <1>4, <1>6, <1>7, <1>8 DEF KInv

\* What leaves the queue is in the hand of the worker.
LEMMA TakeKept ==
    ASSUME IInv, KInv, NEW w \in Workers, Take(w), tasks # <<>>
    PROVE  KInv'
<1> DEFINE n == Len(committed)
           m == Len(tasks)
           k == tasks[1]
<1>1. /\ UNCHANGED <<arg, committed, ran>> /\ pc[w] = "take" /\ pc' = [pc EXCEPT ![w] = "begin"]
      /\ hand' = [hand EXCEPT ![w] = k] /\ tasks' = Tail(tasks)
      /\ pc \in [Workers -> PCs] /\ hand \in [Workers -> Tasks \cup {None}]
  BY DEF Take, GoTo, commitVars, IInv, Types
<1>2. /\ n \in Nat /\ m \in Nat /\ m <= n /\ m >= 1
      /\ committed \in Seq(Tasks) /\ tasks \in Seq(Tasks) /\ k \in Tasks /\ k # None
  BY ThreadPoolAssumption DEF KInv, QueueOrder, IInv, Types
<1>3. /\ Len(tasks') = m - 1 /\ \A i \in 1 .. m - 1 : tasks'[i] = tasks[i + 1]
  BY <1>1, <1>2
<1>4. k = committed[n - m + 1] /\ n - m + 1 \in 1 .. n
  <2>1. 1 \in 1 .. m
    BY <1>2
  <2>2. QED  BY <1>2, <2>1 DEF KInv, QueueOrder
<1> HIDE DEF n, m, k
<1>5. /\ Dequeued' = Dequeued \cup {k} /\ k \notin Dequeued
  <2>1. /\ Dequeued = {committed[i] : i \in 1 .. n - m}
        /\ Dequeued' = {committed[i] : i \in 1 .. n - m + 1}
    <3>1. Len(committed') - Len(tasks') = n - m + 1
      <4>1. Len(committed') = n /\ Len(tasks') = m - 1
        BY <1>1, <1>3 DEF n
      <4>2. n - (m - 1) = n - m + 1
        BY <1>2
      <4>3. QED  BY <4>1, <4>2
    <3>2. QED  BY <1>1, <3>1 DEF Dequeued, n, m
  <2>2. ASSUME NEW i \in 1 .. n - m
        PROVE  committed[i] # k
    BY <1>2, <1>4 DEF KInv, CommittedOnce, n
  <2>3. 1 .. n - m + 1 = (1 .. n - m) \cup {n - m + 1}
    BY <1>2
  <2>4. QED  BY <1>4, <2>1, <2>2, <2>3
<1>6. Held' = Held \cup {w} /\ w \notin Held /\ \A v \in Held : hand'[v] = hand[v]
  BY <1>1, <1>2 DEF KInv, HeldOnce, Held
<1>7. HeldOnce'
  <2>1. \A v \in Workers : hand'[v] # None <=> pc'[v] \in {"begin", "task"}
    BY <1>1, <1>2 DEF KInv, HeldOnce
  <2>2. \A v \in Held : hand[v] \in Dequeued /\ hand[v] # k
    BY <1>5 DEF KInv, HeldOnce
  <2>3. ran' \subseteq Dequeued' /\ IsFiniteSet(ran') /\ k \notin ran
    BY <1>1, <1>5 DEF KInv, HeldOnce
  <2>4. ASSUME NEW v \in Held'
        PROVE  /\ hand'[v] \in Dequeued' /\ hand'[v] \notin ran'
               /\ \A u \in Held' \ {v} : hand'[u] # hand'[v]
    BY <1>1, <1>5, <1>6, <2>2, <2>3 DEF KInv, HeldOnce
  <2>5. QED  BY <2>1, <2>3, <2>4 DEF HeldOnce
<1>8. CommittedOnce'
  BY <1>1 DEF KInv, CommittedOnce
<1>9. QueueOrder'
  <2>1. ASSUME NEW i \in 1 .. m - 1
        PROVE  tasks'[i] = committed[n - (m - 1) + i]
    <3>1. i + 1 \in 1 .. m /\ n - m + (i + 1) = n - (m - 1) + i
      BY <1>2
    <3>2. tasks[i + 1] = committed[n - m + (i + 1)]
      BY <3>1 DEF KInv, QueueOrder, n, m
    <3>3. QED  BY <1>3, <3>1, <3>2
  <2>2. QED  BY <1>1, <1>2, <1>3, <2>1 DEF QueueOrder, n
<1>10. Count'
  <2>1. IsFiniteSet(ran) /\ IsFiniteSet(Held)
    BY ThreadPoolAssumption, FS_Subset DEF KInv, HeldOnce, Held
  <2>2. Cardinality(ran) \in Nat /\ Cardinality(Held) \in Nat
    BY <2>1, FS_CardinalityType
  <2>3. n = m + Cardinality(Held) + Cardinality(ran)
    BY DEF KInv, Count, n, m
  <2>4. Cardinality(Held') = Cardinality(Held) + 1
    BY <1>6, <2>1, FS_AddElement
  <2>5. n = (m - 1) + Cardinality(Held') + Cardinality(ran)
    BY <1>2, <2>2, <2>3, <2>4
  <2>6. QED  BY <1>1, <1>3, <2>5 DEF Count, n
<1>11. QED  BY <1>7, <1>8, <1>9, <1>10 DEF KInv

\* It has been run when it leaves the hand.
LEMMA RunKept ==
    ASSUME IInv, KInv, NEW w \in Workers, Run(w)
    PROVE  KInv'
<1> DEFINE k == hand[w]
<1>1. /\ UNCHANGED <<tasks, arg, committed>> /\ pc[w] = "task" /\ pc' = [pc EXCEPT ![w] = "end"]
      /\ hand' = [hand EXCEPT ![w] = None] /\ ran' = ran \cup {k}
      /\ pc \in [Workers -> PCs] /\ hand \in [Workers -> Tasks \cup {None}]
  BY DEF Run, GoTo, commitVars, IInv, Types
<1>2. w \in Held /\ k \in Dequeued /\ k \notin ran /\ \A v \in Held \ {w} : hand[v] # k
  BY <1>1 DEF KInv, HeldOnce, Held
<1> HIDE DEF k
<1>3. /\ Held' = Held \ {w} /\ Dequeued' = Dequeued
      /\ \A v \in Held' : v \in Held /\ v # w /\ hand'[v] = hand[v]
  BY <1>1 DEF Held, Dequeued
<1>4. IsFiniteSet(ran) /\ IsFiniteSet(Held)
  BY ThreadPoolAssumption, FS_Subset DEF KInv, HeldOnce, Held
<1>5. HeldOnce'
  <2>1. \A v \in Workers : hand'[v] # None <=> pc'[v] \in {"begin", "task"}
    BY <1>1 DEF KInv, HeldOnce
  <2>2. ran' \subseteq Dequeued' /\ IsFiniteSet(ran')
    BY <1>1, <1>2, <1>3, <1>4, FS_AddElement DEF KInv, HeldOnce
  <2>3. ASSUME NEW v \in Held'
        PROVE  /\ hand'[v] \in Dequeued' /\ hand'[v] \notin ran'
               /\ \A u \in Held' \ {v} : hand'[u] # hand'[v]
    BY <1>1, <1>2, <1>3 DEF KInv, HeldOnce
  <2>4. QED  BY <2>1, <2>2, <2>3 DEF HeldOnce
<1>6. CommittedOnce' /\ QueueOrder'
  BY <1>1 DEF KInv, CommittedOnce, QueueOrder
<1>7. Count'
  <2>1. Cardinality(ran) \in Nat /\ Cardinality(Held) \in Nat
    BY <1>4, FS_CardinalityType
  <2>2. Cardinality(ran') = Cardinality(ran) + 1 /\ Cardinality(Held') = Cardinality(Held) - 1
    BY <1>1, <1>2, <1>3, <1>4, FS_AddElement, FS_RemoveElement
  <2>3. Len(tasks) \in Nat
    BY DEF IInv, Types
  <2>4. Len(committed) = Len(tasks) + Cardinality(Held') + Cardinality(ran')
    BY <2>1, <2>2, <2>3 DEF KInv, Count
  <2>5. QED  BY <1>1, <2>4 DEF Count
<1>8. QED  BY <1>5, <1>6, <1>7 DEF KInv

LEMMA NextKInv == IInv /\ KInv /\ [Next]_vars => KInv'
<1> SUFFICES ASSUME IInv, KInv, [Next]_vars PROVE KInv'
  OBVIOUS
<1>1. pc \in [Workers -> PCs]
  BY DEF IInv, Types
<1>2. ASSUME NEW t \in Threads, (\E k \in Tasks : Commit(t, k)) \/ Enqueue(t)
      PROVE  KInv'
  <2>1. CASE NotifyOne(t)
    <3>1. /\ UNCHANGED <<tasks, hand, arg, committed, ran>>
          /\ \A w \in Workers : pc'[w] \in {"begin", "task"} <=> pc[w] \in {"begin", "task"}
      BY <1>1, <2>1 DEF NotifyOne, Waiting
    <3>2. QED  BY <3>1, TasksStay
  <2>2. QED  BY <1>2, <2>1, CommitKept, PushKept DEF Enqueue
<1>3. ASSUME NEW w \in Workers, Work(w) \/ Spurious(w)
      PROVE  KInv'
  <2>1. CASE Take(w) /\ tasks # <<>>
    BY <2>1, TakeKept
  <2>2. CASE Run(w)
    BY <2>2, RunKept
  <2>3. CASE \/ While(w) \/ Lock(w) \/ Test(w) \/ Sleep(w) \/ Begin(w) \/ End(w)
             \/ Spurious(w) \/ (Take(w) /\ tasks = <<>>)
    <3>1. /\ UNCHANGED <<tasks, hand, arg, committed, ran>>
          /\ \A v \in Workers : pc'[v] \in {"begin", "task"} <=> pc[v] \in {"begin", "task"}
      BY <1>1, <2>3 DEF While, Lock, Test, Sleep, Begin, End, Spurious, Take, GoTo, commitVars,
                        IInv, TakesSomething
    <3>2. QED  BY <3>1, TasksStay
  <2>4. QED  BY <1>3, <2>1, <2>2, <2>3 DEF Work
<1>4. CASE Stop \/ NotifyAll \/ Join \/ UNCHANGED vars
  <2>1. /\ UNCHANGED <<tasks, hand, arg, committed, ran>>
        /\ \A v \in Workers : pc'[v] \in {"begin", "task"} <=> pc[v] \in {"begin", "task"}
    BY <1>1, <1>4 DEF Stop, NotifyAll, Join, vars, commitVars
  <2>2. QED  BY <2>1, TasksStay
<1>5. QED  BY <1>2, <1>3, <1>4 DEF Next

\* For any number of workers, clients and tasks, tasks leave the queue in the order
\* in which commit has queued them, and each that has left it is in the hand of one
\* worker or was run once: no task is lost or repeated between commit, the workers
\* and the destructor.
THEOREM NoTaskIsLost == Spec => []TasksAreKept
<1>1. IInv /\ KInv /\ TypeOK => TasksAreKept
  <2> SUFFICES ASSUME IInv, KInv, TypeOK
               PROVE  TasksAreKept
    OBVIOUS
  <2> DEFINE n == Len(committed)
             m == Len(tasks)
             s == SubSeq(committed, n - m + 1, n)
  <2>1. /\ committed \in Seq(Tasks) /\ tasks \in Seq(Tasks)
        /\ n \in Nat /\ m \in Nat /\ m <= n
        /\ \A i \in 1 .. m : tasks[i] = committed[n - m + i]
    BY DEF IInv, Types, KInv, QueueOrder
  <2>2. /\ s \in Seq(Tasks) /\ Len(s) = m
        /\ \A i \in 1 .. m : s[i] = committed[n - m + i]
    <3>1. \A i \in n - m + 1 .. n : committed[i] \in Tasks
      BY <2>1, ElementOfSeq
    <3> HIDE DEF n, m
    <3>2. /\ s \in Seq(Tasks)
          /\ Len(s) = IF n - m + 1 <= n THEN n - (n - m + 1) + 1 ELSE 0
          /\ \A i \in 1 .. n - (n - m + 1) + 1 : s[i] = committed[n - m + 1 + i - 1]
      BY <2>1, <3>1, SubSeqProperties
    <3> HIDE DEF s
    <3>3. n - (n - m + 1) + 1 = m /\ \A i \in 1 .. m : n - m + 1 + i - 1 = n - m + i
      BY <2>1
    <3>4. n - m + 1 <= n \/ m = 0
      BY <2>1
    <3>5. Len(s) = m
      BY <2>1, <3>2, <3>3, <3>4
    <3>6. QED  BY <3>2, <3>3, <3>5
  <2>3. tasks = s
    BY <2>1, <2>2, SeqEqual
  <2>4. QED  BY <2>3 DEF TasksAreKept, KInv, Count
<1>2. Spec => []KInv
  BY Invariance, InitKInv, NextKInv, PTL DEF Spec
<1>3. QED  BY <1>1, <1>2, Invariance, TypeCorrect, PTL
=============================================================================
