----------------------------- MODULE ThreadPool -----------------------------
(***************************************************************************)
(* ThreadPool of fm/ThreadPool.h: commit, the workers and the destructor,  *)
(* cut into steps where one of them takes or gives up the lock, touches    *)
(* the atomic _run, or signals the condition variable.                     *)
(***************************************************************************)
EXTENDS Integers, Sequences, FiniteSets

CONSTANTS Workers,  \* the threads of _pool
          Clients,  \* other threads, which call commit
          Tasks,    \* what is committed, each at most once
          None      \* no task, no thread

Threads == Workers \cup Clients

ASSUME ThreadPoolAssumption ==
    /\ IsFiniteSet(Workers) /\ Workers # {} /\ Workers \cap Clients = {}
    /\ None \notin Threads \cup Tasks

VARIABLES
    run,        \* _run
    tasks,      \* _tasks
    lock,       \* the thread that holds _lock, or None
    idle,       \* _idlThrNum
    pc,         \* of each worker
    hand,       \* of each worker: the task it has taken, or None
    commits,    \* of each thread: how far it is in commit
    arg,        \* of each thread: the task it commits
    owner,      \* how far the owner of the pool is in the destructor
    committed,  \* history: the tasks in the order in which they were queued
    ran         \* history: the tasks that have been run

commitVars == <<commits, arg>>
vars == <<run, tasks, lock, idle, pc, hand, commitVars, owner,
          committed, ran>>

Init ==
    /\ run = TRUE /\ tasks = <<>> /\ lock = None
    /\ idle = Cardinality(Workers)
    /\ pc = [w \in Workers |-> "while"] /\ hand = [w \in Workers |-> None]
    /\ commits = [t \in Threads |-> "out"] /\ arg = [t \in Threads |-> None]
    /\ owner = "owns"
    /\ committed = <<>> /\ ran = {}
-----------------------------------------------------------------------------
(* commit, by a client or by a task that a worker runs.                    *)

Fresh(k) == k \notin ran /\ \A t \in Threads : arg[t] # k
            /\ \A i \in 1 .. Len(committed) : committed[i] # k

\* if (!_run) throw.  Clients do not use a pool that is being destroyed.
Commit(t, k) ==
    /\ Fresh(k)
    /\ commits[t] = "out"
    /\ IF t \in Workers THEN pc[t] = "task" ELSE owner = "owns"
    /\ run
    /\ commits' = [commits EXCEPT ![t] = "push"]
    /\ arg' = [arg EXCEPT ![t] = k]
    /\ UNCHANGED <<run, tasks, lock, idle, pc, hand, owner, committed, ran>>

\* The block of the lock_guard.
Push(t) ==
    /\ commits[t] = "push"
    /\ lock = None
    /\ tasks' = Append(tasks, arg[t])
    /\ committed' = Append(committed, arg[t])
    /\ commits' = [commits EXCEPT ![t] = "notify"]
    /\ arg' = [arg EXCEPT ![t] = None]
    /\ UNCHANGED <<run, lock, idle, pc, hand, owner, ran>>

Waiting == {w \in Workers : pc[w] = "waits"}

\* A commit that does not notify.
NotifyNobody(t) ==
    /\ commits[t] = "notify"
    /\ commits' = [commits EXCEPT ![t] = "out"]
    /\ UNCHANGED <<run, tasks, lock, idle, pc, hand, arg, owner, committed, ran>>

\* notify_one wakes one of the workers that wait, if there are any.
NotifyOne(t) ==
    /\ commits[t] = "notify"
    /\ commits' = [commits EXCEPT ![t] = "out"]
    /\ IF Waiting = {} THEN UNCHANGED pc
       ELSE \E w \in Waiting : pc' = [pc EXCEPT ![w] = "lock"]
    /\ UNCHANGED <<run, tasks, lock, idle, hand, arg, owner, committed, ran>>
-----------------------------------------------------------------------------
(* The function of the worker threads.                                     *)

GoTo(w, where) == pc' = [pc EXCEPT ![w] = where]

\* while (_run)
While(w) ==
    /\ pc[w] = "while"
    /\ GoTo(w, IF run THEN "lock" ELSE "ended")
    /\ UNCHANGED <<run, tasks, lock, idle, hand, commitVars, owner, committed, ran>>

\* unique_lock, or wait() taking the lock again when it has been woken.
Lock(w) ==
    /\ pc[w] = "lock"
    /\ lock = None
    /\ lock' = w
    /\ GoTo(w, "test")
    /\ UNCHANGED <<run, tasks, idle, hand, commitVars, owner, committed, ran>>

\* The predicate of wait().
Test(w) ==
    /\ pc[w] = "test"
    /\ GoTo(w, IF ~run \/ tasks # <<>> THEN "take" ELSE "sleep")
    /\ UNCHANGED <<run, tasks, lock, idle, hand, commitVars, owner, committed, ran>>

\* wait() gives the lock up and blocks, in one step for whoever locks first.
Sleep(w) ==
    /\ pc[w] = "sleep"
    /\ lock' = None
    /\ GoTo(w, "waits")
    /\ UNCHANGED <<run, tasks, idle, hand, commitVars, owner, committed, ran>>

\* wait() may return without having been notified.
Spurious(w) ==
    /\ pc[w] = "waits"
    /\ GoTo(w, "lock")
    /\ UNCHANGED <<run, tasks, lock, idle, hand, commitVars, owner, committed, ran>>

\* A worker that takes the task that was queued last.
TakeLast(w) ==
    /\ pc[w] = "take"
    /\ lock' = None
    /\ IF ~run /\ tasks = <<>>
       THEN /\ GoTo(w, "ended")
            /\ UNCHANGED <<tasks, hand>>
       ELSE /\ hand' = [hand EXCEPT ![w] = tasks[Len(tasks)]]
            /\ tasks' = SubSeq(tasks, 1, Len(tasks) - 1)
            /\ GoTo(w, "begin")
    /\ UNCHANGED <<run, idle, commitVars, owner, committed, ran>>

\* return when the pool is stopped and nothing is queued; else take the front.
Take(w) ==
    /\ pc[w] = "take"
    /\ lock' = None
    /\ IF ~run /\ tasks = <<>>
       THEN /\ GoTo(w, "ended")
            /\ UNCHANGED <<tasks, hand>>
       ELSE /\ hand' = [hand EXCEPT ![w] = tasks[1]]
            /\ tasks' = Tail(tasks)
            /\ GoTo(w, "begin")
    /\ UNCHANGED <<run, idle, commitVars, owner, committed, ran>>

\* _idlThrNum--
Begin(w) ==
    /\ pc[w] = "begin"
    /\ idle' = idle - 1
    /\ GoTo(w, "task")
    /\ UNCHANGED <<run, tasks, lock, hand, commitVars, owner, committed, ran>>

\* task() returns.
Run(w) ==
    /\ pc[w] = "task" /\ commits[w] = "out"
    /\ ran' = ran \cup {hand[w]}
    /\ hand' = [hand EXCEPT ![w] = None]
    /\ GoTo(w, "end")
    /\ UNCHANGED <<run, tasks, lock, idle, commitVars, owner, committed>>

\* _idlThrNum++
End(w) ==
    /\ pc[w] = "end"
    /\ idle' = idle + 1
    /\ GoTo(w, "while")
    /\ UNCHANGED <<run, tasks, lock, hand, commitVars, owner, committed, ran>>
-----------------------------------------------------------------------------
(* The destructor.                                                         *)

\* _run = false, without the lock.  Only tasks can still be in commit.
Stop ==
    /\ owner = "owns"
    /\ \A c \in Clients : commits[c] = "out"
    /\ run' = FALSE
    /\ owner' = "stopped"
    /\ UNCHANGED <<tasks, lock, idle, pc, hand, commitVars, committed, ran>>

\* notify_all
NotifyAll ==
    /\ owner = "stopped"
    /\ owner' = "joins"
    /\ pc' = [w \in Workers |-> IF pc[w] = "waits" THEN "lock" ELSE pc[w]]
    /\ UNCHANGED <<run, tasks, lock, idle, hand, commitVars, committed, ran>>

\* join() of every worker has returned.
Join ==
    /\ owner = "joins"
    /\ \A w \in Workers : pc[w] = "ended"
    /\ owner' = "gone"
    /\ UNCHANGED <<run, tasks, lock, idle, pc, hand, commitVars, committed, ran>>
-----------------------------------------------------------------------------
Enqueue(t) == Push(t) \/ NotifyOne(t)

Work(w) == \/ While(w) \/ Lock(w) \/ Test(w) \/ Sleep(w) \/ Take(w)
           \/ Begin(w) \/ Run(w) \/ End(w)

Next ==
    \/ \E t \in Threads : (\E k \in Tasks : Commit(t, k)) \/ Enqueue(t)
    \/ \E w \in Workers : Work(w) \/ Spurious(w)
    \/ Stop \/ NotifyAll \/ Join

\* Threads run, and whoever waits for the lock gets it: a thread that is given
\* up between two rounds of another competes for it again and again.
Spec ==
    /\ Init /\ [][Next]_vars
    /\ \A t \in Threads : SF_vars(Enqueue(t))
    /\ \A w \in Workers : SF_vars(Work(w))
    /\ WF_vars(NotifyAll) /\ WF_vars(Join)
-----------------------------------------------------------------------------
TypeOK ==
    /\ run \in BOOLEAN
    /\ tasks \in Seq(Tasks)
    /\ lock \in Workers \cup {None}
    /\ idle \in 0 .. Cardinality(Workers)
    /\ pc \in [Workers -> {"while", "lock", "test", "sleep", "waits", "take",
                           "begin", "task", "end", "ended"}]
    /\ hand \in [Workers -> Tasks \cup {None}]
    /\ commits \in [Threads -> {"out", "push", "notify"}]
    /\ arg \in [Threads -> Tasks \cup {None}]
    /\ owner \in {"owns", "stopped", "joins", "gone"}
    /\ committed \in Seq(Tasks) /\ ran \subseteq Tasks

\* commit and wait() never miss each other: with a task in the queue, a worker
\* is awake, or is about to be woken, while the pool runs.
NoTaskIsSleptOn ==
    run /\ tasks # <<>> => \/ \E w \in Workers : pc[w] # "waits"
                           \/ \E t \in Threads : commits[t] = "notify"

Held == {w \in Workers : hand[w] # None}

\* First in, first out; and what has left the queue is in the hand of one worker or
\* was run, once: commit, the workers and the destructor lose and repeat nothing.
TasksAreKept ==
    /\ TypeOK
    /\ tasks = SubSeq(committed, Len(committed) - Len(tasks) + 1, Len(committed))
    /\ Len(committed) = Len(tasks) + Cardinality(Held) + Cardinality(ran)

\* idlCount() is the number of workers that run no task, but for those that are
\* about to begin or have just ended.
IdleIsCounted ==
    idle = Cardinality({w \in Workers : pc[w] \notin {"task", "end"}})

\* While nobody stops the pool, every task that commit returned for is run.
EveryTaskRuns ==
    \A k \in Tasks : (\E i \in 1 .. Len(committed) : committed[i] = k) ~> (k \in ran \/ ~run)

\* Claimed by the comments of the destructor, of which the first says that it wakes
\* all threads, and the second that it waits for tasks that surely end.  It does not
\* hold: the notification can fall between a worker's test and its wait.
JoinReturns == (owner = "stopped") ~> (owner = "gone")
=============================================================================
