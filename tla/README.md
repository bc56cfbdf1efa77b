# fmlib in TLA+

`fm/` is a reactor in the style of muduo: event loops over `epoll`, one per
thread, with TCP servers, clients, timers and a small HTTP server on top.
`MemoryTools.cpp` is the largest program built on it: an HTTP server that searches
the memory of another process, and answers with `jsoncpp/`.  This directory holds
a TLA+ model of all three, TLC configurations that check the model on small
instances, and TLAPS proofs of theorems about it for instances of any size.

## The system

| Component | State | Operations | Works with |
|---|---|---|---|
| `EventLoop` | `callbacks_` under `mutex_`, the local vector of `loop()`, `quit_`, `looping_`, the eventfd `wakeFd_` | `loop`, `runInLoop`, `quit`, `updateChannel`, `removeChannel`, `runAfter` | owns a `Poller` and a `TimerQueue`; called by every other part, from any thread |
| `Poller`, `Channel` | `channelList` (fd to channel), `pollfds` (a registry that `epoll_wait` also writes to), the epoll set; per channel `fd_`, `events_`, `revents_`, `index_` | `poll`, `updateChannel`, `removeChannel`; `enableReading`, `enableWriting`, `disableWriting`, `disableAll`, `remove`, `handle` | the kernel's epoll; channels live in connections, acceptors, connectors, timer queues |
| `TimerQueue`, `Timer` | `timer_set` ordered by expiry, the timerfd | `addTimer`, `TimeOut`, `cancel` | the loop that runs it, the clocks of the kernel |
| `Buffer` | `buf`, `preAppendIndex`, `readIndex`, `writeIndex` | `append`, `read`, `retrieve`, `CodeSize` | every connection has an input and an output buffer |
| `unpack` | `headPos` | `front`, `append`, `encode`, `adapterBuffer`, `adapterChar`, `send` | frames messages over a `Buffer` |
| `TcpConnection` | `state`, the two buffers, its channel, the callbacks | `Send`, `sendInLoop`, `ReadHandel`, `WriteHandle`, `CloseHandel`, `ErrorHandel`, `shutdown` | its loop, its socket, the user's callbacks |
| `Acceptor`, `TcpServer` | the listening socket, `s_id`, the loops of the pool | `start`, `handleRead`, `handelAccept`, `setThreadNums` | hands each new connection to a loop of another thread |
| `Connector`, `TcpClient` | `state_`, `fd_`, `channel`, `conn_` | `start`, `connect`, `connecting`, `handleWrite`, `retry`, `stop` | the loop, its timers for the retry |
| `EventLoopThread`, `EventLoopThreadPool` | `loop_` under `mutex_` and `cv`, `loopThread`, `next`, `isStart` | `startLoop`, `func`, `setThreadNum`, `start`, `getNext` | starts loops on threads of their own |
| `ThreadPool` (also `src/ThreadPool`) | `_tasks` under `_lock`, `_task_cv`, `_run`, `_idlThrNum` | `commit`, the worker's loop, the destructor | independent of the loops; every later search of `MemoryTools` has one |
| `HttpServer`, `RequestHeader`, `ResponseHeader` | the handler maps, one request, one response | `readCallBack`, `parse`, `getParam`, `toString` | a `TcpServer`, the handlers of a program |
| `MemoryTools.cpp`, `MemoryTools/` | `pages`, `memoryTools`, `cnt` of `main`; the two maps of files of a `MemoryManager` | the handlers `/init`, `/getPages`, `/first`, `/second`, `/third`, `/dump`, `/write`; `FirstSearch`, `SecondSearch`, `ThirdSearch`; `creat`, `append`, `load` | an `HttpServer`, a `ThreadPool` per search, the memory of the target, files |
| `Json::Value` | a tagged union of scalars and a `std::map` of children, three comments, two offsets | `operator[]`, `append`, `insert`, `resize`, `removeMember`, `removeIndex`, `swap`, comparisons, `asX`, `isX`, comments | the answers of `MemoryTools.cpp` and `wz.cpp` |
| `Json::Reader`, `Json::OurReader` | the place in the text, the stack of open Values, the comments and the last Value seen, errors | `parse`: tokens, values, recovery from errors, comments | build a `Value` from a text |
| `Json::FastWriter`, `StyledWriter`, `StyledStreamWriter`, `BuiltStyledStreamWriter` | the text so far, the indentation | `write` | make a text of a `Value` |

Besides: `sgame.h` and `wz.cpp` read and draw what a game has in memory,
`LexicalCast/` converts strings, and `main.cpp`, `client.cpp`, `http.cpp`,
`test*.cpp` are programs that use `fm/`.

### How the parts interact, and what is hard

A thread that is not the loop's reaches it only through `runInLoop`: a push under
`mutex_` and a write to the eventfd.  Everything else, registration of channels,
writes to a socket, arming of the timerfd, is a callable that the loop runs
between two polls, or in place when the caller is already on the loop thread.
Hard to test are therefore: pushes that fall between the two swaps of one
iteration of `loop()`; `quit` against start and end of a loop; handlers of one
poll that close what a later handler of the same poll uses; descriptors that the
kernel gives out again while an old registration, an old retry timer or an old
posted callable still names them; a partial or failed `write`; several timers
over one timerfd; the hand-over of a fresh connection to another thread.

`HttpServer` takes what one `read` returned for one request, so that a stream cut
in another place changes what is asked.  The handlers of `MemoryTools.cpp` keep
state from one request to the next (how many searches there were, and the files
of each), may be called in any order, and look at memory that the target changes
and unmaps meanwhile; their tasks share maps with the loop thread without a lock,
and the handler waits for them in a busy loop.

`jsoncpp` is sequential.  Hard to test there are long sequences of calls on one
tree (arrays are maps with gaps, elements and payloads are swapped under
comments and offsets), the limits of four integer types, and that two readers,
which are copies of each other with different features, and four writers agree on
one language, with its comments, for every text.

## The modules

| Module | Models | State, and what it stands for | Actions, one per operation |
|---|---|---|---|
| `EventLoop` | `EventLoop.cpp`, with `poll` reduced to "something is ready" | `callbacks_`, `callback`, `quit_`, `looping_`, `wakeFd_` as in the code; `pc` is the line of `loop()`, `tpc` where a caller is in `runInLoop` or `quit` | `Post` and `WakeUp` (the two halves of `runInLoop` and `quit` of another thread), `RunInPlace`, `QuitInPlace`, `While`, `Poll`, `PollInterrupted`, `HandleRead`, `HandleIo`, `Swap`, `RunCallback`, `SwapBack`.  Tasks are posted once, `Recurring` ones again and again without end |
| `TaskQueue` | what `runInLoop` promises | the tasks that are pending and those done | abstract; `EventLoop` refines it |
| `Descriptors` | `updateChannel` and `removeChannel` of `Poller.cpp` | a record `r` of `pollfds`, `channelList`, every `index_` and `fd_`, and the kernel's epoll set (`interest`) and descriptor table (`socket`) | operators: `UpdateChannel`, `RemoveChannel`, `Open`, `Close` |
| `Poller` | `Poller::poll`, `Channel.cpp`, the descriptors of `TcpConnection`, `Acceptor`, `EventLoop` | `reg` is a record of `Descriptors`; `state` and `events_` of the connections; `active` is `activeChannelList`, `posted` the callables other threads have posted | `Poll`, one action per handler and outcome (`ReadData`, `ReadFails`, `WriteAll`, `WritePart`, `AcceptHere`, `HandleFixed`), `SendPart`, `ShutdownInPlace`, and on other threads `AcceptElsewhere`, `PostShutdown` with `RunUpdate`, `RunShutdown` on the loop |
| `Connector` | `Connector.cpp`, `TcpClient.cpp` | `reg` is a record of `Descriptors`; `fd_`, `state_`, `channel` (the attempt whose channel it is) as in the code; `pending` counts calls of `startInLoop` that are posted or wait for the retry timer; `outcome` is what becomes of a `::connect` | `Start`; `ConnectBegins`, `ConnectRefused`, `ConnectFails` (`startInLoop` with one answer of `::connect` each); `HandleError`, `HandleConnected`; `Accept`, `WriteHandle`, `WriteHandleFails`, `CloseHandel`, `ShutdownWriteInLoop` of the connections, `ResetByPeer` |
| `Buffer` | `Buffer.cpp` | a record of `buf`, `readIndex`, `writeIndex` | operators: `AppendTo`, `Retrieve`, `ReadFd` |
| `Stream` | `sendInLoop`, `WriteHandle`, `ReadHandel`, `ErrorHandel` of a connection, and `unpack` | the two buffers, `writing` (EPOLLOUT is asked for), `state`, `wire` (the bytes in the sockets), `unpacking` (inside `adapterChar`), `fault` (a negative length was read, or an index has left its vector) | `Send` (`SendAll`, `SendPart`, `SendFails`), `Poll`, `WriteHandle` and `WriteHandleFails`, `ErrorHandel`; `ReadHandel`, `Deliver`, `DeliverNegative`, `SumOverflows`, `Return`; `Reset` by the peer |
| `ThreadPool` | `ThreadPool.h` | `run`, `tasks`, `idle`, who holds the lock, the line of every worker, committer and of the owner in the destructor | `Commit`, `Push`, `NotifyOne`; `While`, `Lock`, `Test`, `Sleep`, `Take`, `Begin`, `Run`, `End`; `Stop`, `NotifyAll`, `Join` |
| `TimerQueue` | `TimerQueue.cpp`, `Timer.cpp`, `Until.h` | `timer_set` in its order, the time `left` until every timer is due and until the `timerfd` is readable | `AddTimer`, `AddElsewhere` with `CreateTimer`, `ReadTimerfd`, `RunTimer`, `Erase`, `EndTimeOut`, `Tick` |
| `Server` | `EventLoopThread(Pool).cpp`, `Acceptor::handleRead`, `TcpServer::handelAccept` | `loop_`, `eventLoop`, `next`; the line of the server's thread and of every thread of the pool; which callbacks of a connection are set, its `state` and `log`, what its user was told; `deafened`, unwatched by another's removal | `StartLoop`, `Wait`, `Publish`, `BeginLoop`; `Accept`, `SetForwarding`, `SetCallBacks`, `SetConnected`, `TellConnected`; `Register`, `ReadData`, `CloseHandel`, `ErrorHandel`, `TellDown`, `TellEnd`, `HandleInVain` on the loops |
| `HttpServer` | `HttpServer.cpp` and `.h`: `parse`, `getParam`, `readCallBack` | the requests as pieces, in the sockets (`wire`) and in `inputBuffer`; `len`, `request`, `response` of one call of `readCallBack`; what the client waits for | operators: `Ask`, `Read` (up to the handler), `Send` |
| `MemoryTools` | `MemoryTools.cpp`, `MemorySearchTools.h`, `MemoryManager.h`, `FileManager.h`, over `HttpServer` | the target's `memory` and `mapped` pages; `pages`, `cnt`, `made` of `main`; `addr` and `data`, the files of a page and a search; the counters and the queue of a search, the line of every task | one action per handler, or per round of its loop where it has one: `GetPages`, `InitTools`, `First`, `FirstPage`, `FirstEnds`, `Second`, `Third`, `Commit`, `Spin`, `Dump`, `Write`; the tasks' `TakeTask`, `CreatNext`, `ScanPage`, `ScanCell`, `CellsEnd`, `Count`; `Clash` (a data race ends the process); the target's `Change` and `Unmap` |
| `JsonChars` | the characters by name | | |
| `JsonTree` | `json_value.cpp`, `value.h`: a Value as a container | a Value is a function from the paths of its tree to nodes, each with type, scalar, comments and offsets | operators named for the methods |
| `JsonValue` | the same files: numbers, comparisons and conversions | | operators named for the methods |
| `JsonDocument` | a program that calls them | `root`, and an `other` Value beside it; `honoured`, whether the last call did what `value.h` says | one action per operation, on any Value in `root`, or on both Values |
| `JsonPromise` | what `value.h` says of each operation, over arrays without gaps | the same two Values | abstract; `JsonDocument` refines it, each call that is honoured as a `Step`; of one that is not, `Astray` says that it stays on its Value |
| `JsonOrder` | `operator<`, `operator==` and `compare` of the Values in a document | those of `JsonDocument` | |
| `JsonWriter` | `json_writer.cpp`: the four writers | a record `w`: the text so far, indentation, options | recursive operators named for the methods |
| `JsonReader`, `JsonCharReader` | `json_reader.cpp`: `Reader`, and what `OurReader` does otherwise | a record `s`: place in the text, path of the current Value, comments, errors | recursive operators named for the methods |
| `JsonGrammar` | the language the documentation gives the readers, as a stack machine that knows nothing of them | `open`, `expect`, `depth`; `odd`, whether the text has come to one of the five places where the readers are known to do otherwise | reference definition |
| `JsonText` | texts, put together one lexeme after another | `typed`, and what the readers make of it: `byReader`, `byCharReader` | `Type_`, `Alone` |

The `MC*` modules instantiate them for TLC, the `*Proofs` modules hold the
theorems (`RetryProofs` those about `Connector` and about `TimerQueue`, where its
retries wait).  `JsonTree`, `JsonPromise` and `JsonDocument` are written without
RECURSIVE operators, so that they can be proved about.  `Buffer` is used by `Stream`, `Descriptors` by `Poller` and
`Connector`, `HttpServer` by `MemoryTools`; readers use the writers' and both use
the Values' definitions.  The other components are modelled on their own, and
each assumes of the loop under it only what `EventLoop` and `Poller` show: a posted
task is run at most once, on the loop thread, between two polls, posted tasks may
overtake each other (therefore `posted` is a set in `Poller`, `TimerQueue` and
`Server`), and one may never be run (therefore no fairness is assumed of them:
`Register` in `Server`, `CreateTimer` in `TimerQueue`, `ConnectBegins` and
its kind in `Connector`); and the removal of a channel may unwatch the descriptor of another
(`deafened` in `Server`).  `MemoryTools` takes from `ThreadPool` that tasks begin in the order
of their `commit`, at most as many at a time as there are threads, and that the
destructor may not return.

A step reaches from one point where another thread can interfere to the next: a
critical section, a system call, an access to an atomic or to a variable that is
shared without a lock.  Within one loop thread a whole handler is one step, and
of a sequential library a whole call.  Definitions named like another one with a
word more (`SwapOffByOne`, `RemoveChannelSwapped`, `CreatOnce`) are not
part of any `Next`: they are plausible bugs, and each property of a passing run
is known to fail when one of them takes the place of the code.

## What is checked

| Run | Instance and bounds | Shows |
|---|---|---|
| `eventloop` | 2 threads, 2 tasks, 1 more that is posted again and again without end, `quit` at any time | `TypeOK`, `NoFreshTaskSleeps` (push and wake-up never miss a loop about to block), `OvertakesOnlyCarried` (order), `ImplementsTaskQueue` (refinement: a task runs at most once, and only after it was handed over), `QuitStopsLoop`, `LullsServeEveryTask` (what the loop needs to run every task: to come again and again to its first swap with nothing newly pushed) |
| `eventloop_stranded` | 1 thread, 2 tasks | finding: `EveryPostedTaskRuns` fails, the loop blocks with a task |
| `poller` | both kinds of loops: one that accepts its own connections, and one that is fed by another thread and whose connections anybody may shut down; 2 connections over 2 descriptor numbers, all of them ready at once | `TypeOK`, `WatchedWhileFewReady` (a removal unwatches the right descriptor), `OneChannelWhileUndisturbed` (a number leads to the one channel, and socket, it belongs to), `PollServesAll` (no null channel, and room for every descriptor) |
| `poller_deaf` | as above, an accepting loop | finding: `RegisteredIsWatched` fails |
| `stream` | bytes are bits, buffers of 5, sockets of 4; 2 messages out of an empty one (written at once) and one of two bytes, for which buffers grow and whose bytes read as a negative length, or as one near the greatest, when they are taken for a part of a header; users who send at any time, a reset at any time | `TypeOK` (with the order of the indices of both buffers), `StreamIntact` (of the bytes), `DeliveredAsSent` (of the messages), `WritingWhilePending`, `PacedArrives` |
| `connector` | 2 calls of `TcpClient::connect`, 3 attempts, 1 other connection, 2 descriptor numbers; a reset at any time | `TypeOK`, `NoSocketLeaks`, `RetriesDoNotMultiply`, `HandedOverIsHeard`, `AttemptIsResolved` |
| `threadpool` | 2 workers, 1 client, 3 tasks that may commit each other | `TasksAreKept` (types, and every task is where it should be: not committed, queued in order, with one worker, or done), `NoTaskIsSleptOn`, `EveryTaskRuns` |
| `timerqueue` | 3 timers, delays 1 and 2 | `SetIsKept` (order, and what is in the set), `EveryTimerRuns` (once no more timers are added) |
| `server` | pools of 0 to 3 loops, 2 connections, data once for each, which may close or be reset | `TypeOK`, `EachItsOwnLoop`, `ToldInOrder`, `HangUpIsHandled` |
| `json_document` | 2 names (one with a NUL in it), 2 indices, 3 scalars, 1 comment; up to 3 Values in `root`, 1 in `other`; 12 more to compare them with: integers, reals, an infinity and a NaN, numbers that are equal across types, a boolean, a string, arrays of numbers | `EachCallKeepsItsPromise` (every call on every Value reached, against `JsonPromise`), `OrderIsTotal`, `ImplementsPromise` (refinement) |
| `json_text` | up to 6 of 11 lexemes, or one of 44 words; 3 sets of features for each reader, 5 layouts | `ReadersFollowGrammar`, `OffsetsFit`, `RoundTrip`, `CommentsAreKept`, `ConversionsAgree` |
| `memory_tools` | pages of 2, 1 and 1 values, one of them guarded; 11 requests, up to 2 at a time before pages are known; 3 searches; the target changes once | `AnswersInOrder`, `SearchesAreRight` (files, results, numbers, narrowing), `RequestsAreAnswered` |

Why these bounds are enough.  *EventLoop*: a task can be in the shared vector, in
the rest of the batch, set aside, or done, and the races are between one push and
one iteration; two tasks, one that comes again and again, and two threads put one
task into each place at the same time, and no end of the supply of tasks hides what
waits while the loop is busy.  *Poller*: a number must be closed and given out again while another
connection is registered, which needs two connections over two numbers, and the
overwriting of `pollfds` needs as many ready descriptors as there are entries.
*Stream*: `append` writes, compacts and resizes, `readv` fills the vector and
`extraBuff`, headers are cut by every boundary, and the second message meets what
is left of the first.  The frame of the empty message fits into an empty socket, so
that a message can be written at once; the longer one never does.  Lengths of four bits
are negative from 8 on, as those of the code are from 2^31 on, and the longer message
has bytes that read as such a length once a part of the stream before them is missing.  *Connector*: two numbers are enough for an attempt to get
the number of the one before or another one, while another connection has the
first; with three attempts a retry meets the channel that a failed one left.
*ThreadPool*: a notification can miss a worker while
another one sleeps, runs or commits.  *TimerQueue*: three timers are the fewest
where one in the middle is inserted, expires or is reset.  *Server*: with three
loops the second start can meet the `loop_` of the first, and the third that of
the second; two connections can meet on one loop or be on two.  *JsonDocument*:
three Values make a Value in a Value, or two beside each other with a gap between
them; index 2 grows an array by more than one.  *JsonOrder*: the
Values in the document make containers that differ in size, in a key, in an element or
in a gap; the others make every pair of types, and of two numbers of one type or of
different types pairs that are equal and pairs that are not.  *JsonText*: six lexemes make
`{"a":1}` with a comment anywhere, two members or elements with what stands between
them, and three open brackets, one more than the lowest stack limit; a text that no
reader can still accept is not continued (`Viable`).  The limits of integers are
scaled down (`maxInt` is 47, `maxLargestInt` 499, a double has two decimal digits),
so that, as in the code, the largest integers are no doubles, and the words hold the
numbers at and beyond each limit.  *MemoryTools*: two
pages are searched by two tasks at a time; `/init` twice lists a page twice; a
third search can look at the results of the second or, out of order, of the first.

Fairness.  The thread of a loop, and a thread inside `runInLoop` or `quit`, is
scheduled by the operating system (weak fairness of their steps); `poll` reports
every descriptor that stays ready and is watched each time it is called, and a loop
handles all that was reported, so a handler of a registered connection that is ready
again and again is called (strong fairness of `Serves` in `Server`), and goes on to its
end (weak fairness of `Tells`).  A mutex that is released again and again is
obtained at last (strong fairness in `ThreadPool`).  The loop thread and every task
of `MemoryTools` go on (weak fairness of `Loop` and of `Work` for each page).  Time
passes (`Tick`).  No fairness is assumed of posted tasks: `EventLoop` shows that they may be
stranded or starved.  Nobody is obliged to post, send, connect, close, ask, or call
`quit`; no descriptor is obliged to become ready but the eventfd, the timerfd, the
sockets of `Stream` (which carry what was written, and have room again when it was
read), and in `Connector` those whose `connect` has ended.
`Poller` and its runs claim safety only.

Two liveness properties name their premise, because the code gives less than one would
like: `LullsServeEveryTask` of `EventLoop` (the loop comes again and again to its first
swap with nothing newly pushed) and `EveryTimerRuns` of `TimerQueue` (`FlowEnds`: at some
time no more timers are added).  Without the first tasks starve (below); without the second the single timerfd, which `addTimer` arms anew for every
timer (`TimerQueue.cpp:46`), may never become ready.

Conditional properties.  Several properties hold only for part of the behaviours,
and the condition is a history variable: `carried` in `EventLoop`, `most` in
`Poller`, `paced` in `Stream` and in `HttpServer`, `state` and `fault` in `Stream`,
`orderly` in `TimerQueue` and `MemoryTools`, `early` and
`deafened` in `Server`, `honoured` in `JsonDocument`, `odd` in `JsonGrammar`.  In each case the
runs show that the other part is where the code fails, or this file says so below.

## What is proved

All theorems are proved for every value of the constants, under the assumptions
named in the modules (`BufferAssumption`, `StreamAssumption`,
`PollerAssumption`, `ThreadPoolAssumption`, `ServerAssumption`,
`ConnectorAssumption`, `ChannelAssumption`, `TimerQueueAssumption`, `HttpAssumption`,
`MemoryToolsAssumption`, `HandlersAssumption`, `DocumentAssumption`).

Each argument is an inductive invariant: the property with what it takes to carry
it over every step.

* *EventLoop* (`TypeCorrect`, `FreshTasksWakeTheLoop`, `TasksAccountedFor`,
  `TasksInOrder`, `LoopRefinesQueue`).  That a fresh task wakes the loop is not
  inductive by itself: `Signalled` adds that such a task is announced at any time,
  by the eventfd, by a thread on its way to write to it, or by the loop being past
  its poll; `AtRest` and `Accounted` say where the tasks of a batch can be.  The
  order needs one fact about every pair of tasks and every place (`InLine`): what
  was posted behind a task that no swap set aside is behind it in each vector and in
  what was called.  The refinement follows from `IInv`, step by step.
* *Buffer* (`AppendKeepsContents`, `RetrieveTakesFront`, `ReadKeepsContents`): facts
  about single calls, for every length of the vector, over `CompactedBuffer` and
  `RoomyBuffer`.
* *Stream* (`TypeCorrect`, `WritesWhilePending`, `PacedStreamIntact`,
  `PacedDeliveredAsSent`), over the theorems about `Buffer`.  What users who send at any
  time leave is the indices in their order until one has left its vector (`TypeOK`), and
  the demand for EPOLLOUT: `RetrieveBack` says that a failed write, which gives `retrieve`
  a -1, never makes a buffer empty that was not.  For those who keep to the pace,
  `Pending` says that poll reports EPOLLOUT only to who has something to write,
  `Announced` that the room it reported is still there when the callback runs,
  `Accounted` that the bytes sent begin with those taken, buffered and under way, also
  after a reset, and `Aligned` that the bytes taken end where a frame begins, so that the
  next header is where `adapterChar` looks for it; that a header reads back as the
  length it was made of is `HeaderReadsBack`, over the digits.
* *Poller* (`TypeCorrect`, `PollServes`, `OneChannel`, `WatchedWhileFew`).  One lemma
  for each operator of `Descriptors` says what it leaves of the tables.  On every kind
  of loop `Named` holds (a watched descriptor has a channel): a removal forgets the
  channel of one descriptor and may unwatch another, and only the `close` in the same
  handler makes up for it.  On an undisturbed loop `Owned` and `Own` tie numbers,
  channels and sockets together, and `Handled` says that a write callback to come
  after a read callback that closed works on a number that is free, because nothing
  is accepted before it.  `Few` adds that the entries of open connections lie behind
  those of the loop's own channels, where `epoll_wait` has not written.
* *Connector* (`TypeCorrect`, `SocketsDoNotLeak`, `OneAttemptPerStart`): with
  `Numbered`, whatever a handler closes has had a number.
* *ThreadPool* (`TypeCorrect`, `TasksWakeWorkers`, `IdleCount`, `NoTaskIsLost`): with
  what a worker knows at its line: it holds the lock (`LockIsHeld`), it goes to sleep
  on an empty queue (`AsleepOnNothing`), and what it takes exists (`TakesSomething`).
  That no task is lost or run twice needs `KInv` beside it: the queue is the end of
  what was committed, and what has left it is in different hands or was run.
* *TimerQueue* (`TimersAreKept`).  A new timer goes behind all that are due earlier, by
  the whole order of `TimerEvent`; so the inductive invariant has to order timers that
  are due together by their addresses as long as they are not due (`InOrder`), and the
  places a new one goes behind are the first ones (`FirstPlaces`).  Callbacks add
  timers while the set is walked: none comes in front of the one that runs
  (`CalledInFront`).
* *Server* (`EveryLoopItsOwn`, `TypeCorrect`, `UserIsToldInOrder`).  `OneAtATime` is
  what `loop_ = nullptr` in `startLoop` is for: the thread that has not published its
  loop is the one waited for.  The order of what a user is told needs, for each line
  of `handelAccept`, what is set by then (`Place`), who may hold a connection
  (`Known`), and the shape of its log (`Orderly`); that the end of a connection is told once holds
  of the early ones too (`Concluded`).  Both hold although a removal may unwatch any
  other connection.
* *MemoryTools* (`RequestsInOrder`, `SearchesRight`,
  `BusyLoopEndsWithTasks`).  While reads bring one request
  each, the sockets hold the pieces of the requests that wait, and `inputBuffer` those
  of the one being handled (`Paced`), whatever the handlers do.  The searches have an
  invariant of their own, `SInv`, which needs no pace: `RightOn` says of every page
  with a file of this search that the file holds, of what its task has looked at so far
  (`Looked`), exactly what passes, `FoundSoFar` that `allSize` counts these; `PoolInv`
  counts tasks, queued, running and ended, so that the busy loop ends exactly when none
  is queued and none runs (`CountersTell`, the safety half of what `RequestsAreAnswered`
  checks) and then every page was looked through (`AllLooked`): `WellFound` is the
  property.  What
  makes a task's own file all that changes is `Elsewhere`; `Past` does for the pages of
  `FirstSearch` what `RightOn` does for tasks, and `Narrowing` is inductive because a
  search writes only files of its own number (`OnlyFile`).  The assumptions are what
  `main` and the requests give: `/second` and `/third` have handlers, and `/write` is
  given an address and a number, or has defaults for them.

* *JsonDocument* (`TreesTheorem`, `EachCallKeepsItsPromiseTheorem`,
  `ImplementsPromiseTheorem`), for documents of any size, while the run stops at three
  Values.  `DocumentAssumption` is what the code says of what a caller passes: names
  are bytes, an index is unsigned, and a Value a program makes has no offsets.  The
  inductive invariant is `IsTree` of both Values, `WellFormed` with what makes a
  function of paths a finite tree of proper nodes: without it the size of an array is
  not a number, and what is cut out at a path or put there is no Value.  Paths are
  taken apart by the facts about sequences alone (a well-founded order takes the
  place of induction over them: `Least`, `FarAbove`, `Bounded`).  For each operation
  there is one lemma on the map (which keys and children it leaves, and under which
  keys they are) and one on the sequence of items `Filled` makes of it; `SameParts`
  (a Value is its node and its children) joins the two.  What `Filled` shows of a
  Value is the same inside a document and alone (`AtFilled`), and a call on the Value
  at one path leaves the gaps at every other as they were (`SameGaps`, `PutFilled`):
  so each call is a `Step` of `JsonPromise`, or a stutter when it fails
  (`NextKeeps`, with one lemma for each action).  Of `resize` and `removeIndex` over a gap
  and of `removeMember` with a NUL, which `honoured` tells apart, what is proved is that they go astray on their own Value only
  (`GoesAstray`).

Only model-checked: liveness, under fairness; and what is written with RECURSIVE
operators, of which the prover can say nothing: `OrderIsTotal`, whose `Less` goes down
two trees at once, and all of `JsonText` (`ReadersFollowGrammar`, `OffsetsFit`,
`RoundTrip`, `CommentsAreKept`, `ConversionsAgree`), whose readers and writers call
themselves, and whose doubles are rounded digit by digit.

## What the models found

* **Stranded tasks** (`eventloop_stranded`, `EventLoop.cpp:57`).  The second swap
  moves tasks pushed during a batch into the local vector; the next first swap
  moves them back, finds its batch empty, and the loop blocks with the eventfd
  already read.
* **Deaf connections** (`poller_deaf`, `Poller.cpp:66`).  `epoll_wait` writes over
  the entries from which `removeChannel` takes the descriptor to unwatch.

Claims of comments and tests that the code does not keep either.  The modules state
each of them beside the properties that hold, no configuration lists it, and TLC finds
it violated when it takes the place of the properties of the configuration named here;
the properties that are checked name the case in which they leave it out.

| Claim | Configuration | What happens |
|---|---|---|
| `BusyLoopServesEveryTask` (`test004.cpp:19` posts without end, and expects every task to run) | `EventLoop.cfg` | `EventLoop.cpp:57`: with one new task before each first swap the loop never blocks, runs the new one each time, and hands the old one to and fro between the two vectors |
| `UnwrittenIsBuffered` (`TcpConnection.h:79`: what cannot be written is put into the buffer) | `Stream.cfg` | `TcpConnection.cpp:151`: the -1 of `write` is kept in a `size_t`, the message taken for written, and its bytes are nowhere |
| `JoinReturns` (`ThreadPool.h:35`: all threads are woken) | `ThreadPool.cfg` | `ThreadPool.h:34`: `_run` is cleared and notified without the lock, while a worker is between its test and its wait. `MemoryTools` destroys a pool after every search, as soon as its tasks have ended: the place `hung` in its model |
| `ReadsAreForwarded` (`TcpServer.cpp:45`: what is read is passed on to the client) | `Server.cfg` | `TcpServer.cpp:44`: what is read between the callbacks of the channel and those of the user waits in `inputBuffer` until more arrives |
| `ResizedToNewSize` (`value.h:433`: resize to newSize elements) | `JsonDocument.cfg` | `json_value.cpp:921`: behind a gap the array becomes shorter, and the assertion throws |
| `RemovesTheElementOnly` (`value.h:541`: remove the indexed element) | `JsonDocument.cfg` | `json_value.cpp:1219`: `removeIndex` of the last element takes the gap before it along |
| `RemovesTheNamedMember` (`value.h:527`: a key may contain nulls) | `JsonDocument.cfg` | `json_value.cpp:1196`: the member named by what is before the NUL is removed |
| `StrictForbidsComments` (`json_features.h:34`: comments are forbidden) | `JsonText.cfg` | `json_reader.cpp:1455`: comments inside objects and arrays are taken |
| `CommentsAreAllowed` (`reader.h:301`: true if comments are allowed) | `JsonText.cfg` | `json_reader.cpp:1518`: none is before the bracket of an empty array |
| `TrailingCommasAreForbidden` (`reader.h:303`: true if trailing commas are allowed) | `JsonText.cfg` | `json_reader.cpp:1459`: `{"":1,}` is taken |

What the models show beside these; the properties above are stated so that they
leave it out:

* **A closed connection that takes a new one's place** (`TcpConnection.cpp:180`,
  against `Poller.h:16`: one descriptor, one channel).  A posted `shutdown` is not
  checked again when it runs; `OneChannelPerFd` of `Poller` fails without its
  condition.
* A write that fails in the write callback (`TcpConnection.cpp:73`) gives `retrieve` a -1.
  A byte that was written comes back in front of the rest and is sent twice, or
  `readIndex` goes below zero; and the callback goes on asking for EPOLLOUT.  It takes a
  user who fills the socket between `poll` and the callback, or a reset.
* A connection that is reset before its first `WriteHandle` spins: `Connector` has it
  watched for writing only, and every write fails.
* `unpack` reads a length as a signed int (`unpack.cpp:18`).  No user of `unpack::send`
  makes a frame of 2^31 bytes, but what a lost part of the stream leaves may read as a
  negative length, with which `retrieve` goes backwards.
* `connect()` closes the number it used last once more.  After `retry`, or after
  the connection has closed itself, that number may be another connection's,
  which loses its socket; before the first attempt `fd_` is not initialized.
* A user who sends again before `WriteHandle` has written the rest of an earlier
  message, when the socket has room again, overtakes that rest: `sendInLoop` does
  not look at `outputBuffer`.
* `TimeOut` does not arm the timerfd for the timers that are left.  A recurring
  timer runs again only when another timer happens to be due, and a timer that is
  added before an earlier one is due delays that one until its own time; a steady flow
  of timers delays the first of them for ever.
* A connection handed to another loop can be closed there before `handelAccept`
  ends; it then is set to `CONNECTED`, and its user told that it is up, after it
  was closed.
* A worker that finishes a task after `_run` was cleared leaves without looking
  into the queue: tasks for which `commit` returned a future are dropped with a
  broken promise, although the comment on `commit` says that `get()` waits for
  them.
* On a loop fed by another thread, the write callback of a connection that its
  read callback has just closed can work on a number that has been reused.
* *HttpServer*: two requests in one read get one answer, a request in two pieces two
  of them, and the text the second call parses begins with what the first has read.
  `parse` throws for a text of less than three characters.
* *MemoryTools*: `isBigger` passes equal values too, and with a value given it
  compares the other way round; `/write` hands `pwritev` one byte; `/dump` shows one
  result more than `skip`; an unknown function still advances `cnt`; `/third` right
  after `/first` looks at the first value of each page only, because `FirstSearch`
  stores one address per page; a handler before `/init` dereferences a null pointer;
  `/init` a second time appends the pages it already has, and doubles what `/first`
  counts.
* *Value*: `asInt64` takes a double of 2^63; `removeIndex` of a gap returns false;
  an array with a gap and one with a null there are different under `==`; a NaN is
  neither less than, equal to nor greater than any number, itself included, and so are
  Values with one in them (`OrderIsTotal` leaves those out).
* *Readers*: behind a comment in an object any lexeme passes for the comma; a minus sign
  alone is the number 0; a comment before a colon is refused; the first of two comments
  on the line of a value is lost in `Reader`; `/*/` is a comment; a settings object
  without `stackLimit` makes every parse throw.  `ReadersFollowGrammar` claims that
  reader and language agree on every text but those that come to such a place (`Odd` in
  `JsonGrammar`).
* *Writers*: `StyledWriter` and `StyledStreamWriter` cut a name at a NUL; with an
  empty indentation and comments on, a `//` comment swallows what follows it.

## What is not modelled, and why

`Connector::stop`, which has no caller.  `Send` from other threads (the
lifetime of the characters it posts), the high-water callback, `shutdown` with a
pending output buffer beyond its closing.  `shutdown` by the users of `Server`; in
`Stream` indices of a buffer beyond the width of an int, and a number that is given out
again between the read and the write callback of one poll (`Poller` has it).  `cancel` of timers: no caller,
and undefined behaviour in its loop.  The destructors of loops, servers and
pools of loops.
`Socket`, `InetAddress`: wrappers of system calls without state.  Data races on
`std::set` and `std::function`: a callback that is just being set is taken for
either set or empty.  Of `HttpServer`: header fields other than the first line,
`httpCallBack`, and connections that close.  Of `MemoryTools`: searches of
different types after each other, and files that cannot be opened.  Of `jsoncpp`:
`Path`, iterators, error messages with their lines and columns, `pushError`, streams.
`LexicalCast`, `sgame.h`, `wz.cpp` and the example programs have no state of their
own; they are read for how they use the rest.

## Plan

Done: everything in the table of modules, with the proofs above.  Left, in this
order:

1. The end of loops: destructors of `EventLoopThread`, `EventLoopThreadPool` and
   `TcpServer`, `quit` against `looping_`, as a part of `Server`.
2. `TcpConnection::Send` from other threads, in `Stream`: an `Outbox` of posted
   sends whose order is that of `EventLoop`.
3. Abstract specifications: a timer service, which `TimerQueue` implements; a
   connector with one socket, which `Connector` implements.
4. Liveness of `Poller`: a peer that closes is noticed while few descriptors are
   ready.
5. `Json::Path`, and searches of different types in `MemoryTools`.
