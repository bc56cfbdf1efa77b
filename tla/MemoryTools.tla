---------------------------- MODULE MemoryTools ----------------------------
(***************************************************************************)
(* The program MemoryTools.cpp: an HttpServer whose handlers search the    *)
(* memory of another process, the target, and narrow down what they found  *)
(* search by search.  The handlers run on the loop thread; the second and  *)
(* every later search has a threadpool of its own, a task for each page,   *)
(* and waits for them in a busy loop.                                      *)
(*                                                                         *)
(* The contents of a MemoryManager are two maps from a page and the number *)
(* of a search to a file: of addresses, and of the values they had.  The   *)
(* tasks and the loop thread use them without a lock.  Two threads in a    *)
(* map that one of them changes may end the process, by a broken tree or   *)
(* a null pointer (action Clash); as long as they do not, the model goes   *)
(* on with the changes in some order.                                      *)
(***************************************************************************)
EXTENDS HttpServer, FiniteSets, SequencesExt, FiniteSetsExt, Functions

CONSTANTS Cells,       \* how many values each page has, the pages being 1, 2, ...
          Guarded,     \* pages without 'r' among their flags
          Values,      \* numbers
          Start,       \* the values there are when the program starts
          Byte,        \* how many values a byte has
          Threads,     \* how many a pool has
          MaxPages,    \* bounds: the length of pages,
          MaxLevel,    \* how many searches follow each other,
          MaxChanges   \* and how often the target changes

Pages == DOMAIN Cells
Addresses == UNION {{p} \X (1 .. Cells[p]) : p \in Pages}

ASSUME MemoryToolsAssumption ==
    /\ Cells \in Seq(Nat \ {0}) /\ Guarded \subseteq Pages
    /\ Values \subseteq Nat /\ Start \in [Addresses -> Values] /\ Byte \in Nat \ {0}
    /\ \A v \in Values, b \in 0 .. Byte - 1 : v - (v % Byte) + b \in Values

\* What main gives to HttpServer::Get, and what requests and defaults for /write are.
ASSUME HandlersAssumption ==
    /\ {"/second", "/third"} \subseteq GetPaths
    /\ \A r \in Requests : r.path = "/write" =>
          {"address", "value"} \subseteq DOMAIN r /\ r.address \in Addresses /\ r.value \in Int
    /\ Defaults.address \in Addresses /\ Defaults.value \in Int

VARIABLES
    memory,     \* of the target, by address
    mapped,     \* the pages it has at present
    changes,    \* bound: how often it has changed
    pc,         \* what the loop thread does
    pages,      \* main's vector of MemPage
    made,       \* memoryTools is not null
    cnt,        \* main's
    addr, data, \* MemoryManager's: <<page, count>> to the contents of a file
    search,     \* of SecondSearch and ThirdSearch: the arguments
    at,         \* FirstSearch's, SecondSearch's and ThirdSearch's place in their loop
    acc2,       \* how many tasks were committed,
    acc,        \* and how many have ended
    allSize,    \* how many results there are
    tasks,      \* the pages of the tasks in the pool's queue
    task,       \* what the threads of the pool do, by page
    orderly     \* history: the searches since /init or /first came in their order

target == <<memory, mapped, changes>>
files == <<addr, data>>
pool == <<acc, tasks, task>>
vars == <<httpVars, target, pc, pages, made, cnt, files, search, at, acc2, allSize, pool, orderly>>

NoSearch == [level |-> 0, func |-> "unknown", value |-> Absent]
Resting == [pc |-> "none", i |-> 0, buff |-> Absent]
Functions_ == {"isEqual", "isNotEqual", "isBigger", "isSmaller"}

Init ==
    /\ HttpInit
    /\ memory = Start /\ mapped = Pages /\ changes = 0
    /\ pc = "poll" /\ pages = <<>> /\ made = FALSE /\ cnt = 0
    /\ addr = <<>> /\ data = <<>>
    /\ search = NoSearch /\ at = 0 /\ acc2 = 0 /\ acc = 0 /\ allSize = 0
    /\ tasks = <<>> /\ task = [p \in Pages |-> Resting] /\ orderly = TRUE

----------------------------------------------------------------------------
(* FileManager and MemoryManager.                                          *)

\* creat that keeps a file which is there already.
CreatOnce(files_, key) == IF key \in DOMAIN files_ THEN files_
                          ELSE [k \in DOMAIN files_ \union {key} |-> IF k = key THEN <<>> ELSE files_[k]]

\* A new, empty file in the place of one there may have been.
Creat(files_, key) == [k \in DOMAIN files_ \union {key} |-> IF k = key THEN <<>> ELSE files_[k]]

AppendAll(files_, key, contents) == [files_ EXCEPT ![key] = @ \o contents]

Holds(func, a, b) == CASE func = "isEqual"    -> a = b
                       [] func = "isNotEqual" -> a # b
                       [] func = "isBigger"   -> a <= b
                       [] func = "isSmaller"  -> a >= b

\* Without a value the old and the new one are compared, else the new one and it.
Passes(old, new) == IF search.value = Absent THEN Holds(search.func, old, new)
                    ELSE Holds(search.func, new, search.value)

\* What preadv reads.
PageValues(p) == [i \in 1 .. Cells[p] |-> memory[<<p, i>>]]

----------------------------------------------------------------------------
(* The loop thread.                                                        *)

\* parse throws for a text of less than three characters, which half a request may be.
ReadCallBack(n) ==
    /\ pc = "poll"
    /\ Read(n)
    /\ \/ pc' = IF Handled(request') THEN "handle" ELSE "reply"
       \/ n = 1 /\ pc' = "crashed"
    /\ UNCHANGED <<target, pages, made, cnt, files, search, at, acc2, allSize, pool, orderly>>

Reply ==
    /\ pc = "reply"
    /\ Send
    /\ pc' = "poll"
    /\ search' = NoSearch /\ at' = 0 /\ acc2' = 0 /\ acc' = 0 /\ allSize' = 0
    /\ UNCHANGED <<target, pages, made, cnt, files, tasks, task, orderly>>

Handle(path) == pc = "handle" /\ request.path = path

\* What a handler leaves alone until it answers.
http == <<wire, inputBuffer, len, request, waiting, paced>>
Answer(data_) == pc' = "reply" /\ response' = data_ /\ UNCHANGED http
GoOn(place) == pc' = place /\ UNCHANGED httpVars

\* The numbers in S, in their order.
Ascending(S) == {s \in [1 .. Cardinality(S) -> S] : \A i, j \in DOMAIN s : i < j => s[i] < s[j]}

\* getMemPage appends the pages there are to those it was given.
GetMemPage == \E s \in Ascending(mapped) : pages' = pages \o s

GetPages ==
    /\ Handle("/getPages")
    /\ GetMemPage
    /\ Answer(IF pages' = <<>> THEN Absent ELSE Len(pages'))
    /\ UNCHANGED <<target, made, cnt, files, search, at, acc2, allSize, pool, orderly>>

InitTools ==
    /\ Handle("/init")
    /\ made' = TRUE /\ addr' = <<>> /\ data' = <<>> /\ cnt' = 0
    /\ GetMemPage
    /\ Answer(Len(pages'))
    /\ orderly' = TRUE
    /\ UNCHANGED <<target, search, at, acc2, allSize, pool>>

First ==
    /\ Handle("/first")
    /\ IF request.type = "int"
       THEN GoOn("first") /\ at' = 0 /\ allSize' = 0 /\ orderly' = made /\ UNCHANGED cnt
       ELSE cnt' = 1 /\ Answer(Absent) /\ orderly' = FALSE /\ UNCHANGED <<at, allSize>>
    /\ UNCHANGED <<target, pages, made, files, search, acc2, pool>>

\* One page of FirstSearch.
FirstPage ==
    /\ pc = "first" /\ at < Len(pages)
    /\ at' = at + 1
    /\ LET p == pages[at + 1]
           key == <<p, 1>>
           read == p \in mapped
       IN IF p \in Guarded THEN UNCHANGED <<httpVars, pc, files, allSize>>
          ELSE IF ~made THEN GoOn("crashed") /\ UNCHANGED <<files, allSize>>
          ELSE /\ addr' = AppendAll(Creat(addr, key), key, IF read THEN <<<<p, 1>>>> ELSE <<>>)
               /\ data' = AppendAll(Creat(data, key), key, IF read THEN PageValues(p) ELSE <<>>)
               /\ allSize' = allSize + Cells[p]
               /\ UNCHANGED <<httpVars, pc>>
    /\ UNCHANGED <<target, pages, made, cnt, search, acc2, pool, orderly>>

FirstEnds ==
    /\ pc = "first" /\ at = Len(pages)
    /\ cnt' = 1
    /\ Answer(allSize)
    /\ UNCHANGED <<target, pages, made, files, search, at, acc2, allSize, pool, orderly>>

\* SecondSearch and ThirdSearch up to their loop.
Begin(level) ==
    /\ GoOn(IF made THEN "commit" ELSE "crashed")
    /\ search' = [level |-> level, func |-> request.func, value |-> request.value]
    /\ at' = 0 /\ acc2' = 0 /\ acc' = 0 /\ allSize' = 0
    /\ UNCHANGED <<tasks, task, cnt>>

SearchNothing(count) ==
    /\ cnt' = count
    /\ Answer(0)
    /\ UNCHANGED <<search, at, acc2, allSize, pool>>

Second ==
    /\ Handle("/second")
    /\ IF request.func \in Functions_ THEN Begin(1) ELSE SearchNothing(2)
    /\ orderly' = (orderly /\ cnt >= 1 /\ request.func \in Functions_)
    /\ UNCHANGED <<target, pages, made, files>>

Third ==
    /\ Handle("/third")
    /\ LET count == IF request.count = Absent THEN cnt ELSE request.count
       IN /\ IF request.func \in Functions_ THEN Begin(count) ELSE SearchNothing(cnt + 1)
          /\ orderly' = (orderly /\ cnt >= 2 /\ count = cnt /\ request.func \in Functions_)
    /\ UNCHANGED <<target, pages, made, files>>

\* The entries of the map that are of the search before and still to come.
Left == {p \in Pages : p > at /\ <<p, search.level>> \in DOMAIN addr}

Commit ==
    /\ pc = "commit"
    /\ at' \in Left /\ \A p \in Left : at' <= p
    /\ acc2' = acc2 + 1
    /\ tasks' = Append(tasks, at')
    /\ UNCHANGED <<httpVars, target, pc, pages, made, cnt, files, search, acc, allSize, task, orderly>>

\* The end of that loop, and of the next, while (acc2 != acc).  Then the pool is destroyed, which may never end: its
\* threads need not sleep yet (see JoinReturns of module ThreadPool).
Spin ==
    /\ pc = "commit" /\ Left = {} /\ acc2 = acc
    /\ \/ /\ cnt' = IF request.path = "/second" THEN 2 ELSE cnt + 1
          /\ Answer(allSize)
       \/ GoOn("hung") /\ UNCHANGED cnt
    /\ UNCHANGED <<target, pages, made, files, search, at, acc2, allSize, pool, orderly>>

\* /dump: up to one more result than skip.
Dump ==
    LET count == IF request.count = Absent THEN cnt ELSE request.count
        found == {key \in DOMAIN addr : key[2] = count}
        all   == FoldSet(LAMBDA key, n : n + Len(addr[key]), 0, found)
    IN /\ Handle("/dump")
       /\ IF made THEN Answer(IF all <= request.skip THEN all ELSE request.skip + 1)
          ELSE GoOn("crashed")
       /\ UNCHANGED <<target, pages, made, cnt, files, search, at, acc2, allSize, pool, orderly>>

\* /write hands pwritev one byte of the value.
Write ==
    /\ Handle("/write")
    /\ LET a == request.address
       IN IF a[1] \in mapped
          THEN memory' = [memory EXCEPT ![a] = @ - (@ % Byte) + (request.value % Byte)]
          ELSE UNCHANGED memory
    /\ changes' = IF changes = 0 THEN 1 ELSE changes
    /\ Answer(request.value)
    /\ UNCHANGED <<mapped, pages, made, cnt, files, search, at, acc2, allSize, pool, orderly>>

----------------------------------------------------------------------------
(* The tasks, by the page they look through.                               *)

Running == pc # "crashed"

Is(p, place) == Running /\ task[p].pc = place
Goes(p, place) == task' = [task EXCEPT ![p].pc = place]

TakeTask(p) ==
    /\ Running /\ tasks # <<>> /\ p = Head(tasks)
    /\ Cardinality({q \in Pages : task[q].pc # "none"}) < Threads
    /\ task' = [task EXCEPT ![p] = [pc |-> "creates", i |-> 1, buff |-> Absent]]
    /\ tasks' = Tail(tasks)
    /\ UNCHANGED <<httpVars, target, pc, pages, made, cnt, files, search, at, acc2, allSize, acc, orderly>>

\* manager.creat(start, count + 1).
CreatNext(p) ==
    LET key == <<p, search.level + 1>>
    IN /\ Is(p, "creates")
       /\ addr' = Creat(addr, key) /\ data' = Creat(data, key)
       /\ Goes(p, IF request.path = "/second" THEN "page" ELSE "cells")
       /\ UNCHANGED <<httpVars, target, pc, pages, made, cnt, search, at, acc2, allSize, acc, tasks, orderly>>

\* These addresses of the page passed, with these new values.
Found(p, addresses, values) ==
    LET key == <<p, search.level + 1>>
    IN /\ addr' = AppendAll(addr, key, addresses)
       /\ data' = AppendAll(data, key, values)
       /\ allSize' = allSize + Len(addresses)

\* The rest of Second: the page is read at once.
ScanPage(p) ==
    LET old == data[<<p, 1>>]
        passing == {i \in 1 .. Len(old) : Passes(old[i], memory[<<p, i>>])}
    IN /\ Is(p, "page")
       /\ IF p \in mapped
          THEN \E hits \in Ascending(passing) :
                  Found(p, [j \in DOMAIN hits |-> <<p, hits[j]>>],
                           [j \in DOMAIN hits |-> memory[<<p, hits[j]>>]])
          ELSE UNCHANGED <<files, allSize>>
       /\ Goes(p, "ends")
       /\ UNCHANGED <<httpVars, target, pc, pages, made, cnt, search, at, acc2, acc, tasks, orderly>>

\* One round of Third's loop: where nothing can be read, buff is what it was.
ScanCell(p) ==
    LET key == <<p, search.level>>
        i   == task[p].i
        a   == addr[key][i]
    IN /\ Is(p, "cells") /\ i <= Len(addr[key])
       /\ \E buff \in IF a[1] \in mapped THEN {memory[a]}
                      ELSE IF task[p].buff = Absent THEN Values ELSE {task[p].buff} :
             /\ task' = [task EXCEPT ![p].buff = buff, ![p].i = i + 1]
             /\ IF Passes(data[key][i], buff) THEN Found(p, <<a>>, <<buff>>)
                ELSE UNCHANGED <<files, allSize>>
       /\ UNCHANGED <<httpVars, target, pc, pages, made, cnt, search, at, acc2, acc, tasks, orderly>>

CellsEnd(p) ==
    /\ Is(p, "cells") /\ task[p].i > Len(addr[<<p, search.level>>])
    /\ Goes(p, "ends")
    /\ UNCHANGED <<httpVars, target, pc, pages, made, cnt, files, search, at, acc2, allSize, acc, tasks, orderly>>

\* A task that counts itself only if its page was there.
CountIfRead(p) ==
    /\ Is(p, "ends")
    /\ acc' = IF p \in mapped THEN acc + 1 ELSE acc
    /\ task' = [task EXCEPT ![p] = Resting]
    /\ UNCHANGED <<httpVars, target, pc, pages, made, cnt, files, search, at, acc2, allSize, tasks, orderly>>

\* acc++.
Count(p) ==
    /\ Is(p, "ends")
    /\ acc' = acc + 1
    /\ task' = [task EXCEPT ![p] = Resting]
    /\ UNCHANGED <<httpVars, target, pc, pages, made, cnt, files, search, at, acc2, allSize, tasks, orderly>>

\* A thread changes a map another is in.
Clash ==
    /\ Running
    /\ \E p \in Pages :
          /\ task[p].pc = "creates"
          /\ pc = "commit" \/ \E q \in Pages \ {p} : task[q].pc \in {"creates", "page", "cells"}
    /\ GoOn("crashed")
    /\ UNCHANGED <<target, pages, made, cnt, files, search, at, acc2, allSize, pool, orderly>>

----------------------------------------------------------------------------
(* The target.                                                             *)

Change(a, v) ==
    /\ changes < MaxChanges /\ a[1] \in mapped /\ memory[a] # v
    /\ memory' = [memory EXCEPT ![a] = v] /\ changes' = changes + 1
    /\ UNCHANGED <<httpVars, mapped, pc, pages, made, cnt, files, search, at, acc2, allSize, pool, orderly>>

Unmap(p) ==
    /\ changes < MaxChanges /\ p \in mapped
    /\ mapped' = mapped \ {p} /\ changes' = changes + 1
    /\ UNCHANGED <<httpVars, memory, pc, pages, made, cnt, files, search, at, acc2, allSize, pool, orderly>>

\* The bounds on what is asked for count what is still waiting; and requests wait
\* together only as long as no pages were read.
Asks(paths) == {i \in DOMAIN waiting' : waiting'[i].path \in paths}

AskFor(r) ==
    /\ pc # "crashed" /\ Ask(r)
    /\ waiting = <<>> \/ pages = <<>>
    /\ Len(pages) + Cardinality(mapped) * Cardinality(Asks({"/init", "/getPages"})) <= MaxPages
    /\ (IF cnt > 2 THEN cnt ELSE 2) + Cardinality(Asks({"/third"})) <= MaxLevel
    /\ UNCHANGED <<target, pc, pages, made, cnt, files, search, at, acc2, allSize, pool, orderly>>

Loop == \/ \E n \in 1 .. Len(wire) : ReadCallBack(n)
        \/ GetPages \/ InitTools \/ First \/ FirstPage \/ FirstEnds \/ Second \/ Third
        \/ Commit \/ Spin \/ Dump \/ Write \/ Reply

Work(p) == TakeTask(p) \/ CreatNext(p) \/ ScanPage(p) \/ ScanCell(p) \/ CellsEnd(p) \/ Count(p)

Next ==
    \/ Loop \/ Clash
    \/ \E p \in Pages : Work(p)
    \/ \E r \in Requests : AskFor(r)
    \/ \E a \in Addresses, v \in Values : Change(a, v)
    \/ \E p \in Pages : Unmap(p)

\* The threads go on; the client and the target do as they like.
Spec == Init /\ [][Next]_vars /\ WF_vars(Loop) /\ \A p \in Pages : WF_vars(Work(p))

----------------------------------------------------------------------------
TypeOK ==
    /\ wire \in Seq([of : Requests, part : 1 .. 2]) /\ inputBuffer \in Seq([of : Requests, part : 1 .. 2])
    /\ waiting \in Seq(Requests) /\ Len(waiting) <= MaxWaiting
    /\ memory \in [Addresses -> Values] /\ mapped \subseteq Pages
    /\ pc \in {"poll", "handle", "first", "commit", "reply", "hung", "crashed"}
    /\ pages \in Seq(Pages) /\ cnt \in Nat
    /\ DOMAIN addr \subseteq Pages \X (Nat \ {0})
    /\ tasks \in Seq(Pages) /\ acc <= acc2 /\ acc2 <= Cardinality(Pages)

\* Whatever is asked in whatever order, a file of results has an address for every
\* value, in the order of the page; and both maps have the same files.
FilesAgree ==
    /\ DOMAIN addr = DOMAIN data
    /\ \A key \in DOMAIN addr :
          /\ key[2] > 1 => Len(addr[key]) = Len(data[key])
          /\ \A i, j \in DOMAIN addr[key] :
                /\ addr[key][i][1] = key[1]
                /\ i < j => addr[key][i][2] < addr[key][j][2]

Results(count) == UNION {Range(addr[key]) : key \in {key \in DOMAIN addr : key[2] = count}}
ValueAt(a, count) == data[<<a[1], count>>][CHOOSE i \in DOMAIN addr[<<a[1], count>>] :
                                              addr[<<a[1], count>>][i] = a]

\* The values FirstSearch has read.
FirstValues == {a \in Addresses : <<a[1], 1>> \in DOMAIN data /\ a[2] <= Len(data[<<a[1], 1>>])}

\* What the search that is being answered had to look through: Second every value
\* of a page that was read, Third the results of the search before.
Candidates == IF request.path = "/second" THEN FirstValues ELSE Results(search.level)
Old(a) == IF search.level = 1 THEN data[<<a[1], 1>>][a[2]] ELSE ValueAt(a, search.level)

\* One of the searches was done: it has a comparison, and a number that a search has.
Searched == /\ pc = "reply" /\ request.path \in {"/second", "/third"}
            /\ request.method = "GET" /\ request.func \in Functions_
            /\ search.level \in Nat \ {0}

\* The results of a search are candidates that pass; they are all that do, if
\* the target was left alone; and their number is the answer.
SearchIsRight ==
    Searched =>
        LET new == Results(search.level + 1)
        IN /\ new \subseteq Candidates
           /\ \A a \in new : Passes(Old(a), ValueAt(a, search.level + 1))
           /\ changes = 0 => \A a \in Candidates \ new : ~Passes(Old(a), memory[a])
           /\ response = Cardinality(new)

\* /first counts what it found, if pages names no page twice and all could be read.
FirstIsRight ==
    pc = "reply" /\ request.path = "/first" /\ response # Absent
        /\ changes = 0 /\ IsInjective(pages) =>
            response = Cardinality(FirstValues)

\* Searches in their order narrow down: whatever pages come and go and however
\* often one starts again, no search finds what the one before has not.
Narrow == orderly /\ pc \in {"poll", "reply"} =>
              \A count \in 2 .. cnt - 1 : Results(count + 1) \subseteq Results(count)

\* What a handler works on and answers is what the client waits for first, as long
\* as every read brings one request: readCallBack takes whatever it is called with
\* for one.
AnswersInOrder == pc \notin {"poll", "crashed"} /\ paced => request = waiting[1]

\* The searches of one type, asked for in any order while the target changes, give
\* the results they should: in the files, in their number, and one after another.
SearchesAreRight == TypeOK /\ FilesAgree /\ SearchIsRight /\ FirstIsRight /\ Narrow

\* A request is answered in the end, unless the process ends first or a pool
\* cannot be destroyed: the busy loop sees every task end.
RequestsAreAnswered ==
    waiting # <<>> ~> (pc \in {"reply", "hung", "crashed"} \/ ~paced)
=============================================================================
