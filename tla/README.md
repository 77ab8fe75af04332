# TLA+ verification of C-ServerCrawler

This directory holds TLA+ specifications of the web server, the web crawler and the
Job Executor of this repository, the TLC configurations that model-check them, and
theorems about each of them, with proofs that TLAPS checks. Line numbers are of the
files in `src/`.

    tlc -config CrawlerPool.cfg MCCrawler       # a model-checking run
    tlapm CrawlerProofs.tla                     # a proof

`PROJECT.json` lists the runs, the mutants (for each property a plausible fault of
the code that breaks it), the map from definitions to source lines, the findings,
the hazards and the theorems.

## 1. The system

Three programs.

* **myhttpd** serves files to GET requests. `main` polls two sockets with `select`
  (10 s): a control port (STATS, SHUTDOWN) and the web port. It reads each request
  itself, checks it, and puts it in a bounded queue; a pool of threads answers.
* **mycrawler** downloads a site. A pool of threads shares a queue of URLs; each
  page's links go back into it. The threads decide themselves when the crawl is
  over. `main` polls a control port (STATS, SEARCH, SHUTDOWN), and starts the Job
  Executor as a child process, connected with two pipes, once the crawl is over.
* **jobExecutor** (JE/) divides the downloaded directories among worker processes,
  and sends each command to all of them: a signal (SIGUSR1) and a message in a FIFO.
  The workers answer in another FIFO.

| component | state | operations | hard because | what makes it correct |
|---|---|---|---|---|
| crawler pool (`mycrawler.c` 527-961, 1270-1318, `url_queue.c`, `hash_table.c`) | `urlQueue`, `table`, `threadStop`, `threadsInProgress`, five mutexes, one condition variable | `threadFunc`, `sendRequest`, `parseContent`, pool loop of `main`, `cleanup` | the end is decided on a queue under one mutex and a counter under another; shutdown races the end; threads are re-created | no page twice, none missed, the end announced and the pool dissolved, DUMMY never requested |
| page store (`saveFile`, 963-1057) | directories, docfile, files | save a page | `access` and `mkdir` are two steps; only the docfile has a mutex | every page written, every directory listed once |
| crawler HTTP client (`createConnection`, `readResponse`, 653-823) | none shared | request a page | failures half way | a page or a failure is reported |
| crawler control port, coupling to the JE (275-525, 1060-1268, 1320-1341) | two pipes, `JE_pid`, `startedJE` | STATS, SEARCH, SHUTDOWN, start and loss of the child | answers in a pipe without name or end mark; the child's stdout buffer is inherited by its workers | a search returns its own results, all of them, and ends; the child is not left behind |
| web server (`myhttpd.c`, `req_queue.c`) | `reqQueue`, `threadStop`, `pagesServed`, `queue_mtx`, two condition variables | `handleRequest`, `serveClient`, `handleCommand`, `cleanup` | `main` is the only producer and takes the pool down through the same bounded queue | each connection closed once, order kept, no lost wakeup, shutdown ends |
| request parsing (`requests.c`) | none | `parseRequest`, `createRequestHeaders` | strings | a request is understood or refused |
| Job Executor (`JE/jobExecutor.c`) | workers' table, locals of a command, `g_timedout` | `/search`, `/maxcount`, `/mincount`, `/wc`, `/exit`; SIGALRM, SIGCHLD | signals between any two steps; workers that die; late answers | a command ends; its counters agree; no answer of another command is taken |
| worker (`JE/worker.c`) | `g_cmdReady`, `g_timedout`, files, trie | receive directories, answer commands; SIGUSR1, SIGUSR2, SIGALRM | signals between any two steps | each command answered once, results dropped only when late |
| FIFO framing (`JE/comm.c`) | none | `fifoRecv`, `fifoSend` | messages that arrive together, interrupted reads, EPIPE | message boundaries |
| index (`trie.c`, `textfile.c`, lists in `worker.c`, combining in `jobExecutor.c`) | trie, file list, totals | read, insert, merge, answer; combine answers | files in any order, answers in any order, files that cannot be read | all lines with a word once and in order, counts of what was read |
| docfile, distribution (`docfile.c`, `splitDirectories`, `sendDirectories`) | directory list, ranges | read, divide, send | remainder, workers that could not be created | every directory given to one worker |

Interactions: threads share memory under mutexes (crawler, server); crawler and JE
share the docfile and the files and talk over pipes; JE and workers talk over FIFOs
and signals. `webcreator.sh`, `pg164.txt`, `util.c` and the Makefiles have no state
that another part sees.

## 2. Modules

| module | models | instance for TLC |
|---|---|---|
| `Crawl` | what a crawl promises: abstract specification | checked as a property of `MCCrawler` |
| `Crawler` | the crawler's pool, the pool loop of `main`, `cleanup` | `MCCrawler` |
| `SequenceLemmas` | lemmas on sequences used as queues, and induction on numbers, for the proofs | |
| `CrawlerProofs` | inductive invariant of `Crawler` and its theorems | |
| `CrawlerRefinement` | `Crawler` implements `Crawl`, proved | |
| `Service` | what the web server promises: abstract specification | checked as a property of `MCHttpServer` |
| `HttpServer` | the web server | `MCHttpServer` |
| `HttpServerProofs` | inductive invariant of `HttpServer` and its theorems; `HttpServer` implements `Service`, proved | |
| `Query` | what the Job Executor promises of a command: abstract specification | checked as a property of `MCJobExecutor` |
| `JobExecutor` | the protocol between Job Executor and workers: FIFOs and signals | `MCJobExecutor` |
| `JobExecutorProofs` | inductive invariant of `JobExecutor` and its theorems; `JobExecutor` implements `Query`, proved | |
| `PageStore` | `saveFile` by several threads | see `Corpus` |
| `Corpus` | `PageStore`, then how the Job Executor reads the docfile and divides it | `MCPageStore` |
| `CorpusProofs` | inductive invariants of `PageStore` and `Corpus` and their theorems | |
| `Search` | the crawler's control port, its two pipes, the Job Executor as a child process | `MCSearch` |
| `SearchProofs` | inductive invariant of `Search` and its theorems | |
| `Index` | what the workers read and answer, and how the answers are combined | `MCIndex` |
| `IndexProofs` | inductive invariant of `Index` and its theorems | |

The modules meet where the programs do. `Crawler` says that the Job Executor is
started on complete files (`JobExecutorSeesAll`), which `Corpus` assumes; `Corpus`
composes the docfile's writer with its reader and says which directories a worker
gets, which is the constant `Given` of `Index`; `JobExecutor` says that the answers
used are those to the command at hand, and `Index` what is made of them; `Search`
has the child's stdin and stdout, and of a command only that it is taken and
answered.

Definitions called "Fault: ..." in the modules are the bodies of the mutants; no
specification uses them.

### Crawler

A step is the code between two accesses to state that another thread can change in
between. `queue_mtx` is a variable (its owner), because `threadStop` and
`threadsInProgress` are read and written both inside and outside it. `table_mtx`,
`thread_stop_mtx` and `thread_progress_mtx` guard one access each: that access is
the step.

| `pc` of a thread | code | actions from it |
|---|---|---|
| `acquire` | 534 | `WaitForUrl`, `ExitThread`, `PassStopCheck` |
| `wait` | 537 | left by a broadcast (`Woken`) or `SpuriousWakeup` |
| `take` | 551-560 | `TakeUrl` |
| `request` | 563, 573-637 | `Abandon`, `NoContent`, `ReceivePage` |
| `stop`, `wake` | 623-632 | `StopCrawl`, `WakePool` |
| `parse`, `link` | 910-954 | `LockQueue`, `AddLink`, `AnnounceLinks`, `CheckLastPage` |
| `finish` | 944-954 | `FinishCrawl` |
| `done` | 566-568 | `EndRequest` |
| `exited` | 548 | `Reap` (re-created by `main`) |

`main` is `SetUp`, `Poll`, `Reap`/`EndReap`, `StartJE`, `KeepRunning`, and on the
way out `Stop`, `CommandError`, `SetUpFails`, `StartJEFails` followed by
`SetStopFlag`, `UnblockPool`, `JoinPool`. A CMD_ERROR (432-436) cleans up without
leaving the loop; what follows works on destroyed mutexes and has no defined
behaviour, so the model stops in the state `undefined`.

`AddLink` keeps the odd unlock at 923. It would give `queue_mtx` away in the middle
of the loop; theorem `MutualExclusion` (property `CriticalSection`) says that the
branch is never taken: whatever is in the queue is in the table.

What a page contains is the constant `Links`; what a request for it comes to is one
of `Outcomes[u]`. Two history variables, `requests` and `finished`, serve the
properties only.

### HttpServer

The same style. `queue_mtx` and both condition variables are explicit
(`cond_nonempty`: threads at `wait`; `cond_nonfull`: only `main` can wait). `main`
is one process: `Accept`, then `BadRequest`, `ReadFails` or `GoodRequest`, then
`WaitToQueue`/`QueueRequest`. `SignalNonEmpty` wakes one waiting thread, any;
`UnblockPool` wakes all. `Serve` may answer 200, 403, 404, or nothing (an error half
way). What `main` does while it holds the mutex is one step, since nobody can see it
half done; threads need two, since `threadStop` is set without `queue_mtx`.

`Service` is the same seen from outside: a connection arrives, is refused or lines
up, is called in its turn, sent a page or not, counted, and leaves. It has no
threads, no mutex and no element of cleanup. Taken down, it may call one more, the
one of a thread that passed the check of `threadStop` before it was set ("last
call"), and ends when those that were called have left. `ServicePromise` maps the
queue without DUMMY to the line, the connections of the threads at `serve`, `count`
and `close` to those being served, uncounted and leaving, and the closed ones to
those gone; every step of the pool and of `main` is one of `Service` or none.

### JobExecutor

One step of the Job Executor is the code between two points where a worker or a
signal can be noticed. A loop over the workers is one step: a worker meets nobody
but the Job Executor. `Notify` and `Send` (`SendFails` for EPIPE), then round the
loop of `select`:

| `jePc` | code (`commandSearch`) | actions from it |
|---|---|---|
| `input` | the command is read | `Notify` (657-666), `Exit` |
| `send` | 683-698 | `Send`, `SendFails` |
| `loop` | the loop's condition, then `g_timedout` before `select` (714-730) | `Deadline`, `EnterSelect`; `Finish` (816-848) |
| `entering`, `select` | `select` | `Block`; `SelectReturns` (730), or left by `Interrupt` |
| `interrupted` | `g_timedout` after `select` (730) | `Deadline`, `PassFirstTest` |
| `tested` | the tests of 763 and 780 | `IgnoreRestarted`, `FallThrough` |
| `reading` | 790-813, with the set in `toRead` | `ReadFifo`, for each FIFO of the set |

SIGALRM may be delivered between any two of them (`Alarm`). If it comes after the
test of 730 and before that of 763, none of the three holds: `FallThrough`, which
takes the set that `select` was given for the one it found. A FIFO in `toRead` can
be empty again when `ReadFifo` comes to it, if its worker was restarted meanwhile;
then it waits. The signal handlers are `Alarm`, `Restart`, `Terminate` (Job
Executor), `Deliver` and `CheckParent` (worker); signals are pending until
delivered, and are not counted. `ReceiveDirectories` and `ReadCommand` take
everything that is in the FIFO, as `fifoRecv` does when a read ends with the last
message's EOF_BYTE. `Restart` empties the FIFOs, since both ends were closed, and
chooses whether `restartTime > queryTime`, which compares whole seconds.

A read that a signal interrupts in `fifoRecv` writes in front of its buffer: the
worker, or the Job Executor, is then `undefined` and does nothing more. Any signal
does: SIGUSR1 and SIGUSR2 (`Deliver`) and the worker's own alarm, set every 30
seconds to look for its parent (`CheckParent`), which in `pause` is a help.

The history variable `misled` holds the workers that were restarted after SIGUSR1
and before the command was written; see section 4. Three commands are one model:
`/search` has a deadline, the others do not (`hasDeadline`); 853-1009 and 1018-1115
follow the same protocol without the alarm.

`Query` is a command without signals, FIFOs, `select` and counters of what is to
come. All workers are asked; each is heard once, with an answer to this very
command, or given up, which needs that it is lost (dead, or known to be restarted)
and has not answered. Then the command ends. What was found is reported early only
when the command's own deadline has passed, once, and while someone is waited for.
Asking needs that no answer is left over. `QueryPromise` maps the answer FIFO of a
worker to the number of the answer in it, `stored` to the number of workers heard,
`timedout \/ sentResults` to "the deadline has passed", and `misled` to the strays,
of whose answers nothing is promised.

### PageStore and Corpus

`saveFile`: per directory of the path `access` (`DirExists`, `DirIsMissing`),
`mkdir` (`MakeDir`, `MakeDirFails`), the docfile (`ListDir`, `ListDirFails`), at
last the file (`WritePage`, `WritePageFails`), and `CountDownload` in the caller. It
uses of the pool only that no page is requested twice.

`Corpus` goes on when all pages are saved: `ReadDocfile`, `CreateWorkers` (any may
fail), `SplitDirectories` with the ranges of the C code, and `SendDirectories` to
one worker after the other. If that fails for one the handler of SIGCHLD indexes the
table with -1 (`undefined`).

### Search

`main` of the crawler from the loop on, with `handleCommand` in it: `Poll`,
`StartJE`, `ReadStartup`/`MoreStartup`/`Started`, `SelectTimesOut`, `Accept`, one
action per command, and for SEARCH `SendSearch`, `ForwardResults`, `MoreResults`,
`EndResults`. `cleanup` is `KillJE`, in every action that returns from `main`; the
handler of SIGCHLD is `ChildHandler`. A pipe is a sequence of pieces of text, each
known by whose answer it is part of, and whether it is the answer's end ("last"), an
earlier part, or a worker's copy of the buffer it was forked with. The Job Executor
is `Ready`, `TakeCommand` or `DropCommand`, `IgnoreWorker` for each worker that it
gives up, `PrintAnswer` or `PrintAtDeadline` and `LateAnswers`, `Flush`, and may
`Die` anywhere. Its workers may exit and be started again (`WorkerExits`,
`RestartWorker`) from its start on. `Gather` is the part of a search for which it
needs its workers. A signal that interrupts a `read` of `main` that waits makes it
write in front of its buffer (`ReadInterrupted`: `undefined`); SIGCHLD does when the
Job Executor is stopped or continued, since the handler then returns.

`hasData` waits five seconds. That is modelled by what they are long enough for:
they do not pass (`Silence`) while the Job Executor is starting, is between its
`printf`s and its `fflush`, or has just died. While a search runs they may, which is
the case that the properties are about: five seconds are also its deadline.

Commands are classes: "hidden" is a SEARCH in which the Job Executor finds no terms
or no deadline, because a keyword is "-d".

### Index

A worker opens its directories in order and reads the files of each in any order
(`readdir`): `OpenDir`, `ReadFile`, `CloseDir`, with `OpenDirFails`, `ReadFileFails`
(a file without a new-line), `ReadTail`, `ReadOpenTag` and `ReadDirectory` for what
the code does not survive. Then it answers: `Search`, `MaxMin`, `WC`. The trie is a
function from words to postings; the sorted lists are inserted into by `Walk`, as
the C lists are walked. The answers are combined in any order. The reference
definitions (`Hits`, `Count`, `BestOf`) use sets and the contents of the files only.

## 3. Runs

| run | expected | properties | instance |
|---|---|---|---|
| `CrawlerPool` | pass | `TypeOK`, `CriticalSection`, `FetchedOnce`, `DummyNotRequested`, `NullDirUnused`, `NoLostWakeup`, `InProgressExact`, `ShutdownCompletes`, `PoolDissolves` | 3 threads, 3 pages, every outcome for every page, fair; 103 409 states |
| `CrawlerReliable` | pass | `JobExecutorSeesAll`, `CrawlPromise` | 3 threads, 4 pages, server always answers; 179 067 states |
| `CrawlerMissedEnd` | violation | `CrawlFinishes` | 2 threads, 3 pages, server always answers, nobody takes the crawler down, fair |
| `CrawlerPremature` | violation | `FinishedComplete` | 2 threads, 3 pages, one page missing |
| `Server` | pass | `TypeOK`, `OneHolder`, `FirstComeFirstServed`, `NoLostWakeup`, `StatsExact`, `EndedServed`, `EveryClientServed`, `ServicePromise`, `ShutdownWithRoom` | 2 threads, 3 connections, queue of 2, fair; 114 808 states |
| `ServerStuck` | violation | `ShutdownCompletes` | 2 threads, 3 connections, queue of 1, fair |
| `Commands` | pass | `TypeOK`, `EveryActiveStored`, `AnswersCurrent`, `NoLeftovers`, `DroppedOnlyAfterDeadline`, `QueryPromise` | 2 workers, 2 commands, 2 crashes, workers may start slowly; 1 553 600 states |
| `CommandProgress` | pass | `EndsUnlessStuck` | 2 workers, 1 command, 2 crashes, workers may start slowly, fair; 607 826 states |
| `CommandErased` | violation | `CommandEnds` | 1 worker, 2 commands, fair |
| `PagesSaved` | pass | `TypeOK`, `ListedOnce`, `WrittenListed`, `NoDirectoryEmpty`, `GivenOnce`, `Searchable` | 3 threads, 5 pages in 3 directories and outside, any file operation may fail, 3 workers of which any may be missing; 853 313 states |
| `Search` | pass | `TypeOK`, `OwnAnswer`, `WholeAnswer`, `NotLeftBehind`, `SearchEnds` | 2 clients, 1 worker, 2 exits, fair; 616 253 states |
| `Index` | pass | `SearchExact`, `CountsExact` | 2 workers, 3 directories, 5 files, 5 commands; 221 480 states |

Every passing run ends within three minutes on two cores.

**Bounds.** Three pages whose links are shared, repeated, cyclic and self-referring
(four in `CrawlerReliable`) reach every branch of `AddLink` but the one at 923, with
two pages parsed at the same time. Three threads are the fewest with one that
decides, one that works and one that waits. For the server, a queue of one or two,
with one connection more than it holds, makes `main` wait. For the Job Executor two
workers are one that answers and one that is late or dead, two commands make one the
leftover of the other, and two crashes are the fewest with one worker restarted
between signal and command and another that makes the Job Executor look for
restarted workers; `MaxCommands` and `MaxCrashes` bound the environment and nothing
else. `CommandProgress` has one command, since what a command leaves behind is the
matter of `Commands` and `CommandErased`. For the page store, two pages of one
directory below another, a page above it, one in another site and one in the root,
with three threads, make both directories contended; three directories and three
workers are the fewest where the workers that were created can be one or two, first
or last, with a remainder or without. For `Search` two clients are one whose answer
is late and one that gets it; a client has one command, so more of them would only
be more of the same; one worker that exits twice has inherited each of the buffers.
For `Index` one worker has two directories, of which one has two files, and the
paths of the other worker lie between them, so that order matters in each list; each
file has two or three contents, among them words that are repeated on a line and
over lines, and lines with both keywords. The theorems have no bounds.

**Symmetry** (threads, connections, workers) is used in runs of invariants only.

**Deadlock** is checked wherever the program has an end of its own (`Terminated` is
its stutter). It is not checked in the three runs of `MCJobExecutor`, where the
system really stops: a command that is lost is waited for without end. In `Search`
it is checked, and `Spin` is a step: after the end of the crawler a Job Executor
that was left behind reads the end of its stdin for ever.

**Fairness.** Each thread and process is scheduled (weak fairness of its steps). The
other side of a socket answers or closes: no call in the code has a time limit, so
nothing could be shown without it. `select` returns within its five seconds, signals
are delivered, alarms that were set go off, and a dead worker's SIGCHLD is handled.
Nothing relies on spurious wakeups, SHUTDOWN, errors, crashes, or on a command or a
connection coming: these are not fair. In `HttpServer` `main` is fair as a whole, so
none of its choices is forced; in `Search` main's own steps (`MainStep`) are fair as
a whole likewise, and so are those of the Job Executor that need nobody else
(`JEStep`: to get ready, take or drop a line, flush an answer), besides
`ChildHandler` and `Terminate`, which are signals. That a search comes to its end
(`Gather`) is not assumed, since it need not. `UndisturbedSpec` is the crawler that
nobody takes down; with SHUTDOWN the crawl need not finish. A violation of a
liveness property is found under the same fairness as the passing runs assume.

## 4. What the runs show

*Crawler.* Whatever fails, no URL is requested twice, DUMMY is never taken, the
counter is exact, no wakeup is lost, a re-created thread never serves a URL, and
SHUTDOWN ends the program. Once the end was announced the pool dissolves. When the
server answers every request the pool implements `Crawl`, and the Job Executor
starts on complete files. (`Crawl` ends only when nothing is missed, so
`FinishedComplete` follows; `NothingMissed` proves it.) The crawl is neither
complete nor sure to end beyond that:

* `CrawlerPremature`: a thread whose request brings nothing checks only
  `threadsInProgress == 1` (622) and ends the crawl with URLs still queued.
* `CrawlerMissedEnd`: two threads that finish the last two pages both read
  `threadsInProgress == 2` (943); each lowers the counter after, neither looks
  again, and both wait for ever. One thread alone always finishes.

*Web server.* Connections are closed once and by the one that holds them, requests
are taken in order, none is forgotten behind a wakeup, the statistics are exact up
to the threads about to raise them, and all of it implements `Service`: once the
server is taken down, what was called is served, one more may be, and nothing else.
`ServerStuck`: SHUTDOWN with a full queue waits (651) for room that no exiting
thread makes; `ShutdownWithRoom` is what holds instead.

*Job Executor.* The counters agree in every state, so what is printed and freed was
stored, and the whole protocol, with deaths, restarts and late alarms anywhere,
implements `Query`. A command need not end. `EndsUnlessStuck` says that it does, or
the Job Executor ends, in every behaviour with signals, deadlines, deaths and
restarts at any point, unless one worker the Job Executor waits for is stuck for
good, or the Job Executor's own read was interrupted. `Stuck` names all the ways:

* a read of the worker was interrupted (`undefined`): by its own alarm
  (worker.c:660) while it waits for the command, between jobExecutor.c:662 and 685;
  or by any signal while it waits for a command that it took for directories;
* the command is in its FIFO and nothing tells it so (`NeverTold`): it was restarted
  after SIGUSR1 was sent (662) and before the command was written, or its SIGUSR1
  was erased (worker.c:188);
* there is no command for it (`NothingToTell`): the worker it replaces had it, and
  the Job Executor did not notice in time. The restart fell into the second of the
  query (768), or between two looks, or its SIGCHLD together with the deadline
  (730); or it took the command for directories, which it does if both are in the
  FIFO at its first read (comm.c:44).

A worker that is dead is not among them, although one SIGCHLD stands for two deaths
(1129): the end of its FIFO ends the wait. Nothing else makes a command wait for
ever; in particular a signal that comes between the test of `g_cmdReady` and `pause`
(worker.c:182) only costs time until the worker's alarm (mutant `KeepPausing`).

`CommandErased` shows that a command need not end even if no worker dies:
`g_cmdReady = 0` after the answer (worker.c:188) erases the next command's signal.
It is the claim without `Stuck` (`CommandEnds`), excusing interrupted reads only.
The model contains, and the other properties allow for:

* a worker that is restarted after SIGUSR1 was sent (662) and before the command is
  written has the command and was never told. If a second SIGCHLD then interrupts
  `select` it is given up with the one that died (768), and answers the old command
  when the next is announced. `AnswersCurrent` and `NoLeftovers` hold for all
  workers but these (`misled`), also when the Job Executor falls through its three
  tests;
* SIGUSR2 delivered after `g_timedout` was reset (worker.c:337) makes the next
  search drop its results, so `DroppedOnlyAfterDeadline` says "a deadline", not "its
  deadline".

*Page store and corpus.* No directory is listed twice, what is written is listed,
and no listed directory is empty in the end. Of two threads that find a directory
missing one gets EEXIST (mycrawler.c:999) and loses its page, although it is counted
(646). The directories are divided without overlap and no worker gets an empty
message, whichever workers could be created. `Searchable` names what no search
finds: pages in the root of the site (they are in `save_dir`, which is not listed),
pages whose directory could not be written to the docfile, and the remainder of the
division, which is given to the last element of the table (456) even when that
worker was not created.

*Search.* An answer is what comes until the pipe is silent for five seconds. So
`OwnAnswer` has two exceptions: the rest of a search that was given up is read by
the next one, and so is the copy of the Job Executor's stdout buffer that a
restarted worker writes when it exits (worker.c:706 forks with half an answer in
it). Who was not given up has the whole answer. `SearchEnds` says that a search
ends, its client closed or the crawler gone, unless one of two states lasts for
ever: the Job Executor gathers the answers of a search, of this one or of one that
was given up before (`Gathering`), or it has dropped the line without a word because
a keyword is "-d", and waits for the next while main waits in `read` (500) for it
(`Dropped`). So it holds of every search, and nothing but these two keeps main from
serving others; a line with "-d" can still end, if a worker exits and its copy comes
instead. What makes the first state last is in `Stuck` above. The Job Executor is
not left behind unless the crawler was killed, or failed before `JE_pid` was set
(1216).

*Index.* Every answer is what the reference definitions say of the files that the
worker has read, whatever the orders. One file without a new-line makes the worker
give up its directory (worker.c:511); what it read of it before stays searchable, is
in `maxcount` and `mincount`, and is not in `wc`.

## 5. What is proved

For `CrawlerProofs` and `CrawlerRefinement`: for all finite sets of threads, all
URLs, links and outcomes satisfying `CrawlerAssumption`.

`CrawlerProofs`: the invariants of run `CrawlerPool` are consequences of one
inductive invariant `Inv`, since none but the type is inductive by itself:

* the lock: `queue_mtx` is held by `t` iff `t` is at `take`, `link` or `finish`, and
  a thread at `take` has a non-empty queue;
* what is in the queue, apart from DUMMY, is in the table (so 923 is never reached),
  is there once, and has not been requested; what was requested is in the table and
  was requested once. This gives `FetchedOnce`;
* DUMMY is in the queue only if `threadStop` is set, so nobody passes the check with
  DUMMY in the queue and nobody at `take` meets it. This holds although the flag is
  set outside `queue_mtx`, because at `take` the mutex is held and DUMMY is queued
  under it;
* a thread has left, or was re-created, only after `threadStop` was set, so a
  re-created one cannot pass the check. This gives `NullDirUnused`;
* if a thread waits while the queue has something, some thread at `link` has queued
  more than it has links left, so its `newLinks` will be positive and it will
  broadcast; when the mutex is free there is no thread at `link`. This gives
  `NoLostWakeup`;
* the counter is the cardinality of the busy threads.

`Invariance` is Init, one step per action, and `PTL`; the other theorems follow from
it conjunct by conjunct.

`CrawlerRefinement` assumes `Reliable`: the server answers every request with a
page. Its invariant says that every link of a requested page is in the table, or
still in the hands of the thread that parses it, and what the thread at `finish`
knows: nobody else is busy and the queue is empty. `Implementation` maps `table` to
`known`, the requested URLs to `fetched` and shows each step to be one of `Crawl` or
a stutter. `NothingMissed` and `StartedOnCompleteFiles` follow.

The assumption is needed: without it `CrawlerPremature` is a counterexample.

`HttpServerProofs`: for all finite sets of threads and connections and every
`MaxSize > 0` (`ServerAssumption`), the invariants of run `Server` follow from one
inductive invariant `Inv`. What it adds to them:
* `LockInv`: `queue_mtx` is held by `t` iff `t` is at `take`, and then the queue is
  not empty and DUMMY is not in it: main queues under the mutex;
* `StopInv`: `threadStop` is set iff main is past its first step in `cleanup`, and
  DUMMY is in the queue only after that. With `LockInv` it gives `DummyNotServed`;
* `HandsInv`: a thread has a connection exactly while it serves, and never DUMMY;
  main has one from `accept` until it was answered or queued. With the queue's
  elements distinct this makes `OneHolder` inductive;
* `ReplyInv`: what is in the queue or in main's hands was not answered, what a
  thread is about to count was answered 200. So each page sent is counted once;
* `OrderInv`: what was taken followed by what is queued is what was queued, with
  DUMMY at the end once `cleanup` has put it there;
* `TakenInv`, `EndInv`: what was taken is answered or in a thread's hands, and in
  the end every thread has exited. This gives `EndedServed`.

`NoLostWakeup` needs only the first three of these, and counting: the thread that
takes a request leaves the set of those on their way (one less, as in the queue),
and the thread that is signalled enters it. A thread that begins to wait found the
queue empty.

`ServiceKept` shows that the server implements `Service`, step by step
(`ThreadStepSimulation`, `MainStepSimulation`). The invariant is needed for it: a
connection that is accepted is new to the service because what is in the queue or in
hand is open (`OneHolder`); the hands that a thread leaves are its connection's
alone (`HandMoves`); once DUMMY is queued nobody takes from the queue any more, so
dropping its last element is right in the line (`AfterCleanup`, from `OrderInv` and
`LockInv`); and the last call is one, since its thread holds `queue_mtx`.
`DummyNotServed` is a theorem of its own (`NoDummyServed`) and follows from the
service too, which does not know the element.

`CorpusProofs`: for all threads, pages and paths. `ListedOnce`
and `WrittenListed` need to know where each thread is on its path:

* `Climbing`, `Entered`: the directories that a thread has passed exist; the one it
  is about to write to the docfile exists, is not in it, and is its alone; any other
  existing directory is in the docfile or could not be written there. So no two
  threads list the same one;
* `OnePage`, `Counted`: a page is in one thread's hands, and is counted after that;
* `NoneEmpty`: each directory is on the path of a page that was written or could not
  be, or of one that a thread still climbs, which gives `NoDirectoryEmpty`.

`CorpusProofs` goes on from them for any number of workers. The rank of a worker
among the `a` created ones is a bijection onto `0..a-1`; with `d = N div a`, at
least 1 since there are no more workers than directories, the ranges are
consecutive, and end at `a * d`, or at `N` if the last of the table was created.
This gives `EachGivenOnce`, and with `WrittenListed` that every page is
`Searchable`.

`JobExecutorProofs`: for any finite set of workers, commands and crashes
(`JobExecutorAssumption`). The inductive invariant has, besides the types:

* `Numbered`, `Counts`: a command that is executed has a number, and the counters
  agree with the set of unfinished workers: this is `EveryActiveStored`. They are
  lowered once per worker since only FIFOs of unfinished ones are in `toRead`
  (`Selected`), whatever happens between `select` and the reading;
* `InStep`: for each worker that is not `misled`, the one command is either in its
  FIFO (`Told`), or being executed, or answered, and in each of these cases the Job
  Executor waits for the worker (`Waiting`); otherwise both FIFOs are empty but for
  the directories. This gives `AnswersCurrent` and `NoLeftovers`;
* `Lateness`: SIGUSR2, `wTimedout` and an answer "too late" exist only after a
  deadline has passed;
* `Clockwork`: the alarm is set, or has gone off and was not looked at, only in a
  search that has not reported yet, and never both. Between commands the clock is
  still, for the reason that the comment at line 821 gives.

`QueriesKept` shows that the protocol implements `Query`, with one lemma for each
kind of step. A worker that is heard has answered this command, and what is dropped
when a restarted or dead worker is given up is nothing, by `InStep`; that the next
command is asked with nothing left over is `InStep` too. The report at the deadline
is the first because of `Clockwork`, and finds somebody to wait for because of
`Counts`, as does the end that nobody is left. `ReadFifo` and `IgnoreRestarted` are
steps of `Query` (`GatherHolds`); what a worker does besides its answer is none. TLC
checked `Clockwork` and the property on the instance of `Commands` first. Nothing is
promised of the end: a command may wait for ever, and then so does `Query`.

`SearchProofs`: for any clients and workers and any number of exits
(`SearchAssumption`):

* `Holding`: what is in the buffer in each state of the Job Executor, and that it
  writes nothing before it is ready; `Known`: it is started once, and `JE_pid` is
  set wherever main can return from its loop. This gives `NotLeftBehind`;
* `AllAccounted`: whatever is in a pipe or in a buffer and is not a copy belongs to
  the client being read for, to one that was given up, or to the startup messages
  while they are read. `Silence` keeps it: what is left when main stops reading goes
  into `hurried`. This gives `OwnAnswer`;
* `LastToCome`: the last piece of the answer being read is still in one of five
  places. This gives `WholeAnswer`.

`IndexProofs`: for any workers, directories and words and any finite set of files
with any texts, as far as `IndexAssumption` allows (a file is in one directory, a
directory is given to one worker, once: what `GivenOnce` says of the ranges). The
invariant `IndexInv`, which TLC checked on the instance of run `Index` before it was
proved, says of each worker

* `InTurn`: what it still has to open is without duplicates, is part of what it was
  given, and holds neither what it has left nor what it gave up;
* `Listed`: its file list is the files of the directories it has read to the end,
  those read so far of the open one, and some of those it gave up;
* `Totalled`: `total` and `temp` are the totals of the first two of these. Totals
  are cardinalities of sets of lines and words labelled with their file, so a file
  that is read, or a directory that is closed, adds a disjoint set;
* `Indexed`: the list of each word `Summarises` its occurrences in the listed files.
  It is sorted by path and has each path once; for each path the frequency is the
  number of occurrences, and the lines, sorted and each once, are those it occurs on
  (`Entry`);

and of the Job Executor (`Answers`) that what it has is right for the workers that
have answered so far; those have nothing more to read, so it stays right.

`SearchExact` and `CountsExact` speak of answers only; without `Indexed` nothing is
known of the lists that a worker answers from. The lemmas follow the code from the
inside out: `WalkFacts` and `WalkSorted` (an insertion into a sorted list),
`UpdateSummarises` (one occurrence more), `InsertSummarises` (a whole text),
`MergeSummarises` (the lists of several keywords in one), `SearchAnswerFacts` and
`WorkerBestFacts` (an answer), `BestOfBoth` and `TotalsUnion` (two answers), then
one lemma per action. `FlattenPlaces` says what `FlattenSeq` of the community
modules computes, and where each element of the result comes from.

These are inductions over lists and texts. The library's induction theorems take an
operator and cannot be instantiated, so `SequenceLemmas` has induction for sets of
numbers (`InductionUpTo`, from the least number that is not in the set), and
`RecursiveFunction`, the equations of a function that is defined by recursion on
numbers. Where `Index` needs recursion (the insertion of a text, the merging of
lists) it has such a function. No module uses a RECURSIVE operator.

**Model-checked only.** The liveness properties (`ShutdownCompletes`,
`PoolDissolves`, `EveryClientServed`, `ShutdownWithRoom`, `EndsUnlessStuck`,
`SearchEnds`): liveness under fairness and ENABLED are beyond the prover. Every
invariant of a passing run, and the three refinements, are proved.

## 6. Not modelled

* The text of requests, responses, pages and results; how URLs are cut out of a page
  (mycrawler.c 826-960 is modelled from the links on); memory management (the array
  of links grown at mycrawler.c:896, uninitialised buffers).
* `parseRequest` and `createRequestHeaders` (`requests.c`): `strtok` and `sprintf`
  on one string, without state; the server branches on whether a request was
  understood.
* In `Index`: how tags are taken out of a line, and bytes, which are summed up like
  words.
* Failures of malloc, fork and FIFOs when a worker is restarted; a worker's log. The
  ends of the FIFOs of a restarted worker are taken to get the descriptors that were
  closed, so that `fds` means the same worker after it.
* In `Search`: a Job Executor that needs more than five seconds for the rest of its
  start once something of it, a worker's copy say, was read.
* `util.c`, Makefiles, `webcreator.sh`, data and logs: no behaviour shared with the
  rest.

What the code has no defined behaviour for ends a model in the state `undefined`:
the loop after CMD_ERROR (mycrawler.c:432), `fifoRecv`, and `main` of the crawler
(371, 500), after an interrupted read, the restart of a worker with index -1, and
the reading of a file with a tail or an open tag.

## 7. Plan

The order was: the end of the crawl, the most delicate decision in the code
(`Crawl`, `Crawler`, proofs and refinement), `HttpServer` and its proofs,
`JobExecutor`, `PageStore`, then what joins them: `Corpus`, `Search`, `Index`, the
proofs of each, and at last `Service` and `Query`.

What remains:

1. The Job Executor's side of `Search` as an instance of `Query`.
2. Failures in `restartWorker`, which leave a worker without FIFOs.
3. `parseRequest` and the extraction of URLs as operators on sequences of tokens.
