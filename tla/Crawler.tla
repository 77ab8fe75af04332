------------------------------- MODULE Crawler -------------------------------
(***************************************************************************)
(* The thread pool of mycrawler.c: the workers share a queue of URLs       *)
(* (url_queue.c) and a hash table of the URLs ever found (hash_table.c),   *)
(* and decide among themselves when the crawl is over.  The main thread    *)
(* polls the pool, starts the Job Executor once the crawl is over, and     *)
(* takes the pool down on SHUTDOWN or on an error.                         *)
(*                                                                         *)
(* A step is the code between two accesses to state that another thread    *)
(* may change in between.  queue_mtx is explicit, because threadStop and   *)
(* threadsInProgress are read and written both inside and outside it; the  *)
(* other mutexes guard a single access each, so that access is the step.   *)
(***************************************************************************)
EXTENDS Integers, Sequences, FiniteSets

CONSTANTS
  Threads,    \* the slots of the array "threads" (-t)
  Urls,       \* the URLs the site's pages can name
  StartUrl,   \* the URL on the command line
  Links,      \* Links[u]: the links of page u, in the order of its text
  Outcomes,   \* Outcomes[u]: what a request for u may come to
  Dummy,      \* the "DUMMY" element that unblocks the pool
  NoUrl,      \* a thread that holds no URL
  NoThread    \* queue_mtx is free

Outcome == {"page",       \* 200 with content
            "nocontent",  \* readResponse returned NULL
            "noconn",     \* no headers or no connection: early return
            "unclosed"}   \* a page with a link that has no closing tag

ASSUME CrawlerAssumption ==
  /\ IsFiniteSet(Threads) /\ NoThread \notin Threads
  /\ StartUrl \in Urls /\ Dummy \notin Urls /\ NoUrl \notin Urls \cup {Dummy}
  /\ Links \in [Urls -> Seq(Urls)]
  /\ Outcomes \in [Urls -> SUBSET Outcome]

VARIABLES
  queue,              \* urlQueue, front first
  table,              \* the keys of the hash table
  queueMtx,           \* the owner of queue_mtx, or NoThread
  threadStop,         \* the flag of the same name
  threadsInProgress,  \* the counter of the same name
  pc,                 \* where each thread is
  url,                \* the local "url" of threadFunc
  links,              \* parseContent: links[i..linkCount-1]
  newLinks,           \* parseContent: the local of the same name
  saveDir,            \* FALSE: the thread was started with a NULL save_dir
  mainPc,             \* where the main thread is
  reaping,            \* the slots its pthread_tryjoin_np loop has yet to visit
  startedJE,          \* the local of the same name (checkThreads is its negation)
  cmdError,           \* a read on the command socket has failed
  requests,           \* history: how often each URL was requested
  finished            \* history: "Crawling has finsished" was printed

shared == <<queue, table, queueMtx, threadStop, threadsInProgress>>
locals == <<url, links, newLinks, saveDir>>
main   == <<mainPc, reaping, startedJE, cmdError>>
vars   == <<shared, pc, locals, main, requests, finished>>

Queued == {queue[i] : i \in DOMAIN queue}

Init ==
  /\ queue = <<StartUrl>>
  /\ table = {StartUrl}
  /\ queueMtx = NoThread
  /\ threadStop = FALSE
  /\ threadsInProgress = 0
  /\ pc = [t \in Threads |-> "acquire"]
  /\ url = [t \in Threads |-> NoUrl]
  /\ links = [t \in Threads |-> <<>>]
  /\ newLinks = [t \in Threads |-> 0]
  /\ saveDir = [t \in Threads |-> TRUE]
  /\ mainPc = "setup"
  /\ reaping = {}
  /\ startedJE = FALSE
  /\ cmdError = FALSE
  /\ requests = [u \in Urls |-> 0]
  /\ finished = FALSE

(***************************************************************************)
(* The pool after pthread_cond_broadcast(&cond_nonempty).                  *)
(***************************************************************************)
Woken == [t \in Threads |-> IF pc[t] = "wait" THEN "acquire" ELSE pc[t]]

Goto(t, l) == pc' = [pc EXCEPT ![t] = l]

-----------------------------------------------------------------------------
(* threadFunc *)

(* The queue is empty: pthread_cond_wait gives queue_mtx back. *)
WaitForUrl(t) ==
  /\ pc[t] = "acquire" /\ queueMtx = NoThread
  /\ queue = <<>>
  /\ Goto(t, "wait")
  /\ UNCHANGED <<shared, locals, main, requests, finished>>

(* pthread_cond_wait may return without a broadcast. *)
SpuriousWakeup(t) ==
  /\ pc[t] = "wait"
  /\ Goto(t, "acquire")
  /\ UNCHANGED <<shared, locals, main, requests, finished>>

ExitThread(t) ==
  /\ pc[t] = "acquire" /\ queueMtx = NoThread
  /\ queue # <<>> /\ threadStop
  /\ Goto(t, "exited")
  /\ UNCHANGED <<shared, locals, main, requests, finished>>

(* Fault: the flag is not looked at. *)
IgnoreStop(t) ==
  /\ pc[t] = "acquire" /\ queueMtx = NoThread
  /\ queue # <<>>
  /\ queueMtx' = t
  /\ Goto(t, "take")
  /\ UNCHANGED <<queue, table, threadStop, threadsInProgress,
                 locals, main, requests, finished>>

(* Fault: what is in the queue is served before the flag is obeyed. *)
ServeTheQueueFirst(t) ==
  /\ pc[t] = "acquire" /\ queueMtx = NoThread
  /\ queue # <<>> /\ Head(queue) # Dummy
  /\ queueMtx' = t
  /\ Goto(t, "take")
  /\ UNCHANGED <<queue, table, threadStop, threadsInProgress,
                 locals, main, requests, finished>>

(* The flag was read as 0 with queue_mtx held; it may be set before Take. *)
PassStopCheck(t) ==
  /\ pc[t] = "acquire" /\ queueMtx = NoThread
  /\ queue # <<>> /\ ~threadStop
  /\ queueMtx' = t
  /\ Goto(t, "take")
  /\ UNCHANGED <<queue, table, threadStop, threadsInProgress,
                 locals, main, requests, finished>>

TakeUrl(t) ==
  /\ pc[t] = "take"
  /\ queue' = Tail(queue)
  /\ url' = [url EXCEPT ![t] = Head(queue)]
  /\ requests' = [u \in Urls |-> IF u = Head(queue) THEN requests[u] + 1
                                                    ELSE requests[u]]
  /\ threadsInProgress' = threadsInProgress + 1
  /\ queueMtx' = NoThread
  /\ Goto(t, "request")
  /\ UNCHANGED <<table, threadStop, links, newLinks, saveDir, main, finished>>

EndRequest(t) ==
  /\ pc[t] = "done"
  /\ threadsInProgress' = threadsInProgress - 1
  /\ url' = [url EXCEPT ![t] = NoUrl]
  /\ Goto(t, "acquire")
  /\ UNCHANGED <<queue, table, queueMtx, threadStop,
                 links, newLinks, saveDir, main, requests, finished>>

-----------------------------------------------------------------------------
(* sendRequest *)

(* Fault: an early return out of the loop of threadFunc. *)
AbandonUncounted(t) ==
  /\ pc[t] = "request"
  /\ Outcomes[url[t]] \cap {"noconn", "unclosed"} # {}
  /\ url' = [url EXCEPT ![t] = NoUrl]
  /\ Goto(t, "acquire")
  /\ UNCHANGED <<shared, links, newLinks, saveDir, main, requests, finished>>

(* Early returns that look neither at the queue nor at the counter: no     *)
(* headers, no connection, or parseContent giving up on an open link.      *)
Abandon(t) ==
  /\ pc[t] = "request"
  /\ Outcomes[url[t]] \cap {"noconn", "unclosed"} # {}
  /\ Goto(t, "done")
  /\ UNCHANGED <<shared, locals, main, requests, finished>>

(* Fault: the error path lowers the counter, which threadFunc lowers too. *)
NoContentCounted(t) ==
  /\ pc[t] = "request"
  /\ "nocontent" \in Outcomes[url[t]]
  /\ threadsInProgress' = threadsInProgress - 1
  /\ Goto(t, IF threadsInProgress = 1 THEN "stop" ELSE "done")
  /\ UNCHANGED <<queue, table, queueMtx, threadStop, locals, main, requests, finished>>

NoContent(t) ==
  /\ pc[t] = "request"
  /\ "nocontent" \in Outcomes[url[t]]
  /\ Goto(t, IF threadsInProgress = 1 THEN "stop" ELSE "done")
  /\ UNCHANGED <<shared, locals, main, requests, finished>>

(* The failed request was the last one: the flag first ... *)
StopCrawl(t) ==
  /\ pc[t] = "stop"
  /\ threadStop' = TRUE
  /\ finished' = TRUE
  /\ Goto(t, "wake")
  /\ UNCHANGED <<queue, table, queueMtx, threadsInProgress,
                 locals, main, requests>>

(* ... and then, under queue_mtx, the element that unblocks the others. *)
WakePool(t) ==
  /\ pc[t] = "wake" /\ queueMtx = NoThread
  /\ queue' = Append(queue, Dummy)
  /\ pc' = [Woken EXCEPT ![t] = "done"]
  /\ UNCHANGED <<table, queueMtx, threadStop, threadsInProgress,
                 locals, main, requests, finished>>

ReceivePage(t) ==
  /\ pc[t] = "request"
  /\ "page" \in Outcomes[url[t]]
  /\ links' = [links EXCEPT ![t] = Links[url[t]]]
  /\ newLinks' = [newLinks EXCEPT ![t] = Len(Links[url[t]])]
  /\ Goto(t, "parse")
  /\ UNCHANGED <<shared, url, saveDir, main, requests, finished>>

-----------------------------------------------------------------------------
(* parseContent *)

(* Fault: the loop starts without queue_mtx. *)
DoNotLockQueue(t) ==
  /\ pc[t] = "parse"
  /\ Goto(t, "link")
  /\ UNCHANGED <<shared, locals, main, requests, finished>>

LockQueue(t) ==
  /\ pc[t] = "parse" /\ queueMtx = NoThread
  /\ queueMtx' = t
  /\ Goto(t, "link")
  /\ UNCHANGED <<queue, table, threadStop, threadsInProgress,
                 locals, main, requests, finished>>

(* Fault: only the queue is searched for the link. *)
AddLinkUnlessQueued(t) ==
  /\ pc[t] = "link" /\ links[t] # <<>>
  /\ LET l     == Head(links[t])
         isNew == l \notin Queued
     IN  /\ table' = table \cup {l}
         /\ queue' = IF isNew THEN Append(queue, l) ELSE queue
         /\ newLinks' = [newLinks EXCEPT ![t] = IF isNew THEN @ ELSE @ - 1]
  /\ links' = [links EXCEPT ![t] = Tail(@)]
  /\ UNCHANGED <<queueMtx, threadStop, threadsInProgress, pc, url, saveDir,
                 main, requests, finished>>

(* One turn of the loop.  A link that is new to the table but already in   *)
(* the queue makes the code release queue_mtx and go on.                   *)
AddLink(t) ==
  /\ pc[t] = "link" /\ links[t] # <<>>
  /\ LET l     == Head(links[t])
         isNew == l \notin table
         twice == isNew /\ l \in Queued
     IN  /\ table' = table \cup {l}
         /\ queue' = IF isNew /\ ~twice THEN Append(queue, l) ELSE queue
         /\ queueMtx' = IF twice THEN NoThread ELSE queueMtx
         /\ newLinks' = [newLinks EXCEPT ![t] = IF isNew /\ ~twice THEN @ ELSE @ - 1]
  /\ links' = [links EXCEPT ![t] = Tail(@)]
  /\ UNCHANGED <<threadStop, threadsInProgress, pc, url, saveDir,
                 main, requests, finished>>

(* Fault: nobody is told. *)
KeepLinksSilent(t) ==
  /\ pc[t] = "link" /\ links[t] = <<>> /\ newLinks[t] > 0
  /\ queueMtx' = NoThread
  /\ Goto(t, "done")
  /\ UNCHANGED <<queue, table, threadStop, threadsInProgress,
                 locals, main, requests, finished>>

(* The loop is over and it queued something: wake the others. *)
AnnounceLinks(t) ==
  /\ pc[t] = "link" /\ links[t] = <<>> /\ newLinks[t] > 0
  /\ queueMtx' = NoThread
  /\ pc' = [Woken EXCEPT ![t] = "done"]
  /\ UNCHANGED <<queue, table, threadStop, threadsInProgress,
                 locals, main, requests, finished>>

(* Faults: one of the two conditions is dropped, or the counter is taken   *)
(* for the number of the other threads.                                    *)
QueueIsEmpty == queue = <<>>
NobodyElse   == threadsInProgress = 1
NobodyAtAll  == queue = <<>> /\ threadsInProgress = 0

LastPage == queue = <<>> /\ threadsInProgress = 1

(* It queued nothing: this may have been the last page of the crawl. *)
CheckLastPage(t) ==
  /\ pc[t] = "link" /\ links[t] = <<>> /\ newLinks[t] = 0
  /\ IF LastPage
     THEN Goto(t, "finish") /\ UNCHANGED queueMtx
     ELSE Goto(t, "done") /\ queueMtx' = NoThread
  /\ UNCHANGED <<queue, table, threadStop, threadsInProgress,
                 locals, main, requests, finished>>

(* Fault: the flag without the element that unblocks the pool. *)
FinishWithoutDummy(t) ==
  /\ pc[t] = "finish"
  /\ threadStop' = TRUE
  /\ finished' = TRUE
  /\ queueMtx' = NoThread
  /\ pc' = [Woken EXCEPT ![t] = "done"]
  /\ UNCHANGED <<queue, table, threadsInProgress, locals, main, requests>>

FinishCrawl(t) ==
  /\ pc[t] = "finish"
  /\ threadStop' = TRUE
  /\ finished' = TRUE
  /\ queue' = Append(queue, Dummy)
  /\ queueMtx' = NoThread
  /\ pc' = [Woken EXCEPT ![t] = "done"]
  /\ UNCHANGED <<table, threadsInProgress, locals, main, requests>>

-----------------------------------------------------------------------------
(* main *)

(* The command socket is set up after the pool was created. *)
SetUp ==
  /\ mainPc = "setup"
  /\ mainPc' = "poll"
  /\ UNCHANGED <<shared, pc, locals, reaping, startedJE, cmdError,
                 requests, finished>>

SetUpFails ==
  /\ mainPc = "setup"
  /\ mainPc' = "stopping"
  /\ UNCHANGED <<shared, pc, locals, reaping, startedJE, cmdError,
                 requests, finished>>

(* The top of the loop: checkThreads is 1 until the Job Executor runs. *)
Poll ==
  /\ mainPc = "poll"
  /\ ~threadStop \/ startedJE
  /\ IF startedJE THEN mainPc' = "select" /\ UNCHANGED reaping
                  ELSE mainPc' = "reap" /\ reaping' = Threads
  /\ UNCHANGED <<shared, pc, locals, startedJE, cmdError, requests, finished>>

(* Pipes, fork and the start-up messages ... *)
StartJE ==
  /\ mainPc = "poll" /\ threadStop /\ ~startedJE
  /\ startedJE' = TRUE
  /\ mainPc' = "select"
  /\ UNCHANGED <<shared, pc, locals, reaping, cmdError, requests, finished>>

(* ... any of which may fail. *)
StartJEFails ==
  /\ mainPc = "poll" /\ threadStop /\ ~startedJE
  /\ mainPc' = "stopping"
  /\ UNCHANGED <<shared, pc, locals, reaping, startedJE, cmdError,
                 requests, finished>>

(* One turn of the pthread_tryjoin_np loop: a thread that has exited is    *)
(* created again, with NULL where the directory was.                       *)
Reap(t) ==
  /\ mainPc = "reap" /\ t \in reaping
  /\ reaping' = reaping \ {t}
  /\ IF pc[t] = "exited"
     THEN Goto(t, "acquire") /\ saveDir' = [saveDir EXCEPT ![t] = FALSE]
     ELSE UNCHANGED <<pc, saveDir>>
  /\ UNCHANGED <<shared, url, links, newLinks, mainPc, startedJE, cmdError,
                 requests, finished>>

EndReap ==
  /\ mainPc = "reap" /\ reaping = {}
  /\ mainPc' = "select"
  /\ UNCHANGED <<shared, pc, locals, reaping, startedJE, cmdError,
                 requests, finished>>

(* select timed out, or the command (STATS, SEARCH, an invalid one) left   *)
(* the pool alone.                                                         *)
KeepRunning ==
  /\ mainPc = "select"
  /\ mainPc' = "poll"
  /\ UNCHANGED <<shared, pc, locals, reaping, startedJE, cmdError,
                 requests, finished>>

(* SHUTDOWN, or select or accept failed. *)
Stop ==
  /\ mainPc = "select"
  /\ mainPc' = "stopping"
  /\ UNCHANGED <<shared, pc, locals, reaping, startedJE, cmdError,
                 requests, finished>>

(* CMD_ERROR: cleanup and close, but no break out of the loop. *)
CommandError ==
  /\ mainPc = "select"
  /\ cmdError' = TRUE
  /\ mainPc' = "stopping"
  /\ UNCHANGED <<shared, pc, locals, reaping, startedJE, requests, finished>>

-----------------------------------------------------------------------------
(* cleanup *)

SetStopFlag ==
  /\ mainPc = "stopping"
  /\ threadStop' = TRUE
  /\ mainPc' = "wake"
  /\ UNCHANGED <<queue, table, queueMtx, threadsInProgress, pc, locals,
                 reaping, startedJE, cmdError, requests, finished>>

(* Fault: the element without the broadcast. *)
UnblockSilently ==
  /\ mainPc = "wake" /\ queueMtx = NoThread
  /\ queue' = Append(queue, Dummy)
  /\ mainPc' = "join"
  /\ UNCHANGED <<table, queueMtx, threadStop, threadsInProgress, pc, locals,
                 reaping, startedJE, cmdError, requests, finished>>

UnblockPool ==
  /\ mainPc = "wake" /\ queueMtx = NoThread
  /\ queue' = Append(queue, Dummy)
  /\ pc' = Woken
  /\ mainPc' = "join"
  /\ UNCHANGED <<table, queueMtx, threadStop, threadsInProgress, locals,
                 reaping, startedJE, cmdError, requests, finished>>

(* The pool is joined and everything it used is destroyed.  After a        *)
(* CMD_ERROR the loop of main goes on with the destroyed mutexes.          *)
JoinPool ==
  /\ mainPc = "join"
  /\ \A t \in Threads : pc[t] = "exited"
  /\ mainPc' = IF cmdError THEN "undefined" ELSE "ended"
  /\ UNCHANGED <<shared, pc, locals, reaping, startedJE, cmdError,
                 requests, finished>>

(* The process is over: nothing happens any more. *)
Terminated ==
  /\ mainPc \in {"ended", "undefined"}
  /\ UNCHANGED vars

-----------------------------------------------------------------------------

ThreadStep(t) ==
  \/ WaitForUrl(t) \/ ExitThread(t) \/ PassStopCheck(t)
  \/ TakeUrl(t) \/ EndRequest(t)
  \/ Abandon(t) \/ NoContent(t) \/ StopCrawl(t) \/ WakePool(t)
  \/ ReceivePage(t) \/ LockQueue(t) \/ AddLink(t) \/ AnnounceLinks(t)
  \/ CheckLastPage(t) \/ FinishCrawl(t)

Serve ==
  \/ SetUp \/ Poll \/ StartJE \/ (\E t \in Threads : Reap(t)) \/ EndReap
  \/ KeepRunning

TakeDown == SetUpFails \/ StartJEFails \/ Stop \/ CommandError

CleanUp == SetStopFlag \/ UnblockPool \/ JoinPool

MainStep == Serve \/ TakeDown \/ CleanUp

Next ==
  \/ \E t \in Threads : ThreadStep(t) \/ SpuriousWakeup(t)
  \/ MainStep
  \/ Terminated

Spec == Init /\ [][Next]_vars

(***************************************************************************)
(* Every thread keeps running: the scheduler is fair to it, the server     *)
(* answers or closes (nothing in the crawler times a request out), and     *)
(* select returns within its five seconds.  SpuriousWakeup is not fair,    *)
(* and nothing obliges the operator to take the crawler down.              *)
(***************************************************************************)
Fairness ==
  /\ \A t \in Threads : WF_vars(ThreadStep(t))
  /\ WF_vars(Serve \/ CleanUp)

FairSpec == Spec /\ Fairness

(* A crawl that nobody takes down. *)
Undisturbed == \/ \E t \in Threads : ThreadStep(t) \/ SpuriousWakeup(t)
               \/ Serve

UndisturbedSpec == Init /\ [][Undisturbed]_vars /\ Fairness

-----------------------------------------------------------------------------
(* Properties *)

ThreadPc == {"acquire", "wait", "take", "request", "stop", "wake", "parse",
             "link", "finish", "done", "exited"}
MainPc == {"setup", "poll", "reap", "select", "stopping", "wake", "join",
           "ended", "undefined"}

(* Threads between the two updates of threadsInProgress. *)
BusyPc == {"request", "stop", "wake", "parse", "link", "finish", "done"}
Busy   == {t \in Threads : pc[t] \in BusyPc}

(* The type invariant: every variable keeps the shape its declaration      *)
(* gives it, and the counter never goes below zero.                        *)
TypeOK ==
  /\ queue \in Seq(Urls \cup {Dummy})
  /\ table \in SUBSET Urls
  /\ queueMtx \in Threads \cup {NoThread}
  /\ threadStop \in BOOLEAN
  /\ threadsInProgress \in Nat
  /\ pc \in [Threads -> ThreadPc]
  /\ url \in [Threads -> Urls \cup {Dummy, NoUrl}]
  /\ links \in [Threads -> Seq(Urls)]
  /\ newLinks \in [Threads -> Int]
  /\ saveDir \in [Threads -> BOOLEAN]
  /\ mainPc \in MainPc
  /\ reaping \in SUBSET Threads
  /\ startedJE \in BOOLEAN
  /\ cmdError \in BOOLEAN
  /\ requests \in [Urls -> Nat]
  /\ finished \in BOOLEAN

(* A thread is between the lock and the unlock of queue_mtx exactly while  *)
(* it owns it.  The loop of parseContent can release it half way (when     *)
(* queueExists finds a link the table did not know) and then carry on with *)
(* the queue; this says that it never does.                                *)
CriticalSection ==
  \A t \in Threads : pc[t] \in {"take", "link", "finish"} <=> queueMtx = t

(* No URL is downloaded twice, however many pages link to it and whichever *)
(* threads read those pages at the same time.                              *)
FetchedOnce == \A u \in Urls : requests[u] <= 1

(* The element that unblocks the pool is never taken for a URL: it is      *)
(* queued by three different paths, one of them outside the critical       *)
(* section that set the flag, and sendRequest would crash on it.           *)
DummyNotRequested == \A t \in Threads : url[t] # Dummy

(* A thread that main created again gets NULL for its directory, and       *)
(* saveFile would pass that NULL to strlen.  Main decides to create it     *)
(* before, and the thread looks at the flag after, another thread may have *)
(* ended the crawl; the new thread never gets as far as a request.         *)
NullDirUnused ==
  \A t \in Threads : ~saveDir[t] => pc[t] \in {"acquire", "wait", "exited"}

(* With the queue free and something in it nobody is left waiting for it:  *)
(* every insertion is followed by a broadcast before the mutex is free,    *)
(* although parseContent broadcasts only when its own count of new links,  *)
(* which it lowers for each link it knew, is still positive.               *)
NoLostWakeup ==
  queueMtx = NoThread /\ queue # <<>> => \A t \in Threads : pc[t] # "wait"

(* threadsInProgress is the number of threads with a URL in hand.  It is   *)
(* raised under queue_mtx and lowered outside it, on every path out of     *)
(* sendRequest; the end of the crawl is decided on it.                     *)
InProgressExact == threadsInProgress = Cardinality(Busy)

(* The Job Executor, which reads the downloaded files once, at its start,  *)
(* is not started while a thread still has a page to receive or to parse.  *)
JobExecutorSeesAll ==
  startedJE => \A t \in Threads : pc[t] \in {"acquire", "wait", "done", "exited"}

(* The crawl as it is promised: the table is what was found, the requests  *)
(* are what was downloaded.  Holds when the server answers every request   *)
(* with a page, with or without a SHUTDOWN.                                *)
CrawlSpec ==
  INSTANCE Crawl WITH known <- table, fetched <- {u \in Urls : requests[u] > 0}

CrawlPromise == CrawlSpec!Spec

(* When the end of the crawl is announced every page that links lead to    *)
(* from the starting URL has been requested.                               *)
FinishedComplete == CrawlSpec!Complete

(* The crawl comes to an end by itself. *)
CrawlFinishes == <>finished

(* A crawl that has ended dissolves the pool: for good, although main may  *)
(* still be creating again the threads that have left.                     *)
PoolDissolves == finished ~> [](\A t \in Threads : pc[t] = "exited")

(* SHUTDOWN, or an error in main, ends the program: every thread leaves,   *)
(* after the request it is serving, whether it was waiting, working, or    *)
(* about to take a URL when the flag was set.                              *)
ShutdownCompletes == mainPc = "stopping" ~> mainPc \in {"ended", "undefined"}

=============================================================================
