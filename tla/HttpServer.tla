------------------------------ MODULE HttpServer ------------------------------
(***************************************************************************)
(* The web server of myhttpd.c: main accepts connections, reads a request  *)
(* from each and puts it in the bounded queue of req_queue.c; the threads  *)
(* of the pool take the requests from it and answer them.  main is the     *)
(* only producer and takes the pool down, through the same queue, on       *)
(* SHUTDOWN and on every error it meets.                                   *)
(*                                                                         *)
(* A step is the code between two accesses to state that another thread    *)
(* may change in between; queue_mtx and the two condition variables are    *)
(* explicit, threadStop and the statistics are accessed in single steps.   *)
(* What main does with the mutex held is one step: no other thread can see *)
(* it half done.                                                           *)
(***************************************************************************)
EXTENDS Naturals, Sequences, FiniteSets

CONSTANTS
  Threads,   \* the slots of the array "threads" (-t)
  Conns,     \* the connections to the web port
  MaxSize,   \* MAX_SIZE of the request queue
  Dummy,     \* the "DUMMY" request that unblocks the pool
  NoConn,    \* a thread, or main, with no connection in hand
  NoThread   \* queue_mtx is free

ASSUME ServerAssumption ==
  /\ IsFiniteSet(Threads) /\ IsFiniteSet(Conns)
  /\ NoThread \notin Threads
  /\ MaxSize \in Nat \ {0}
  /\ Dummy \notin Conns /\ NoConn \notin Conns \cup {Dummy}

VARIABLES
  queue,        \* reqQueue, front first
  queueMtx,     \* the owner of queue_mtx
  threadStop,   \* the flag of the same name
  pagesServed,  \* the counter of the same name
  pc,           \* where each thread is
  sock,         \* the local "client_sock" of threadFunc
  mainPc,       \* where the main thread is
  client,       \* the local "client_sock" of main
  open,         \* the connections accepted and not closed
  reply,        \* history: what was written to each connection
  accepted,     \* history: the connections, in the order they were queued
  taken         \* history: the connections, in the order they were taken

pool == <<queue, queueMtx, threadStop>>
hist == <<reply, accepted, taken>>
vars == <<pool, pagesServed, pc, sock, mainPc, client, open, hist>>

Init ==
  /\ queue = <<>>
  /\ queueMtx = NoThread
  /\ threadStop = FALSE
  /\ pagesServed = 0
  /\ pc = [t \in Threads |-> "acquire"]
  /\ sock = [t \in Threads |-> NoConn]
  /\ mainPc = "setup"
  /\ client = NoConn
  /\ open = {}
  /\ reply = [c \in Conns |-> "none"]
  /\ accepted = <<>>
  /\ taken = <<>>

(* Fault: isFull off by one. *)
FullPastTheEnd == Len(queue) > MaxSize

IsFull == Len(queue) = MaxSize

Waiting == {t \in Threads : pc[t] = "wait"}

Goto(t, l) == pc' = [pc EXCEPT ![t] = l]

(* pthread_cond_signal(&cond_nonfull): only main can be waiting. *)
SignalNonFull ==
  mainPc' = CASE mainPc = "sleep to queue" -> "queue"
              [] mainPc = "sleep to stop"  -> "unblock"
              [] OTHER                     -> mainPc

(* pthread_cond_signal(&cond_nonempty): one of those that wait. *)
SignalNonEmpty ==
  IF Waiting = {} THEN UNCHANGED pc
                  ELSE \E t \in Waiting : Goto(t, "acquire")

-----------------------------------------------------------------------------
(* threadFunc *)

WaitForRequest(t) ==
  /\ pc[t] = "acquire" /\ queueMtx = NoThread
  /\ queue = <<>>
  /\ Goto(t, "wait")
  /\ UNCHANGED <<pool, pagesServed, sock, mainPc, client, open, hist>>

(* pthread_cond_wait may return without a signal. *)
SpuriousWakeup(t) ==
  /\ pc[t] = "wait"
  /\ Goto(t, "acquire")
  /\ UNCHANGED <<pool, pagesServed, sock, mainPc, client, open, hist>>

ExitThread(t) ==
  /\ pc[t] = "acquire" /\ queueMtx = NoThread
  /\ queue # <<>> /\ threadStop
  /\ Goto(t, "exited")
  /\ UNCHANGED <<pool, pagesServed, sock, mainPc, client, open, hist>>

(* Fault: the flag is not looked at. *)
IgnoreStop(t) ==
  /\ pc[t] = "acquire" /\ queueMtx = NoThread
  /\ queue # <<>>
  /\ queueMtx' = t
  /\ Goto(t, "take")
  /\ UNCHANGED <<queue, threadStop, pagesServed, sock, mainPc, client, open, hist>>

(* The flag was read as 0 with queue_mtx held; it may be set before the    *)
(* request is removed.                                                     *)
PassStopCheck(t) ==
  /\ pc[t] = "acquire" /\ queueMtx = NoThread
  /\ queue # <<>> /\ ~threadStop
  /\ queueMtx' = t
  /\ Goto(t, "take")
  /\ UNCHANGED <<queue, threadStop, pagesServed, sock, mainPc, client, open, hist>>

(* Fault: the request queued last is taken. *)
TakeNewest(t) ==
  /\ pc[t] = "take"
  /\ queue' = SubSeq(queue, 1, Len(queue) - 1)
  /\ sock' = [sock EXCEPT ![t] = queue[Len(queue)]]
  /\ taken' = Append(taken, queue[Len(queue)])
  /\ SignalNonFull
  /\ queueMtx' = NoThread
  /\ Goto(t, "serve")
  /\ UNCHANGED <<threadStop, pagesServed, client, open, reply, accepted>>

(* Fault: cond_nonfull is not signalled. *)
TakeSilently(t) ==
  /\ pc[t] = "take"
  /\ queue' = Tail(queue)
  /\ sock' = [sock EXCEPT ![t] = Head(queue)]
  /\ taken' = Append(taken, Head(queue))
  /\ queueMtx' = NoThread
  /\ Goto(t, "serve")
  /\ UNCHANGED <<threadStop, pagesServed, mainPc, client, open, reply, accepted>>

TakeRequest(t) ==
  /\ pc[t] = "take"
  /\ queue' = Tail(queue)
  /\ sock' = [sock EXCEPT ![t] = Head(queue)]
  /\ taken' = Append(taken, Head(queue))
  /\ SignalNonFull
  /\ queueMtx' = NoThread
  /\ Goto(t, "serve")
  /\ UNCHANGED <<threadStop, pagesServed, client, open, reply, accepted>>

(* Fault: error pages count as pages served. *)
CountEveryReply(t) ==
  /\ pc[t] = "serve"
  /\ \E r \in {"200", "404", "403", "nothing"} :
       /\ reply' = [reply EXCEPT ![sock[t]] = r]
       /\ Goto(t, IF r # "nothing" THEN "count" ELSE "close")
  /\ UNCHANGED <<pool, pagesServed, sock, mainPc, client, open, accepted, taken>>

(* serveClient: the page, an error page, or nothing at all when a call     *)
(* fails half way (stat, fopen, malloc).                                   *)
Serve(t) ==
  /\ pc[t] = "serve"
  /\ \E r \in {"200", "404", "403", "nothing"} :
       /\ reply' = [reply EXCEPT ![sock[t]] = r]
       /\ Goto(t, IF r = "200" THEN "count" ELSE "close")
  /\ UNCHANGED <<pool, pagesServed, sock, mainPc, client, open, accepted, taken>>

CountPage(t) ==
  /\ pc[t] = "count"
  /\ pagesServed' = pagesServed + 1
  /\ Goto(t, "close")
  /\ UNCHANGED <<pool, sock, mainPc, client, open, hist>>

CloseClient(t) ==
  /\ pc[t] = "close"
  /\ open' = open \ {sock[t]}
  /\ sock' = [sock EXCEPT ![t] = NoConn]
  /\ Goto(t, "acquire")
  /\ UNCHANGED <<pool, pagesServed, mainPc, client, hist>>

-----------------------------------------------------------------------------
(* main *)

(* The two sockets are set up after the pool was created. *)
SetUp ==
  /\ mainPc = "setup"
  /\ mainPc' = "reap"
  /\ UNCHANGED <<pool, pagesServed, pc, sock, client, open, hist>>

SetUpFails ==
  /\ mainPc = "setup"
  /\ mainPc' = "stopping"
  /\ UNCHANGED <<pool, pagesServed, pc, sock, client, open, hist>>

(* The pthread_tryjoin_np loop: threads that have exited are created again. *)
Reap ==
  /\ mainPc = "reap"
  /\ pc' = [t \in Threads |-> IF pc[t] = "exited" THEN "acquire" ELSE pc[t]]
  /\ mainPc' = "select"
  /\ UNCHANGED <<pool, pagesServed, sock, client, open, hist>>

(* select timed out, or the command (STATS, an invalid one) left the pool  *)
(* alone, and nobody is at the web port.                                   *)
KeepRunning ==
  /\ mainPc = "select"
  /\ mainPc' = "reap"
  /\ UNCHANGED <<pool, pagesServed, pc, sock, client, open, hist>>

(* SHUTDOWN, or select or accept failed. *)
Stop ==
  /\ mainPc = "select"
  /\ mainPc' = "stopping"
  /\ UNCHANGED <<pool, pagesServed, pc, sock, client, open, hist>>

(* A connection to the web port: new ones only. *)
Accept(c) ==
  /\ mainPc = "select"
  /\ c \notin open /\ reply[c] = "none"
  /\ open' = open \cup {c}
  /\ client' = c
  /\ mainPc' = "read"
  /\ UNCHANGED <<pool, pagesServed, pc, sock, hist>>

(* Fault: a request that was answered with a 400 is queued all the same. *)
FallThrough ==
  /\ mainPc = "read"
  /\ reply' = [reply EXCEPT ![client] = "400"]
  /\ open' = open \ {client}
  /\ mainPc' = "queue"
  /\ UNCHANGED <<pool, pagesServed, pc, sock, client, accepted, taken>>

(* handleRequest: a request parseRequest does not understand gets a 400 ... *)
BadRequest ==
  /\ mainPc = "read"
  /\ reply' = [reply EXCEPT ![client] = "400"]
  /\ open' = open \ {client}
  /\ client' = NoConn
  /\ mainPc' = "reap"
  /\ UNCHANGED <<pool, pagesServed, pc, sock, accepted, taken>>

(* ... a client whose connection breaks takes the server down ... *)
ReadFails ==
  /\ mainPc = "read"
  /\ reply' = [reply EXCEPT ![client] = "nothing"]
  /\ open' = open \ {client}
  /\ client' = NoConn
  /\ mainPc' = "stopping"
  /\ UNCHANGED <<pool, pagesServed, pc, sock, accepted, taken>>

(* ... and any other request is to be queued. *)
GoodRequest ==
  /\ mainPc = "read"
  /\ mainPc' = "queue"
  /\ UNCHANGED <<pool, pagesServed, pc, sock, client, open, hist>>

WaitToQueue ==
  /\ mainPc = "queue" /\ queueMtx = NoThread
  /\ IsFull
  /\ mainPc' = "sleep to queue"
  /\ UNCHANGED <<pool, pagesServed, pc, sock, client, open, hist>>

(* Fault: the pool is not told of the request. *)
QueueSilently ==
  /\ mainPc = "queue" /\ queueMtx = NoThread
  /\ ~IsFull
  /\ queue' = Append(queue, client)
  /\ accepted' = Append(accepted, client)
  /\ client' = NoConn
  /\ mainPc' = "reap"
  /\ UNCHANGED <<queueMtx, threadStop, pagesServed, pc, sock, open, reply, taken>>

QueueRequest ==
  /\ mainPc = "queue" /\ queueMtx = NoThread
  /\ ~IsFull
  /\ queue' = Append(queue, client)
  /\ accepted' = Append(accepted, client)
  /\ SignalNonEmpty
  /\ client' = NoConn
  /\ mainPc' = "reap"
  /\ UNCHANGED <<queueMtx, threadStop, pagesServed, sock, open, reply, taken>>

-----------------------------------------------------------------------------
(* cleanup *)

SetStopFlag ==
  /\ mainPc = "stopping"
  /\ threadStop' = TRUE
  /\ mainPc' = "unblock"
  /\ UNCHANGED <<queue, queueMtx, pagesServed, pc, sock, client, open, hist>>

WaitToUnblock ==
  /\ mainPc = "unblock" /\ queueMtx = NoThread
  /\ IsFull
  /\ mainPc' = "sleep to stop"
  /\ UNCHANGED <<pool, pagesServed, pc, sock, client, open, hist>>

(* Fault: a signal where the broadcast is needed. *)
UnblockOne ==
  /\ mainPc = "unblock" /\ queueMtx = NoThread
  /\ ~IsFull
  /\ queue' = Append(queue, Dummy)
  /\ SignalNonEmpty
  /\ mainPc' = "join"
  /\ UNCHANGED <<queueMtx, threadStop, pagesServed, sock, client, open, hist>>

UnblockPool ==
  /\ mainPc = "unblock" /\ queueMtx = NoThread
  /\ ~IsFull
  /\ queue' = Append(queue, Dummy)
  /\ pc' = [t \in Threads |-> IF pc[t] = "wait" THEN "acquire" ELSE pc[t]]
  /\ mainPc' = "join"
  /\ UNCHANGED <<queueMtx, threadStop, pagesServed, sock, client, open, hist>>

(* Fault: the threads are not waited for. *)
EndAtOnce ==
  /\ mainPc = "join"
  /\ mainPc' = "ended"
  /\ UNCHANGED <<pool, pagesServed, pc, sock, client, open, hist>>

JoinPool ==
  /\ mainPc = "join"
  /\ \A t \in Threads : pc[t] = "exited"
  /\ mainPc' = "ended"
  /\ UNCHANGED <<pool, pagesServed, pc, sock, client, open, hist>>

(* main too may wake up without a signal. *)
SpuriousWakeupOfMain ==
  /\ mainPc \in {"sleep to queue", "sleep to stop"}
  /\ SignalNonFull
  /\ UNCHANGED <<pool, pagesServed, pc, sock, client, open, hist>>

Terminated ==
  /\ mainPc = "ended"
  /\ UNCHANGED vars

-----------------------------------------------------------------------------

ThreadStep(t) ==
  \/ WaitForRequest(t) \/ ExitThread(t) \/ PassStopCheck(t) \/ TakeRequest(t)
  \/ Serve(t) \/ CountPage(t) \/ CloseClient(t)

HandleRequest == BadRequest \/ ReadFails \/ GoodRequest \/ WaitToQueue \/ QueueRequest

CleanUp == SetStopFlag \/ WaitToUnblock \/ UnblockPool \/ JoinPool

MainStep ==
  \/ SetUp \/ SetUpFails \/ Reap \/ KeepRunning \/ Stop
  \/ (\E c \in Conns : Accept(c))
  \/ HandleRequest \/ CleanUp

Next ==
  \/ \E t \in Threads : ThreadStep(t) \/ SpuriousWakeup(t)
  \/ MainStep \/ SpuriousWakeupOfMain
  \/ Terminated

Spec == Init /\ [][Next]_vars

(***************************************************************************)
(* The scheduler is fair to every thread and to main; a client that main   *)
(* or a thread reads from or writes to answers or goes away (no call has a *)
(* time limit of its own).  Spurious wakeups are not fair: nothing may     *)
(* rely on them.                                                           *)
(***************************************************************************)
FairSpec == Spec /\ (\A t \in Threads : WF_vars(ThreadStep(t))) /\ WF_vars(MainStep)
-----------------------------------------------------------------------------
(* Properties *)

Queued == {queue[i] : i \in DOMAIN queue}

TypeOK ==
  /\ queue \in Seq(Conns \cup {Dummy}) /\ Len(queue) <= MaxSize
  /\ queueMtx \in Threads \cup {NoThread}
  /\ threadStop \in BOOLEAN
  /\ pagesServed \in Nat
  /\ pc \in [Threads -> {"acquire", "wait", "take", "serve", "count", "close", "exited"}]
  /\ sock \in [Threads -> Conns \cup {Dummy, NoConn}]
  /\ mainPc \in {"setup", "reap", "select", "read", "queue", "sleep to queue", "stopping",
                 "unblock", "sleep to stop", "join", "ended"}
  /\ client \in Conns \cup {NoConn}
  /\ open \in SUBSET Conns
  /\ reply \in [Conns -> {"none", "200", "400", "403", "404", "nothing"}]
  /\ accepted \in Seq(Conns) /\ taken \in Seq(Conns \cup {Dummy})

(* A connection that is open is in one pair of hands: main's, the queue's  *)
(* or one thread's; one that is closed is in nobody's.  So none is closed  *)
(* twice, which could hit a later connection with the same descriptor, and *)
(* none is written to after it was closed.                                 *)
OneHolder ==
  /\ open = (Queued \cup {client} \cup {sock[t] : t \in Threads}) \ {Dummy, NoConn}
  /\ \A i, j \in DOMAIN queue : queue[i] = queue[j] => i = j
  /\ \A t \in Threads : sock[t] # NoConn => /\ sock[t] \notin Queued \cup {client}
                                           /\ \A u \in Threads : sock[u] = sock[t] => u = t
  /\ client \notin Queued

(* The request that unblocks the pool is never taken for one: its socket   *)
(* is descriptor 0.                                                        *)
DummyNotServed == \A t \in Threads : sock[t] # Dummy

(* Requests are taken in the order in which main queued them, whichever    *)
(* thread was signalled and whichever came first, and none is skipped;     *)
(* behind them nothing but the element of cleanup is ever queued.          *)
FirstComeFirstServed == taken \o queue \in {accepted, Append(accepted, Dummy)}

(* One signal per request, not a broadcast, is enough: while a thread      *)
(* waits, at least as many threads are on their way to the queue as there  *)
(* are requests in it, although the thread that was signalled can find its *)
(* request taken by one that was not.  Threads that exit keep no request   *)
(* from being taken but on shutdown; once the element of cleanup is there  *)
(* nobody waits.  And main waits only for a queue that is full.            *)
NoLostWakeup ==
  /\ Waiting # {} /\ ~threadStop =>
       Len(queue) <= Cardinality({t \in Threads : pc[t] \in {"acquire", "take"}})
  /\ Waiting # {} => Dummy \notin Queued
  /\ mainPc \in {"sleep to queue", "sleep to stop"} => IsFull

(* pagesServed is raised once per page sent, error pages excepted.         *)
StatsExact ==
  Cardinality({c \in Conns : reply[c] = "200"})
    = pagesServed + Cardinality({t \in Threads : pc[t] = "count"})

(* "Wait for threads to finish ongoing requests and terminate": when the   *)
(* program ends the requests that a thread took have been answered and     *)
(* closed; the only ones left open are those still in the queue.           *)
EndedServed ==
  mainPc = "ended" => /\ \A i \in DOMAIN taken : reply[taken[i]] # "none"
                      /\ open = Queued \ {Dummy}

(* The service as it is promised.  The line is the queue without the       *)
(* element of cleanup, which is the last one; a connection is in the hands *)
(* that OneHolder speaks of, or answered and closed.  The last call is the *)
(* request of a thread that passed the check of the flag before it was     *)
(* set: there is at most one, since it holds queue_mtx.                    *)
Phase ==
  IF mainPc = "ended" THEN "closed"
  ELSE IF ~threadStop THEN "open"
  ELSE IF \E t \in Threads : pc[t] = "take" THEN "last call"
  ELSE "closing"

InHand(l) == {sock[t] : t \in {u \in Threads : pc[u] = l}}

Line == IF mainPc \in {"join", "ended"} THEN SubSeq(queue, 1, Len(queue) - 1) ELSE queue

Gone == {c \in Conns : reply[c] # "none"} \ open

ServiceSpec ==
  INSTANCE Service WITH
    phase <- Phase, arriving <- {client} \ {NoConn}, line <- Line,
    serving <- InHand("serve"), uncounted <- InHand("count"), leaving <- InHand("close"),
    gone <- Gone, pages <- pagesServed

ServicePromise == ServiceSpec!Spec

(* Whoever connects is answered, or at least closed, unless the server is  *)
(* taken down first: no request waits for ever behind a full queue or a    *)
(* thread that nobody wakes.                                               *)
EveryClientServed == \A c \in Conns : c \in open ~> c \notin open \/ threadStop

(* Taking the server down ends it. *)
ShutdownCompletes == mainPc = "stopping" ~> mainPc = "ended"

(* The same, when there is room for the element of cleanup in the queue at *)
(* the time it begins.                                                     *)
ShutdownWithRoom == mainPc = "stopping" /\ ~IsFull ~> mainPc = "ended"

=============================================================================
