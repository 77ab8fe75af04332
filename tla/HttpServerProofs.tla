--------------------------- MODULE HttpServerProofs ---------------------------
(***************************************************************************)
(* Proofs about the web server: for every number of threads and of         *)
(* connections and every size of the queue.                                *)
(***************************************************************************)
EXTENDS HttpServer, SequenceLemmas, FiniteSetTheorems, TLAPS

-----------------------------------------------------------------------------
(* The inductive invariant, in parts. *)

(* queue_mtx is held across two steps by a thread that takes a request,    *)
(* and then there is one to take.                                          *)
LockInv ==
  \A t \in Threads : /\ pc[t] = "take" <=> queueMtx = t
                     /\ pc[t] = "take" => queue # <<>> /\ Dummy \notin Queued

(* threadStop is set in cleanup only, DUMMY queued after it. *)
StopInv ==
  /\ threadStop = IF mainPc \in {"unblock", "sleep to stop", "join", "ended"} THEN TRUE
                                                                            ELSE FALSE
  /\ Dummy \in Queued => mainPc \in {"join", "ended"}

(* Who has a connection in hand. *)
HandsInv ==
  /\ \A t \in Threads : /\ sock[t] \in Conns \cup {NoConn}
                        /\ pc[t] \in {"serve", "count", "close"} <=> sock[t] # NoConn
  /\ mainPc \in {"read", "queue", "sleep to queue"} <=> client # NoConn

(* A connection is answered once, while a thread, or main, holds it. *)
ReplyInv ==
  /\ \A c \in Conns : c \in Queued \cup {client} => reply[c] = "none"
  /\ \A t \in Threads : /\ pc[t] = "serve" => reply[sock[t]] = "none"
                        /\ pc[t] = "count" => reply[sock[t]] = "200"
                        /\ pc[t] = "close" => reply[sock[t]] # "none"

(* FirstComeFirstServed, with the moment from which DUMMY is there. *)
OrderInv ==
  taken \o queue = IF mainPc \in {"join", "ended"} THEN Append(accepted, Dummy)
                                                   ELSE accepted

(* What was taken is answered or being answered. *)
TakenInv ==
  /\ taken \in Seq(Conns)
  /\ \A i \in DOMAIN taken :
       reply[taken[i]] # "none" \/ \E t \in Threads : sock[t] = taken[i]

(* The program ends after its threads. *)
EndInv == mainPc = "ended" => \A t \in Threads : pc[t] = "exited"

Inv == TypeOK /\ LockInv /\ StopInv /\ HandsInv /\ OneHolder /\ ReplyInv
       /\ OrderInv /\ TakenInv /\ EndInv /\ NoLostWakeup /\ StatsExact

(* What the last two parts count: the threads on their way to the queue,   *)
(* the pages sent, the threads that have sent one and not yet counted it.  *)
Coming == {t \in Threads : pc[t] \in {"acquire", "take"}}
Sent == {c \in Conns : reply[c] = "200"}
Counting == {t \in Threads : pc[t] = "count"}

-----------------------------------------------------------------------------
(* The queue, in terms of the set Queued. *)

LEMMA QueuedAppend ==
  ASSUME TypeOK, NEW e \in Conns \cup {Dummy}, queue' = Append(queue, e)
  PROVE  /\ Queued' = Queued \cup {e}
         /\ queue' # <<>> /\ Len(queue') = Len(queue) + 1
         /\ queue' \in Seq(Conns \cup {Dummy})
<1>1. queue \in Seq(Conns \cup {Dummy})
  BY DEF TypeOK
<1> QED
  BY <1>1, AppendFacts DEF Queued

LEMMA QueuedTail ==
  ASSUME TypeOK, OneHolder, queue # <<>>, queue' = Tail(queue)
  PROVE  /\ Head(queue) \in Queued
         /\ Queued' = Queued \ {Head(queue)}
         /\ Len(queue') = Len(queue) - 1
         /\ Queued \subseteq Conns \cup {Dummy}
         /\ queue' \in Seq(Conns \cup {Dummy})
         /\ Distinct(queue')
<1>1. queue \in Seq(Conns \cup {Dummy}) /\ Distinct(queue)
  BY DEF TypeOK, OneHolder, Distinct
<1>2. /\ Distinct(Tail(queue)) /\ Head(queue) \in Elements(queue)
      /\ Elements(Tail(queue)) = Elements(queue) \ {Head(queue)}
  BY <1>1, TailDistinct
<1>3. Len(queue') = Len(queue) - 1 /\ queue' \in Seq(Conns \cup {Dummy})
  BY <1>1, TailFacts
<1>4. Queued = Elements(queue) /\ Queued' = Elements(Tail(queue))
  BY DEF Queued, Elements
<1>5. Queued \subseteq Conns \cup {Dummy}
  BY <1>1 DEF Queued
<1> QED
  BY <1>1, <1>2, <1>3, <1>4, <1>5

(* TakeRequest, with what the invariant says of the request. *)
LEMMA TakenRequest ==
  ASSUME Inv, NEW t \in Threads, TakeRequest(t)
  PROVE  /\ queue # <<>> /\ Head(queue) \in Queued /\ Head(queue) \in Conns
         /\ Queued' = Queued \ {Head(queue)} /\ Dummy \notin Queued
         /\ sock' = [sock EXCEPT ![t] = Head(queue)]
         /\ pc' = [pc EXCEPT ![t] = "serve"]
<1>1. queue # <<>> /\ Dummy \notin Queued /\ queue' = Tail(queue)
  BY DEF Inv, LockInv, TakeRequest
<1> QED
  BY <1>1, QueuedTail DEF Inv, TakeRequest, Goto

-----------------------------------------------------------------------------
(* Each part of the invariant is preserved by every step. *)

LEMMA TypeOKStep ==
  ASSUME Inv, [Next]_vars
  PROVE  TypeOK'
<1>a. TypeOK
  BY DEF Inv
<1>b. /\ queue \in Seq(Conns \cup {Dummy}) /\ Len(queue) \in Nat /\ Len(queue) <= MaxSize
      /\ taken \in Seq(Conns \cup {Dummy}) /\ accepted \in Seq(Conns)
  <2>1. /\ queue \in Seq(Conns \cup {Dummy}) /\ Len(queue) <= MaxSize
        /\ taken \in Seq(Conns \cup {Dummy}) /\ accepted \in Seq(Conns)
    BY <1>a DEF TypeOK
  <2>2. Len(queue) \in Nat
    BY <2>1
  <2> QED
    BY <2>1, <2>2
<1>c. MaxSize \in Nat
  BY ServerAssumption
<1> USE DEF pool, hist, Goto
<1>1. ASSUME NEW t \in Threads, ThreadStep(t)
      PROVE  TypeOK'
  <2>1. CASE WaitForRequest(t) \/ ExitThread(t) \/ PassStopCheck(t)
    BY <2>1, <1>a DEF TypeOK, WaitForRequest, ExitThread, PassStopCheck
  <2>2. CASE TakeRequest(t)
    <3>1. /\ queue # <<>> /\ Head(queue) \in Conns
      BY <2>2, TakenRequest
    <3>2. /\ Len(queue') = Len(queue) - 1 /\ queue' \in Seq(Conns \cup {Dummy})
      BY <2>2, <3>1, QueuedTail DEF TakeRequest, Inv
    <3>3. Len(queue') <= MaxSize
      BY <1>b, <1>c, <3>2
    <3>4. taken' \in Seq(Conns \cup {Dummy})
      <4>1. taken' = Append(taken, Head(queue))
        BY <2>2 DEF TakeRequest
      <4> QED
        BY <4>1, <3>1, <1>b
    <3>5. sock' \in [Threads -> Conns \cup {Dummy, NoConn}]
      BY <2>2, <3>1, <1>a DEF TakeRequest, TypeOK
    <3>6. mainPc' \in {mainPc, "queue", "unblock"}
      BY <2>2 DEF TakeRequest, SignalNonFull
    <3>7. /\ pc' = [pc EXCEPT ![t] = "serve"] /\ queueMtx' = NoThread
          /\ UNCHANGED <<threadStop, pagesServed, client, open, reply, accepted>>
      BY <2>2 DEF TakeRequest
    <3> QED
      BY <1>a, <3>2, <3>3, <3>4, <3>5, <3>6, <3>7 DEF TypeOK
  <2>3. CASE Serve(t)
    BY <2>3, <1>a DEF Serve, TypeOK
  <2>4. CASE CountPage(t)
    <3>1. pagesServed' \in Nat
      <4>1. pagesServed \in Nat
        BY <1>a DEF TypeOK
      <4> QED
        BY <2>4, <4>1 DEF CountPage
    <3>2. pc' \in [Threads -> {"acquire", "wait", "take", "serve", "count", "close", "exited"}]
      BY <2>4, <1>a DEF CountPage, TypeOK
    <3>3. UNCHANGED <<queue, queueMtx, threadStop, sock, mainPc, client, open, reply,
                      accepted, taken>>
      BY <2>4 DEF CountPage
    <3> QED
      BY <3>1, <3>2, <3>3, <1>a DEF TypeOK
  <2>5. CASE CloseClient(t)
    BY <2>5, <1>a DEF CloseClient, TypeOK
  <2> QED
    BY <1>1, <2>1, <2>2, <2>3, <2>4, <2>5 DEF ThreadStep
<1>2. ASSUME NEW t \in Threads, SpuriousWakeup(t)
      PROVE  TypeOK'
  BY <1>2, <1>a DEF SpuriousWakeup, TypeOK
<1>3. CASE SetUp \/ SetUpFails \/ Reap \/ KeepRunning \/ Stop
  BY <1>3, <1>a DEF TypeOK, SetUp, SetUpFails, Reap, KeepRunning, Stop
<1>4. ASSUME NEW c \in Conns, Accept(c)
      PROVE  TypeOK'
  BY <1>4, <1>a DEF Accept, TypeOK
<1>5. CASE HandleRequest
  <2>1. CASE BadRequest \/ ReadFails \/ GoodRequest \/ WaitToQueue
    BY <2>1, <1>a DEF TypeOK, BadRequest, ReadFails, GoodRequest, WaitToQueue
  <2>2. CASE QueueRequest
    <3>1. client \in Conns
      BY <2>2, <1>a DEF QueueRequest, HandsInv, Inv, TypeOK
    <3>2. Len(queue') = Len(queue) + 1 /\ queue' \in Seq(Conns \cup {Dummy})
      BY <2>2, <3>1, <1>a, QueuedAppend DEF QueueRequest
    <3>3. Len(queue') <= MaxSize
      BY <2>2, <3>2, <1>b, <1>c DEF QueueRequest, IsFull
    <3>4. accepted' \in Seq(Conns)
      BY <2>2, <3>1, <1>b DEF QueueRequest
    <3>5. pc' \in [Threads -> {"acquire", "wait", "take", "serve", "count", "close", "exited"}]
      BY <2>2, <1>a DEF QueueRequest, SignalNonEmpty, TypeOK
    <3> QED
      BY <2>2, <1>a, <3>2, <3>3, <3>4, <3>5 DEF QueueRequest, TypeOK
  <2> QED
    BY <1>5, <2>1, <2>2 DEF HandleRequest
<1>6. CASE CleanUp
  <2>1. CASE SetStopFlag \/ WaitToUnblock \/ JoinPool
    BY <2>1, <1>a DEF TypeOK, SetStopFlag, WaitToUnblock, JoinPool
  <2>2. CASE UnblockPool
    <3>1. Len(queue') = Len(queue) + 1 /\ queue' \in Seq(Conns \cup {Dummy})
      BY <2>2, <1>a, QueuedAppend DEF UnblockPool
    <3>2. Len(queue') <= MaxSize
      BY <2>2, <3>1, <1>b, <1>c DEF UnblockPool, IsFull
    <3> QED
      BY <2>2, <1>a, <3>1, <3>2 DEF UnblockPool, TypeOK
  <2> QED
    BY <1>6, <2>1, <2>2 DEF CleanUp
<1>7. CASE SpuriousWakeupOfMain
  BY <1>7, <1>a DEF SpuriousWakeupOfMain, SignalNonFull, TypeOK
<1>8. CASE UNCHANGED vars
  BY <1>8, <1>a DEF vars, TypeOK
<1> QED
  BY <1>1, <1>2, <1>3, <1>4, <1>5, <1>6, <1>7, <1>8 DEF Next, MainStep, Terminated

LEMMA LockInvStep ==
  ASSUME Inv, [Next]_vars
  PROVE  LockInv'
<1> USE ServerAssumption DEF Inv, TypeOK, LockInv, pool, hist, Goto
<1>1. ASSUME UNCHANGED queue PROVE UNCHANGED Queued
  BY <1>1 DEF Queued
<1>2. ASSUME NEW t \in Threads, ThreadStep(t)
      PROVE  LockInv'
  <2>1. CASE WaitForRequest(t) \/ ExitThread(t)
    BY <2>1, <1>1 DEF WaitForRequest, ExitThread
  <2>2. CASE PassStopCheck(t)
    BY <2>2, <1>1 DEF PassStopCheck, StopInv
  <2>3. CASE TakeRequest(t)
    BY <2>3 DEF TakeRequest
  <2>4. CASE Serve(t)
    BY <2>4, <1>1 DEF Serve
  <2>5. CASE CountPage(t) \/ CloseClient(t)
    BY <2>5, <1>1 DEF CountPage, CloseClient
  <2> QED
    BY <1>2, <2>1, <2>2, <2>3, <2>4, <2>5 DEF ThreadStep
<1>3. ASSUME NEW t \in Threads, SpuriousWakeup(t)
      PROVE  LockInv'
  BY <1>3, <1>1 DEF SpuriousWakeup
<1>4. CASE SetUp \/ SetUpFails \/ Reap \/ KeepRunning \/ Stop
  BY <1>4, <1>1 DEF SetUp, SetUpFails, Reap, KeepRunning, Stop
<1>5. ASSUME NEW c \in Conns, Accept(c)
      PROVE  LockInv'
  BY <1>5, <1>1 DEF Accept
<1>6. CASE HandleRequest
  <2>1. CASE BadRequest \/ ReadFails \/ GoodRequest \/ WaitToQueue
    BY <2>1, <1>1 DEF BadRequest, ReadFails, GoodRequest, WaitToQueue
  <2>2. CASE QueueRequest
    <3>1. \A t \in Threads : pc[t] # "take" /\ pc'[t] # "take"
      BY <2>2 DEF QueueRequest, SignalNonEmpty
    <3> QED
      BY <2>2, <3>1 DEF QueueRequest
  <2> QED
    BY <1>6, <2>1, <2>2 DEF HandleRequest
<1>7. CASE CleanUp
  <2>1. CASE SetStopFlag \/ WaitToUnblock \/ JoinPool
    BY <2>1, <1>1 DEF SetStopFlag, WaitToUnblock, JoinPool
  <2>2. CASE UnblockPool
    BY <2>2 DEF UnblockPool
  <2> QED
    BY <1>7, <2>1, <2>2 DEF CleanUp
<1>8. CASE SpuriousWakeupOfMain
  BY <1>8, <1>1 DEF SpuriousWakeupOfMain
<1>9. CASE UNCHANGED vars
  BY <1>9, <1>1 DEF vars
<1> QED
  BY <1>2, <1>3, <1>4, <1>5, <1>6, <1>7, <1>8, <1>9 DEF Next, MainStep, Terminated

LEMMA StopInvStep ==
  ASSUME Inv, [Next]_vars
  PROVE  StopInv'
<1>a. TypeOK /\ StopInv
  BY DEF Inv
<1> USE <1>a DEF StopInv, pool, hist
<1>1. ASSUME UNCHANGED queue PROVE UNCHANGED Queued
  BY <1>1 DEF Queued
<1>2. ASSUME NEW t \in Threads, ThreadStep(t)
      PROVE  StopInv'
  <2>1. CASE WaitForRequest(t) \/ ExitThread(t) \/ PassStopCheck(t)
    BY <2>1, <1>1 DEF WaitForRequest, ExitThread, PassStopCheck
  <2>2. CASE TakeRequest(t)
    <3>1. Dummy \notin Queued'
      BY <2>2, TakenRequest
    <3> QED
      BY <2>2, <3>1 DEF TakeRequest, SignalNonFull
  <2>3. CASE Serve(t) \/ CountPage(t) \/ CloseClient(t)
    BY <2>3, <1>1 DEF Serve, CountPage, CloseClient
  <2> QED
    BY <1>2, <2>1, <2>2, <2>3 DEF ThreadStep
<1>3. ASSUME NEW t \in Threads, SpuriousWakeup(t)
      PROVE  StopInv'
  BY <1>3, <1>1 DEF SpuriousWakeup
<1>4. CASE SetUp \/ SetUpFails \/ Reap \/ KeepRunning \/ Stop
  BY <1>4, <1>1 DEF SetUp, SetUpFails, Reap, KeepRunning, Stop
<1>5. ASSUME NEW c \in Conns, Accept(c)
      PROVE  StopInv'
  BY <1>5, <1>1 DEF Accept
<1>6. CASE HandleRequest
  <2>1. CASE BadRequest \/ ReadFails \/ GoodRequest \/ WaitToQueue
    BY <2>1, <1>1 DEF BadRequest, ReadFails, GoodRequest, WaitToQueue
  <2>2. CASE QueueRequest
    <3>1. client \in Conns
      BY <2>2 DEF QueueRequest, HandsInv, Inv, TypeOK
    <3>2. Dummy \notin Queued'
      BY <2>2, <3>1, QueuedAppend, ServerAssumption DEF QueueRequest
    <3> QED
      BY <2>2, <3>2 DEF QueueRequest
  <2> QED
    BY <1>6, <2>1, <2>2 DEF HandleRequest
<1>7. CASE CleanUp
  <2>1. CASE SetStopFlag \/ WaitToUnblock \/ JoinPool
    BY <2>1, <1>1 DEF SetStopFlag, WaitToUnblock, JoinPool
  <2>2. CASE UnblockPool
    BY <2>2 DEF UnblockPool
  <2> QED
    BY <1>7, <2>1, <2>2 DEF CleanUp
<1>8. CASE SpuriousWakeupOfMain
  BY <1>8, <1>1 DEF SpuriousWakeupOfMain, SignalNonFull
<1>9. CASE UNCHANGED vars
  BY <1>9, <1>1 DEF vars
<1> QED
  BY <1>2, <1>3, <1>4, <1>5, <1>6, <1>7, <1>8, <1>9 DEF Next, MainStep, Terminated

LEMMA HandsInvStep ==
  ASSUME Inv, [Next]_vars
  PROVE  HandsInv'
<1> USE ServerAssumption DEF Inv, TypeOK, HandsInv, pool, hist, Goto
<1>1. ASSUME NEW t \in Threads, ThreadStep(t)
      PROVE  HandsInv'
  <2>1. CASE WaitForRequest(t) \/ ExitThread(t) \/ PassStopCheck(t)
    BY <2>1 DEF WaitForRequest, ExitThread, PassStopCheck
  <2>2. CASE TakeRequest(t)
    <3>1. /\ Head(queue) \in Conns
          /\ sock' = [sock EXCEPT ![t] = Head(queue)] /\ pc' = [pc EXCEPT ![t] = "serve"]
      BY <2>2, TakenRequest
    <3>2. \A u \in Threads : /\ sock'[u] \in Conns \cup {NoConn}
                             /\ pc'[u] \in {"serve", "count", "close"} <=> sock'[u] # NoConn
      BY <3>1
    <3>3. mainPc' \in {"read", "queue", "sleep to queue"} <=> client' # NoConn
      BY <2>2 DEF TakeRequest, SignalNonFull
    <3> QED
      BY <3>2, <3>3
  <2>3. CASE Serve(t)
    BY <2>3 DEF Serve
  <2>4. CASE CountPage(t) \/ CloseClient(t)
    BY <2>4 DEF CountPage, CloseClient
  <2> QED
    BY <1>1, <2>1, <2>2, <2>3, <2>4 DEF ThreadStep
<1>2. ASSUME NEW t \in Threads, SpuriousWakeup(t)
      PROVE  HandsInv'
  BY <1>2 DEF SpuriousWakeup
<1>3. CASE SetUp \/ SetUpFails \/ Reap \/ KeepRunning \/ Stop
  BY <1>3 DEF SetUp, SetUpFails, Reap, KeepRunning, Stop
<1>4. ASSUME NEW c \in Conns, Accept(c)
      PROVE  HandsInv'
  BY <1>4 DEF Accept
<1>5. CASE HandleRequest
  <2>1. CASE BadRequest \/ ReadFails \/ GoodRequest \/ WaitToQueue
    BY <2>1 DEF BadRequest, ReadFails, GoodRequest, WaitToQueue
  <2>2. CASE QueueRequest
    BY <2>2 DEF QueueRequest, SignalNonEmpty, Waiting
  <2> QED
    BY <1>5, <2>1, <2>2 DEF HandleRequest
<1>6. CASE CleanUp
  BY <1>6 DEF CleanUp, SetStopFlag, WaitToUnblock, JoinPool, UnblockPool
<1>7. CASE SpuriousWakeupOfMain
  BY <1>7 DEF SpuriousWakeupOfMain, SignalNonFull
<1>8. CASE UNCHANGED vars
  BY <1>8 DEF vars
<1> QED
  BY <1>1, <1>2, <1>3, <1>4, <1>5, <1>6, <1>7, <1>8 DEF Next, MainStep, Terminated

LEMMA OneHolderStep ==
  ASSUME Inv, [Next]_vars
  PROVE  OneHolder'
<1>a. TypeOK /\ OneHolder /\ HandsInv /\ StopInv
  BY DEF Inv
<1>b. /\ sock \in [Threads -> Conns \cup {Dummy, NoConn}]
      /\ client \in Conns \cup {NoConn} /\ open \subseteq Conns
      /\ queue \in Seq(Conns \cup {Dummy}) /\ Queued \subseteq Conns \cup {Dummy}
      /\ Dummy \notin Conns /\ NoConn \notin Conns /\ NoConn # Dummy
  <2>1. /\ sock \in [Threads -> Conns \cup {Dummy, NoConn}]
        /\ client \in Conns \cup {NoConn} /\ open \subseteq Conns
        /\ queue \in Seq(Conns \cup {Dummy})
    BY <1>a DEF TypeOK
  <2>2. Queued \subseteq Conns \cup {Dummy}
    BY <2>1 DEF Queued
  <2> QED
    BY <2>1, <2>2, ServerAssumption
<1>c. ASSUME UNCHANGED queue PROVE UNCHANGED Queued
  BY <1>c DEF Queued
<1>1. ASSUME UNCHANGED <<queue, sock, client, open>> PROVE OneHolder'
  BY <1>1, <1>a, <1>c DEF OneHolder
<1> USE DEF pool, hist
<1>2. ASSUME NEW t \in Threads, ThreadStep(t)
      PROVE  OneHolder'
  <2>1. CASE WaitForRequest(t) \/ ExitThread(t) \/ PassStopCheck(t)
    BY <2>1, <1>1 DEF WaitForRequest, ExitThread, PassStopCheck
  <2>2. CASE TakeRequest(t)
    <3> DEFINE h == Head(queue)
    <3>1. /\ h \in Queued /\ h \in Conns /\ Queued' = Queued \ {h}
          /\ sock' = [sock EXCEPT ![t] = h]
      BY <2>2, TakenRequest
    <3>2. sock[t] = NoConn
      BY <2>2, <1>a DEF TakeRequest, HandsInv
    <3>3. Distinct(queue')
      BY <2>2, <1>a, QueuedTail, TakenRequest DEF TakeRequest
    <3>4. open' = open /\ client' = client
      BY <2>2 DEF TakeRequest
    <3> HIDE DEF h
    <3>5. {sock'[u] : u \in Threads} \ {Dummy, NoConn}
            = ({sock[u] : u \in Threads} \cup {h}) \ {Dummy, NoConn}
      BY <1>b, <3>1, <3>2
    <3>6. open' = (Queued' \cup {client'} \cup {sock'[u] : u \in Threads}) \ {Dummy, NoConn}
      BY <1>a, <1>b, <3>1, <3>4, <3>5 DEF OneHolder
    <3>7. \A u \in Threads : sock'[u] # NoConn =>
             /\ sock'[u] \notin Queued' \cup {client'}
             /\ \A v \in Threads : sock'[v] = sock'[u] => v = u
      BY <1>a, <1>b, <3>1, <3>2, <3>4 DEF OneHolder
    <3> QED
      BY <1>a, <3>1, <3>3, <3>4, <3>6, <3>7 DEF Distinct, OneHolder
  <2>3. CASE Serve(t) \/ CountPage(t)
    BY <2>3, <1>1 DEF Serve, CountPage
  <2>4. CASE CloseClient(t)
    <3>1. /\ open' = open \ {sock[t]} /\ sock' = [sock EXCEPT ![t] = NoConn]
          /\ client' = client /\ queue' = queue /\ Queued' = Queued
      BY <2>4, <1>c DEF CloseClient
    <3>2. sock[t] # NoConn
      BY <2>4, <1>a DEF CloseClient, HandsInv
    <3>3. {sock'[u] : u \in Threads} \ {Dummy, NoConn}
            = {sock[u] : u \in Threads} \ {sock[t], Dummy, NoConn}
      BY <1>a, <1>b, <3>1, <3>2 DEF OneHolder
    <3>4. open' = (Queued' \cup {client'} \cup {sock'[u] : u \in Threads}) \ {Dummy, NoConn}
      BY <1>a, <1>b, <3>1, <3>2, <3>3 DEF OneHolder
    <3> QED
      BY <1>a, <1>b, <3>1, <3>4 DEF OneHolder
  <2> QED
    BY <1>2, <2>1, <2>2, <2>3, <2>4 DEF ThreadStep
<1>3. ASSUME NEW t \in Threads, SpuriousWakeup(t)
      PROVE  OneHolder'
  BY <1>3, <1>1 DEF SpuriousWakeup
<1>4. CASE SetUp \/ SetUpFails \/ Reap \/ KeepRunning \/ Stop
  BY <1>4, <1>1 DEF SetUp, SetUpFails, Reap, KeepRunning, Stop
<1>5. ASSUME NEW c \in Conns, Accept(c)
      PROVE  OneHolder'
  <2>1. client = NoConn
    BY <1>a, <1>5 DEF Accept, HandsInv
  <2>2. /\ c \notin Queued /\ \A u \in Threads : sock[u] # c
    BY <1>a, <1>b, <1>5 DEF Accept, OneHolder
  <2>3. /\ UNCHANGED <<queue, Queued, sock>> /\ client' = c /\ open' = open \cup {c}
    BY <1>5, <1>c DEF Accept
  <2> QED
    BY <1>a, <1>b, <2>1, <2>2, <2>3 DEF OneHolder
<1>6. CASE HandleRequest
  <2>1. CASE BadRequest \/ ReadFails
    <3>1. client # NoConn
      BY <2>1, <1>a DEF BadRequest, ReadFails, HandsInv
    <3>2. client \notin Queued /\ \A u \in Threads : sock[u] # client
      BY <1>a, <3>1 DEF OneHolder
    <3>3. UNCHANGED <<queue, Queued, sock>> /\ client' = NoConn /\ open' = open \ {client}
      BY <2>1, <1>c DEF BadRequest, ReadFails
    <3>4. /\ open' = (Queued' \cup {client'} \cup {sock'[u] : u \in Threads}) \ {Dummy, NoConn}
          /\ client' \notin Queued'
      BY <1>a, <1>b, <3>1, <3>2, <3>3 DEF OneHolder
    <3> QED
      BY <1>a, <1>b, <3>3, <3>4 DEF OneHolder
  <2>2. CASE GoodRequest \/ WaitToQueue
    BY <2>2, <1>1 DEF GoodRequest, WaitToQueue
  <2>3. CASE QueueRequest
    <3>1. client \in Conns
      BY <1>a, <1>b, <2>3 DEF QueueRequest, HandsInv
    <3>2. Queued' = Queued \cup {client}
      BY <1>a, <2>3, <3>1, QueuedAppend DEF QueueRequest
    <3>3. Distinct(queue')
      <4>1. Distinct(queue) /\ client \notin Elements(queue)
        BY <1>a DEF OneHolder, Distinct, Elements, Queued
      <4> QED
        BY <1>b, <2>3, <3>1, <4>1, AppendDistinct DEF QueueRequest
    <3>4. client' = NoConn /\ UNCHANGED <<sock, open>>
      BY <2>3 DEF QueueRequest
    <3>5. NoConn \notin Queued'
      BY <1>b, <3>1, <3>2
    <3> QED
      BY <1>a, <1>b, <3>1, <3>2, <3>3, <3>4, <3>5 DEF Distinct, OneHolder
  <2> QED
    BY <1>6, <2>1, <2>2, <2>3 DEF HandleRequest
<1>7. CASE CleanUp
  <2>1. CASE SetStopFlag \/ WaitToUnblock \/ JoinPool
    BY <2>1, <1>1 DEF SetStopFlag, WaitToUnblock, JoinPool
  <2>2. CASE UnblockPool
    <3>1. Dummy \notin Queued
      BY <1>a, <2>2 DEF UnblockPool, StopInv
    <3>2. Queued' = Queued \cup {Dummy}
      BY <1>a, <2>2, QueuedAppend DEF UnblockPool
    <3>3. Distinct(queue')
      <4>1. Distinct(queue) /\ Dummy \notin Elements(queue)
        BY <1>a, <3>1 DEF OneHolder, Distinct, Elements, Queued
      <4> QED
        BY <1>b, <2>2, <4>1, AppendDistinct DEF UnblockPool
    <3>4. UNCHANGED <<sock, open, client>>
      BY <2>2 DEF UnblockPool
    <3>5. \A u \in Threads : sock[u] # Dummy
      BY <1>a, <1>b DEF HandsInv
    <3> QED
      BY <1>a, <1>b, <3>2, <3>3, <3>4, <3>5 DEF Distinct, OneHolder
  <2> QED
    BY <1>7, <2>1, <2>2 DEF CleanUp
<1>8. CASE SpuriousWakeupOfMain
  BY <1>8, <1>1 DEF SpuriousWakeupOfMain
<1>9. CASE UNCHANGED vars
  BY <1>9, <1>1 DEF vars
<1> QED
  BY <1>2, <1>3, <1>4, <1>5, <1>6, <1>7, <1>8, <1>9 DEF Next, MainStep, Terminated

(* What the signal for a request does to the pool. *)
LEMMA SignalFacts ==
  ASSUME TypeOK, SignalNonEmpty
  PROVE  /\ \A u \in Threads : pc'[u] # pc[u] => pc[u] = "wait" /\ pc'[u] = "acquire"
         /\ Waiting # {} => \E t \in Waiting : pc' = [pc EXCEPT ![t] = "acquire"]
         /\ Waiting = {} => pc' = pc
  BY DEF SignalNonEmpty, Waiting, Goto, TypeOK

LEMMA ReplyInvStep ==
  ASSUME Inv, [Next]_vars
  PROVE  ReplyInv'
<1>a. TypeOK /\ ReplyInv /\ OneHolder /\ HandsInv
  BY DEF Inv
<1>b. /\ sock \in [Threads -> Conns \cup {Dummy, NoConn}]
      /\ pc \in [Threads -> {"acquire", "wait", "take", "serve", "count", "close", "exited"}]
      /\ reply \in [Conns -> {"none", "200", "400", "403", "404", "nothing"}]
      /\ client \in Conns \cup {NoConn}
      /\ Dummy \notin Conns /\ NoConn \notin Conns
  BY <1>a, ServerAssumption DEF TypeOK
<1>c. ASSUME UNCHANGED queue PROVE UNCHANGED Queued
  BY <1>c DEF Queued
<1>1. ASSUME UNCHANGED <<queue, client, sock, reply>>,
             \A u \in Threads : pc'[u] \in {"serve", "count", "close"} => pc'[u] = pc[u]
      PROVE  ReplyInv'
  BY <1>1, <1>a, <1>c DEF ReplyInv
<1> USE DEF pool, hist, Goto
<1>2. ASSUME NEW t \in Threads, ThreadStep(t)
      PROVE  ReplyInv'
  <2>1. CASE WaitForRequest(t) \/ ExitThread(t) \/ PassStopCheck(t)
    BY <1>1, <1>b, <2>1 DEF WaitForRequest, ExitThread, PassStopCheck
  <2>2. CASE TakeRequest(t)
    <3>1. /\ Head(queue) \in Queued /\ Head(queue) \in Conns
          /\ Queued' = Queued \ {Head(queue)}
          /\ sock' = [sock EXCEPT ![t] = Head(queue)] /\ pc' = [pc EXCEPT ![t] = "serve"]
      BY <2>2, TakenRequest
    <3>2. UNCHANGED <<reply, client>>
      BY <2>2 DEF TakeRequest
    <3> QED
      BY <1>a, <1>b, <3>1, <3>2 DEF ReplyInv
  <2>3. CASE Serve(t)
    <3>1. PICK r \in {"200", "404", "403", "nothing"} :
             /\ reply' = [reply EXCEPT ![sock[t]] = r]
             /\ pc' = [pc EXCEPT ![t] = IF r = "200" THEN "count" ELSE "close"]
      BY <2>3 DEF Serve
    <3>2. UNCHANGED <<queue, client, sock, Queued>>
      BY <1>c, <2>3 DEF Serve
    <3>3. sock[t] \in Conns /\ sock[t] # NoConn
      BY <1>a, <1>b, <2>3 DEF Serve, HandsInv
    <3>4. \A c \in Conns : c \in Queued \cup {client} => reply'[c] = "none"
      BY <1>a, <1>b, <3>1, <3>3 DEF OneHolder, ReplyInv
    <3>5. ASSUME NEW u \in Threads, u # t, pc[u] \in {"serve", "count", "close"}
          PROVE  reply'[sock[u]] = reply[sock[u]]
      <4>1. sock[u] \in Conns /\ sock[u] # sock[t]
        BY <1>a, <1>b, <3>3, <3>5 DEF HandsInv, OneHolder
      <4> QED
        BY <1>b, <3>1, <4>1
    <3>6. reply'[sock[t]] = r
      BY <1>b, <3>1, <3>3
    <3>7. \A u \in Threads : /\ pc'[u] = "serve" => reply'[sock'[u]] = "none"
                             /\ pc'[u] = "count" => reply'[sock'[u]] = "200"
                             /\ pc'[u] = "close" => reply'[sock'[u]] # "none"
      BY <1>a, <1>b, <3>1, <3>2, <3>5, <3>6 DEF ReplyInv
    <3> QED
      BY <3>2, <3>4, <3>7 DEF ReplyInv
  <2>4. CASE CountPage(t)
    <3>1. UNCHANGED <<queue, client, sock, reply, Queued>> /\ pc[t] = "count"
          /\ pc' = [pc EXCEPT ![t] = "close"]
      BY <1>c, <2>4 DEF CountPage
    <3> QED
      BY <1>a, <1>b, <3>1 DEF ReplyInv
  <2>5. CASE CloseClient(t)
    <3>1. UNCHANGED <<queue, client, reply, Queued>> /\ sock' = [sock EXCEPT ![t] = NoConn]
          /\ pc' = [pc EXCEPT ![t] = "acquire"]
      BY <1>c, <2>5 DEF CloseClient
    <3> QED
      BY <1>a, <1>b, <3>1 DEF ReplyInv
  <2> QED
    BY <1>2, <2>1, <2>2, <2>3, <2>4, <2>5 DEF ThreadStep
<1>3. ASSUME NEW t \in Threads, SpuriousWakeup(t)
      PROVE  ReplyInv'
  BY <1>1, <1>b, <1>3 DEF SpuriousWakeup
<1>4. CASE SetUp \/ SetUpFails \/ Reap \/ KeepRunning \/ Stop
  BY <1>1, <1>b, <1>4 DEF SetUp, SetUpFails, Reap, KeepRunning, Stop
<1>5. ASSUME NEW c \in Conns, Accept(c)
      PROVE  ReplyInv'
  <2>1. /\ UNCHANGED <<queue, Queued, sock, reply, pc>> /\ client' = c /\ reply[c] = "none"
    BY <1>c, <1>5 DEF Accept
  <2> QED
    BY <1>a, <2>1 DEF ReplyInv
<1>6. CASE HandleRequest
  <2>1. CASE BadRequest \/ ReadFails
    <3>1. PICK r \in {"400", "nothing"} : reply' = [reply EXCEPT ![client] = r]
      BY <2>1 DEF BadRequest, ReadFails
    <3>2. /\ UNCHANGED <<queue, Queued, sock, pc>> /\ client' = NoConn
      BY <1>c, <2>1 DEF BadRequest, ReadFails
    <3>3. client \in Conns /\ client \notin Queued
      BY <1>a, <1>b, <2>1 DEF BadRequest, ReadFails, HandsInv, OneHolder
    <3>4. \A c \in Conns : c \in Queued' \cup {client'} => reply'[c] = "none"
      BY <1>a, <1>b, <3>1, <3>2, <3>3 DEF ReplyInv
    <3>5. ASSUME NEW u \in Threads, pc[u] \in {"serve", "count", "close"}
          PROVE  reply'[sock[u]] = reply[sock[u]]
      <4>1. sock[u] \in Conns /\ sock[u] # client
        BY <1>a, <1>b, <3>5 DEF HandsInv, OneHolder
      <4> QED
        BY <1>b, <3>1, <4>1
    <3> QED
      BY <1>a, <3>2, <3>4, <3>5 DEF ReplyInv
  <2>2. CASE GoodRequest \/ WaitToQueue
    BY <1>1, <2>2 DEF GoodRequest, WaitToQueue
  <2>3. CASE QueueRequest
    <3>1. client \in Conns
      BY <1>a, <1>b, <2>3 DEF QueueRequest, HandsInv
    <3>2. Queued' = Queued \cup {client}
      BY <1>a, <2>3, <3>1, QueuedAppend DEF QueueRequest
    <3>3. UNCHANGED <<sock, reply>> /\ client' = NoConn
      BY <2>3 DEF QueueRequest
    <3>4. \A u \in Threads : pc'[u] \in {"serve", "count", "close"} => pc'[u] = pc[u]
      BY <1>a, <2>3, SignalFacts DEF QueueRequest
    <3> QED
      BY <1>a, <1>b, <3>2, <3>3, <3>4 DEF ReplyInv
  <2> QED
    BY <1>6, <2>1, <2>2, <2>3 DEF HandleRequest
<1>7. CASE CleanUp
  <2>1. CASE SetStopFlag \/ WaitToUnblock \/ JoinPool
    BY <1>1, <2>1 DEF SetStopFlag, WaitToUnblock, JoinPool
  <2>2. CASE UnblockPool
    <3>1. Queued' = Queued \cup {Dummy}
      BY <1>a, <2>2, QueuedAppend DEF UnblockPool
    <3>2. UNCHANGED <<sock, reply, client>>
      BY <2>2 DEF UnblockPool
    <3>3. \A u \in Threads : pc'[u] \in {"serve", "count", "close"} => pc'[u] = pc[u]
      BY <2>2 DEF UnblockPool
    <3> QED
      BY <1>a, <1>b, <3>1, <3>2, <3>3 DEF ReplyInv
  <2> QED
    BY <1>7, <2>1, <2>2 DEF CleanUp
<1>8. CASE SpuriousWakeupOfMain
  BY <1>1, <1>8 DEF SpuriousWakeupOfMain
<1>9. CASE UNCHANGED vars
  BY <1>1, <1>9 DEF vars
<1> QED
  BY <1>2, <1>3, <1>4, <1>5, <1>6, <1>7, <1>8, <1>9 DEF Next, MainStep, Terminated

LEMMA OrderInvStep ==
  ASSUME Inv, [Next]_vars
  PROVE  OrderInv'
<1>a. TypeOK /\ OrderInv /\ HandsInv
  BY DEF Inv
<1>b. /\ queue \in Seq(Conns \cup {Dummy}) /\ taken \in Seq(Conns \cup {Dummy})
      /\ client \in Conns \cup {NoConn}
  BY <1>a DEF TypeOK
<1>1. ASSUME UNCHANGED <<queue, taken, accepted>>,
             mainPc' \in {"join", "ended"} <=> mainPc \in {"join", "ended"}
      PROVE  OrderInv'
  BY <1>1, <1>a DEF OrderInv
<1> USE DEF pool, hist
<1>2. ASSUME NEW t \in Threads, ThreadStep(t)
      PROVE  OrderInv'
  <2>1. CASE WaitForRequest(t) \/ ExitThread(t) \/ PassStopCheck(t)
    BY <1>1, <2>1 DEF WaitForRequest, ExitThread, PassStopCheck
  <2>2. CASE TakeRequest(t)
    <3>1. queue # <<>>
      BY <2>2, TakenRequest
    <3>2. /\ queue' = Tail(queue) /\ taken' = Append(taken, Head(queue)) /\ accepted' = accepted
          /\ mainPc' \in {"join", "ended"} <=> mainPc \in {"join", "ended"}
      BY <2>2 DEF TakeRequest, SignalNonFull
    <3>3. taken' \o queue' = taken \o queue
      BY <1>b, <3>1, <3>2, TakeKeepsOrder
    <3> QED
      BY <1>a, <3>2, <3>3 DEF OrderInv
  <2>3. CASE Serve(t) \/ CountPage(t) \/ CloseClient(t)
    BY <1>1, <2>3 DEF Serve, CountPage, CloseClient
  <2> QED
    BY <1>2, <2>1, <2>2, <2>3 DEF ThreadStep
<1>3. ASSUME NEW t \in Threads, SpuriousWakeup(t)
      PROVE  OrderInv'
  BY <1>1, <1>3 DEF SpuriousWakeup
<1>4. CASE SetUp \/ SetUpFails \/ Reap \/ KeepRunning \/ Stop
  BY <1>1, <1>4 DEF SetUp, SetUpFails, Reap, KeepRunning, Stop
<1>5. ASSUME NEW c \in Conns, Accept(c)
      PROVE  OrderInv'
  BY <1>1, <1>5 DEF Accept
<1>6. CASE HandleRequest
  <2>1. CASE BadRequest \/ ReadFails \/ GoodRequest \/ WaitToQueue
    BY <1>1, <2>1 DEF BadRequest, ReadFails, GoodRequest, WaitToQueue
  <2>2. CASE QueueRequest
    <3>1. client \in Conns
      BY <1>a, <1>b, <2>2 DEF QueueRequest, HandsInv
    <3>2. /\ queue' = Append(queue, client) /\ accepted' = Append(accepted, client)
          /\ taken' = taken /\ mainPc = "queue" /\ mainPc' = "reap"
      BY <2>2 DEF QueueRequest
    <3>3. taken' \o queue' = Append(taken \o queue, client)
      BY <1>b, <3>1, <3>2, AddKeepsOrder
    <3> QED
      BY <1>a, <3>2, <3>3 DEF OrderInv
  <2> QED
    BY <1>6, <2>1, <2>2 DEF HandleRequest
<1>7. CASE CleanUp
  <2>1. CASE SetStopFlag \/ WaitToUnblock \/ JoinPool
    BY <1>1, <2>1 DEF SetStopFlag, WaitToUnblock, JoinPool
  <2>2. CASE UnblockPool
    <3>1. /\ queue' = Append(queue, Dummy) /\ accepted' = accepted
          /\ taken' = taken /\ mainPc = "unblock" /\ mainPc' = "join"
      BY <2>2 DEF UnblockPool
    <3>2. taken' \o queue' = Append(taken \o queue, Dummy)
      BY <1>b, <3>1, AddKeepsOrder
    <3> QED
      BY <1>a, <3>1, <3>2 DEF OrderInv
  <2> QED
    BY <1>7, <2>1, <2>2 DEF CleanUp
<1>8. CASE SpuriousWakeupOfMain
  BY <1>1, <1>8 DEF SpuriousWakeupOfMain, SignalNonFull
<1>9. CASE UNCHANGED vars
  BY <1>1, <1>9 DEF vars
<1> QED
  BY <1>2, <1>3, <1>4, <1>5, <1>6, <1>7, <1>8, <1>9 DEF Next, MainStep, Terminated

LEMMA TakenInvStep ==
  ASSUME Inv, [Next]_vars
  PROVE  TakenInv'
<1>a. TypeOK /\ TakenInv /\ ReplyInv /\ HandsInv
  BY DEF Inv
<1>b. /\ sock \in [Threads -> Conns \cup {Dummy, NoConn}]
      /\ reply \in [Conns -> {"none", "200", "400", "403", "404", "nothing"}]
      /\ taken \in Seq(Conns) /\ \A i \in DOMAIN taken : taken[i] \in Conns
      /\ NoConn \notin Conns
  <2>1. taken \in Seq(Conns)
    BY <1>a DEF TakenInv
  <2>2. \A i \in DOMAIN taken : taken[i] \in Conns
    BY <2>1
  <2> QED
    BY <1>a, <2>1, <2>2, ServerAssumption DEF TypeOK
<1>1. ASSUME UNCHANGED <<taken, sock>>,
             \A c \in Conns : reply[c] # "none" => reply'[c] # "none"
      PROVE  TakenInv'
  BY <1>1, <1>a, <1>b DEF TakenInv
<1> USE DEF pool, hist
<1>2. ASSUME NEW t \in Threads, ThreadStep(t)
      PROVE  TakenInv'
  <2>1. CASE WaitForRequest(t) \/ ExitThread(t) \/ PassStopCheck(t) \/ CountPage(t)
    BY <1>1, <2>1 DEF WaitForRequest, ExitThread, PassStopCheck, CountPage
  <2>2. CASE TakeRequest(t)
    <3> DEFINE h == Head(queue)
    <3>1. h \in Conns /\ sock' = [sock EXCEPT ![t] = h]
      BY <2>2, TakenRequest
    <3>2. sock[t] = NoConn
      BY <1>a, <2>2 DEF TakeRequest, HandsInv
    <3>3. taken' = Append(taken, h) /\ reply' = reply
      BY <2>2 DEF TakeRequest
    <3> HIDE DEF h
    <3>4. /\ taken' \in Seq(Conns)
          /\ \A i \in DOMAIN taken' : \/ i \in DOMAIN taken /\ taken'[i] = taken[i]
                                      \/ taken'[i] = h
      BY <1>b, <3>1, <3>3, AppendFacts
    <3>5. sock'[t] = h /\ \A u \in Threads \ {t} : sock'[u] = sock[u]
      BY <1>b, <3>1
    <3>6. ASSUME NEW i \in DOMAIN taken', taken'[i] # h
          PROVE  reply'[taken'[i]] # "none" \/ \E u \in Threads : sock'[u] = taken'[i]
      <4>1. i \in DOMAIN taken /\ taken'[i] = taken[i]
        BY <3>4, <3>6
      <4>2. reply[taken[i]] # "none" \/ \E u \in Threads \ {t} : sock[u] = taken[i]
        BY <1>a, <1>b, <3>2, <4>1 DEF TakenInv
      <4> QED
        BY <3>3, <3>5, <4>1, <4>2
    <3> QED
      BY <3>4, <3>5, <3>6 DEF TakenInv
  <2>3. CASE Serve(t)
    <3>1. PICK r \in {"200", "404", "403", "nothing"} : reply' = [reply EXCEPT ![sock[t]] = r]
      BY <2>3 DEF Serve
    <3> QED
      BY <1>1, <1>b, <2>3, <3>1 DEF Serve
  <2>4. CASE CloseClient(t)
    <3>1. /\ reply[sock[t]] # "none" /\ UNCHANGED <<taken, reply>>
          /\ sock' = [sock EXCEPT ![t] = NoConn]
      BY <1>a, <2>4 DEF CloseClient, ReplyInv
    <3>2. \A u \in Threads \ {t} : sock'[u] = sock[u]
      BY <1>b, <3>1
    <3> QED
      BY <1>a, <3>1, <3>2 DEF TakenInv
  <2> QED
    BY <1>2, <2>1, <2>2, <2>3, <2>4 DEF ThreadStep
<1>3. ASSUME NEW t \in Threads, SpuriousWakeup(t)
      PROVE  TakenInv'
  BY <1>1, <1>3 DEF SpuriousWakeup
<1>4. CASE SetUp \/ SetUpFails \/ Reap \/ KeepRunning \/ Stop
  BY <1>1, <1>4 DEF SetUp, SetUpFails, Reap, KeepRunning, Stop
<1>5. ASSUME NEW c \in Conns, Accept(c)
      PROVE  TakenInv'
  BY <1>1, <1>5 DEF Accept
<1>6. CASE HandleRequest
  <2>1. CASE BadRequest \/ ReadFails
    <3>1. PICK r \in {"400", "nothing"} : reply' = [reply EXCEPT ![client] = r]
      BY <2>1 DEF BadRequest, ReadFails
    <3> QED
      BY <1>1, <1>b, <2>1, <3>1 DEF BadRequest, ReadFails
  <2>2. CASE GoodRequest \/ WaitToQueue \/ QueueRequest
    BY <1>1, <2>2 DEF GoodRequest, WaitToQueue, QueueRequest
  <2> QED
    BY <1>6, <2>1, <2>2 DEF HandleRequest
<1>7. CASE CleanUp
  BY <1>1, <1>7 DEF CleanUp, SetStopFlag, WaitToUnblock, JoinPool, UnblockPool
<1>8. CASE SpuriousWakeupOfMain
  BY <1>1, <1>8 DEF SpuriousWakeupOfMain
<1>9. CASE UNCHANGED vars
  BY <1>1, <1>9 DEF vars
<1> QED
  BY <1>2, <1>3, <1>4, <1>5, <1>6, <1>7, <1>8, <1>9 DEF Next, MainStep, Terminated

LEMMA EndInvStep ==
  ASSUME Inv, [Next]_vars
  PROVE  EndInv'
<1>a. TypeOK /\ EndInv
  BY DEF Inv
<1>b. pc \in [Threads -> {"acquire", "wait", "take", "serve", "count", "close", "exited"}]
  BY <1>a DEF TypeOK
<1> USE DEF EndInv, pool, hist
<1>1. ASSUME NEW t \in Threads, ThreadStep(t)
      PROVE  EndInv'
  <2>1. mainPc' = "ended" => mainPc = "ended"
    BY <1>1 DEF ThreadStep, WaitForRequest, ExitThread, PassStopCheck, TakeRequest, Serve,
                CountPage, CloseClient, SignalNonFull
  <2>2. pc[t] # "exited"
    BY <1>1 DEF ThreadStep, WaitForRequest, ExitThread, PassStopCheck, TakeRequest, Serve,
                CountPage, CloseClient
  <2> QED
    BY <1>a, <2>1, <2>2
<1>2. ASSUME NEW t \in Threads, SpuriousWakeup(t)
      PROVE  EndInv'
  BY <1>a, <1>2 DEF SpuriousWakeup
<1>3. CASE SetUp \/ SetUpFails \/ Reap \/ KeepRunning \/ Stop
  BY <1>3 DEF SetUp, SetUpFails, Reap, KeepRunning, Stop
<1>4. ASSUME NEW c \in Conns, Accept(c)
      PROVE  EndInv'
  BY <1>4 DEF Accept
<1>5. CASE HandleRequest
  BY <1>5 DEF HandleRequest, BadRequest, ReadFails, GoodRequest, WaitToQueue, QueueRequest
<1>6. CASE CleanUp
  BY <1>6 DEF CleanUp, SetStopFlag, WaitToUnblock, JoinPool, UnblockPool
<1>7. CASE SpuriousWakeupOfMain
  BY <1>7 DEF SpuriousWakeupOfMain, SignalNonFull
<1>8. CASE UNCHANGED vars
  BY <1>a, <1>8 DEF vars
<1> QED
  BY <1>1, <1>2, <1>3, <1>4, <1>5, <1>6, <1>7, <1>8 DEF Next, MainStep, Terminated

(* The sets that are counted are finite. *)
LEMMA Counts ==
  /\ \A S \in SUBSET Threads : IsFiniteSet(S) /\ Cardinality(S) \in Nat
  /\ \A S \in SUBSET Conns : IsFiniteSet(S) /\ Cardinality(S) \in Nat
  /\ \A S \in SUBSET Threads : \A T \in SUBSET S : Cardinality(T) <= Cardinality(S)
<1>1. \A S \in SUBSET Threads : IsFiniteSet(S)
  BY ServerAssumption, FS_Subset
<1>2. \A S \in SUBSET Conns : IsFiniteSet(S)
  BY ServerAssumption, FS_Subset
<1>3. ASSUME NEW S \in SUBSET Threads, NEW T \in SUBSET S PROVE Cardinality(T) <= Cardinality(S)
  BY <1>1, FS_Subset
<1> QED
  BY <1>1, <1>2, <1>3, FS_CardinalityType

LEMMA NoLostWakeupStep ==
  ASSUME Inv, [Next]_vars
  PROVE  NoLostWakeup'
<1> DEFINE asleep == {"sleep to queue", "sleep to stop"}
<1>a. TypeOK /\ NoLostWakeup /\ StopInv /\ LockInv /\ HandsInv
  BY DEF Inv
<1>b. /\ pc \in [Threads -> {"acquire", "wait", "take", "serve", "count", "close", "exited"}]
      /\ queue \in Seq(Conns \cup {Dummy}) /\ threadStop \in BOOLEAN
      /\ client \in Conns \cup {NoConn}
  BY <1>a DEF TypeOK
<1>c. Len(queue) \in Nat
  BY <1>b
<1>d. Coming \in SUBSET Threads /\ Coming' \in SUBSET Threads
  BY DEF Coming
<1>e. IsFiniteSet(Coming) /\ Cardinality(Coming) \in Nat /\ Cardinality(Coming') \in Nat
  BY <1>d, Counts
<1>f. ASSUME UNCHANGED queue PROVE UNCHANGED Queued
  BY <1>f DEF Queued
<1>1. ASSUME UNCHANGED queue, Waiting' \subseteq Waiting, Coming \subseteq Coming',
             ~threadStop' => ~threadStop, mainPc' \in asleep => mainPc \in asleep \/ IsFull
      PROVE  NoLostWakeup'
  <2>1. Cardinality(Coming) <= Cardinality(Coming')
    BY <1>1, <1>d, Counts
  <2>2. Waiting' # {} /\ ~threadStop' => Len(queue') <= Cardinality(Coming')
    <3> SUFFICES ASSUME Waiting' # {}, ~threadStop'
                 PROVE  Len(queue) <= Cardinality(Coming')
      BY <1>1
    <3>1. Len(queue) <= Cardinality(Coming)
      BY <1>1, <1>a DEF NoLostWakeup, Coming
    <3> QED
      BY <2>1, <3>1, <1>c, <1>e
  <2>3. Waiting' # {} => Dummy \notin Queued'
    BY <1>1, <1>a, <1>f DEF NoLostWakeup
  <2>4. mainPc' \in asleep => IsFull'
    BY <1>1, <1>a DEF NoLostWakeup, IsFull
  <2> QED
    BY <2>2, <2>3, <2>4 DEF NoLostWakeup, Coming
<1> USE DEF pool, hist
<1>2. ASSUME NEW t \in Threads, ThreadStep(t)
      PROVE  NoLostWakeup'
  <2>1. CASE WaitForRequest(t)
    <3>1. queue = <<>> /\ UNCHANGED <<queue, mainPc>>
      BY <2>1 DEF WaitForRequest
    <3>2. Len(queue') = 0 /\ Queued' = {}
      BY <3>1 DEF Queued
    <3>3. mainPc' \in asleep => IsFull'
      BY <1>a, <3>1 DEF NoLostWakeup, IsFull
    <3>4. Len(queue') <= Cardinality(Coming') /\ Dummy \notin Queued'
      BY <1>e, <3>2
    <3> QED
      BY <3>3, <3>4 DEF NoLostWakeup, Coming
  <2>2. CASE ExitThread(t)
    <3>1. threadStop' /\ UNCHANGED <<queue, Queued, mainPc>>
      BY <1>f, <2>2 DEF ExitThread
    <3>2. Waiting' \subseteq Waiting
      BY <1>b, <2>2 DEF ExitThread, Waiting, Goto
    <3> QED
      BY <1>a, <3>1, <3>2 DEF NoLostWakeup, IsFull
  <2>3. CASE PassStopCheck(t)
    <3>1. Waiting' \subseteq Waiting /\ Coming \subseteq Coming'
      BY <1>b, <2>3 DEF PassStopCheck, Waiting, Coming, Goto
    <3> QED
      BY <1>1, <2>3, <3>1 DEF PassStopCheck
  <2>4. CASE TakeRequest(t)
    <3>1. /\ Queued' = Queued \ {Head(queue)} /\ Dummy \notin Queued
          /\ pc' = [pc EXCEPT ![t] = "serve"] /\ pc[t] = "take"
          /\ UNCHANGED threadStop
      BY <2>4, TakenRequest DEF TakeRequest
    <3>2. Len(queue') = Len(queue) - 1
      BY <2>4, TakenRequest, QueuedTail DEF TakeRequest, Inv
    <3>3. /\ Waiting' = Waiting /\ t \in Coming /\ Coming' = Coming \ {t}
      BY <1>b, <3>1 DEF Waiting, Coming
    <3>4. Cardinality(Coming') = Cardinality(Coming) - 1
      BY <1>e, <3>3, FS_RemoveElement
    <3>5. mainPc' \notin asleep
      BY <2>4 DEF TakeRequest, SignalNonFull
    <3>6. Waiting' # {} /\ ~threadStop' => Len(queue') <= Cardinality(Coming')
      <4> SUFFICES ASSUME Waiting # {}, ~threadStop
                   PROVE  Len(queue') <= Cardinality(Coming')
        BY <3>1, <3>3
      <4>1. Len(queue) <= Cardinality(Coming)
        BY <1>a DEF NoLostWakeup, Coming
      <4> QED
        BY <1>c, <1>e, <3>2, <3>4, <4>1
    <3> QED
      BY <3>1, <3>5, <3>6 DEF NoLostWakeup, Coming
  <2>5. CASE Serve(t) \/ CountPage(t) \/ CloseClient(t)
    <3>1. Waiting' \subseteq Waiting /\ Coming \subseteq Coming'
      BY <1>b, <2>5 DEF Serve, CountPage, CloseClient, Waiting, Coming, Goto
    <3> QED
      BY <1>1, <2>5, <3>1 DEF Serve, CountPage, CloseClient
  <2> QED
    BY <1>2, <2>1, <2>2, <2>3, <2>4, <2>5 DEF ThreadStep
<1>3. ASSUME NEW t \in Threads, SpuriousWakeup(t)
      PROVE  NoLostWakeup'
  <2>1. Waiting' \subseteq Waiting /\ Coming \subseteq Coming'
    BY <1>b, <1>3 DEF SpuriousWakeup, Waiting, Coming, Goto
  <2> QED
    BY <1>1, <1>3, <2>1 DEF SpuriousWakeup
<1>4. CASE SetUp \/ SetUpFails \/ Reap \/ KeepRunning \/ Stop
  <2>1. Waiting' \subseteq Waiting /\ Coming \subseteq Coming'
    BY <1>b, <1>4 DEF SetUp, SetUpFails, Reap, KeepRunning, Stop, Waiting, Coming
  <2> QED
    BY <1>1, <1>4, <2>1 DEF SetUp, SetUpFails, Reap, KeepRunning, Stop
<1>g. ASSUME UNCHANGED pc PROVE UNCHANGED <<Waiting, Coming>>
  BY <1>g DEF Waiting, Coming
<1>5. ASSUME NEW c \in Conns, Accept(c)
      PROVE  NoLostWakeup'
  BY <1>1, <1>g, <1>5 DEF Accept
<1>6. CASE HandleRequest
  <2>1. CASE BadRequest \/ ReadFails \/ GoodRequest \/ WaitToQueue
    BY <1>1, <1>g, <2>1 DEF BadRequest, ReadFails, GoodRequest, WaitToQueue
  <2>2. CASE QueueRequest
    <3>1. client \in Conns
      BY <1>a, <1>b, <2>2 DEF QueueRequest, HandsInv
    <3>2. Len(queue') = Len(queue) + 1 /\ Queued' = Queued \cup {client}
      BY <1>a, <2>2, <3>1, QueuedAppend DEF QueueRequest
    <3>3. Dummy \notin Queued'
      BY <1>a, <2>2, <3>1, <3>2, ServerAssumption DEF QueueRequest, StopInv
    <3>4. mainPc' \notin asleep /\ threadStop' = threadStop
      BY <2>2 DEF QueueRequest
    <3>5. CASE Waiting = {}
      <4>1. Waiting' = {}
        BY <1>a, <1>g, <2>2, <3>5, SignalFacts DEF QueueRequest
      <4> QED
        BY <3>3, <3>4, <4>1 DEF NoLostWakeup
    <3>6. CASE Waiting # {}
      <4>1. PICK t \in Waiting : pc' = [pc EXCEPT ![t] = "acquire"]
        BY <1>a, <2>2, <3>6, SignalFacts DEF QueueRequest
      <4>2. t \notin Coming /\ Coming' = Coming \cup {t}
        BY <1>b, <4>1 DEF Waiting, Coming
      <4>3. Cardinality(Coming') = Cardinality(Coming) + 1
        BY <1>e, <4>2, FS_AddElement
      <4>4. ~threadStop' => Len(queue') <= Cardinality(Coming')
        <5> SUFFICES ASSUME ~threadStop
                     PROVE  Len(queue') <= Cardinality(Coming')
          BY <3>4
        <5>1. Len(queue) <= Cardinality(Coming)
          BY <1>a, <3>6 DEF NoLostWakeup, Coming
        <5> QED
          BY <1>c, <1>e, <3>2, <4>3, <5>1
      <4> QED
        BY <3>3, <3>4, <4>4 DEF NoLostWakeup, Coming
    <3> QED
      BY <3>5, <3>6
  <2> QED
    BY <1>6, <2>1, <2>2 DEF HandleRequest
<1>7. CASE CleanUp
  <2>1. CASE SetStopFlag \/ WaitToUnblock \/ JoinPool
    BY <1>1, <1>g, <2>1 DEF SetStopFlag, WaitToUnblock, JoinPool
  <2>2. CASE UnblockPool
    <3>1. Waiting' = {}
      BY <1>b, <2>2 DEF UnblockPool, Waiting
    <3> QED
      BY <2>2, <3>1 DEF UnblockPool, NoLostWakeup
  <2> QED
    BY <1>7, <2>1, <2>2 DEF CleanUp
<1>8. CASE SpuriousWakeupOfMain
  BY <1>1, <1>g, <1>8 DEF SpuriousWakeupOfMain, SignalNonFull
<1>9. CASE UNCHANGED vars
  BY <1>1, <1>g, <1>9 DEF vars
<1> QED
  BY <1>2, <1>3, <1>4, <1>5, <1>6, <1>7, <1>8, <1>9 DEF Next, MainStep, Terminated

LEMMA StatsExactStep ==
  ASSUME Inv, [Next]_vars
  PROVE  StatsExact'
<1>a. TypeOK /\ StatsExact /\ ReplyInv /\ HandsInv
  BY DEF Inv
<1>b. /\ pc \in [Threads -> {"acquire", "wait", "take", "serve", "count", "close", "exited"}]
      /\ sock \in [Threads -> Conns \cup {Dummy, NoConn}]
      /\ reply \in [Conns -> {"none", "200", "400", "403", "404", "nothing"}]
      /\ client \in Conns \cup {NoConn} /\ pagesServed \in Nat
  BY <1>a DEF TypeOK
<1>c. Sent \in SUBSET Conns /\ Counting \in SUBSET Threads
  BY DEF Sent, Counting
<1>d. /\ IsFiniteSet(Sent) /\ Cardinality(Sent) \in Nat
      /\ IsFiniteSet(Counting) /\ Cardinality(Counting) \in Nat
  BY <1>c, Counts
<1>e. Cardinality(Sent) = pagesServed + Cardinality(Counting)
  BY <1>a DEF StatsExact, Sent, Counting
<1>1. ASSUME UNCHANGED <<Sent, Counting, pagesServed>> PROVE StatsExact'
  BY <1>1, <1>e DEF StatsExact, Sent, Counting
<1>f. ASSUME UNCHANGED reply PROVE UNCHANGED Sent
  BY <1>f DEF Sent
<1>g. ASSUME UNCHANGED pc PROVE UNCHANGED Counting
  BY <1>g DEF Counting
<1> USE DEF pool, hist
<1>2. ASSUME NEW t \in Threads, ThreadStep(t)
      PROVE  StatsExact'
  <2>1. CASE WaitForRequest(t) \/ ExitThread(t) \/ PassStopCheck(t) \/ TakeRequest(t)
             \/ CloseClient(t)
    <3>1. UNCHANGED Counting
      BY <1>b, <2>1 DEF WaitForRequest, ExitThread, PassStopCheck, TakeRequest, CloseClient,
                        Counting, Goto
    <3> QED
      BY <1>1, <1>f, <2>1, <3>1 DEF WaitForRequest, ExitThread, PassStopCheck, TakeRequest,
                                    CloseClient
  <2>2. CASE Serve(t)
    <3>1. PICK r \in {"200", "404", "403", "nothing"} :
             /\ reply' = [reply EXCEPT ![sock[t]] = r]
             /\ pc' = [pc EXCEPT ![t] = IF r = "200" THEN "count" ELSE "close"]
      BY <2>2 DEF Serve, Goto
    <3>2. sock[t] \in Conns /\ reply[sock[t]] = "none" /\ pc[t] = "serve"
          /\ pagesServed' = pagesServed
      BY <1>a, <1>b, <2>2 DEF Serve, HandsInv, ReplyInv
    <3>3. CASE r # "200"
      <4>1. UNCHANGED <<Sent, Counting>>
        BY <1>b, <3>1, <3>2, <3>3 DEF Sent, Counting
      <4> QED
        BY <1>1, <3>2, <4>1
    <3>4. CASE r = "200"
      <4>1. sock[t] \notin Sent /\ Sent' = Sent \cup {sock[t]}
        BY <1>b, <3>1, <3>2, <3>4 DEF Sent
      <4>2. t \notin Counting /\ Counting' = Counting \cup {t}
        BY <1>b, <3>1, <3>2, <3>4 DEF Counting
      <4>3. Cardinality(Sent') = Cardinality(Sent) + 1
        BY <1>d, <4>1, FS_AddElement
      <4>4. Cardinality(Counting') = Cardinality(Counting) + 1
        BY <1>d, <4>2, FS_AddElement
      <4>5. Cardinality(Sent') = pagesServed' + Cardinality(Counting')
        BY <1>b, <1>d, <1>e, <3>2, <4>3, <4>4
      <4> QED
        BY <4>5 DEF StatsExact, Sent, Counting
    <3> QED
      BY <3>3, <3>4
  <2>3. CASE CountPage(t)
    <3>1. t \in Counting /\ Counting' = Counting \ {t} /\ Sent' = Sent
      BY <1>b, <1>f, <2>3 DEF CountPage, Counting, Goto
    <3>2. Cardinality(Counting') = Cardinality(Counting) - 1
      BY <1>d, <3>1, FS_RemoveElement
    <3>3. pagesServed' = pagesServed + 1
      BY <2>3 DEF CountPage
    <3>4. Cardinality(Sent') = pagesServed' + Cardinality(Counting')
      BY <1>b, <1>d, <1>e, <3>1, <3>2, <3>3
    <3> QED
      BY <3>4 DEF StatsExact, Sent, Counting
  <2> QED
    BY <1>2, <2>1, <2>2, <2>3 DEF ThreadStep
<1>3. ASSUME NEW t \in Threads, SpuriousWakeup(t)
      PROVE  StatsExact'
  <2>1. UNCHANGED Counting
    BY <1>b, <1>3 DEF SpuriousWakeup, Counting, Goto
  <2> QED
    BY <1>1, <1>f, <1>3, <2>1 DEF SpuriousWakeup
<1>4. CASE SetUp \/ SetUpFails \/ Reap \/ KeepRunning \/ Stop
  <2>1. UNCHANGED Counting
    BY <1>b, <1>4 DEF SetUp, SetUpFails, Reap, KeepRunning, Stop, Counting
  <2> QED
    BY <1>1, <1>f, <1>4, <2>1 DEF SetUp, SetUpFails, Reap, KeepRunning, Stop
<1>5. ASSUME NEW c \in Conns, Accept(c)
      PROVE  StatsExact'
  BY <1>1, <1>f, <1>g, <1>5 DEF Accept
<1>6. CASE HandleRequest
  <2>1. CASE BadRequest \/ ReadFails
    <3>1. PICK r \in {"400", "nothing"} : reply' = [reply EXCEPT ![client] = r]
      BY <2>1 DEF BadRequest, ReadFails
    <3>2. client \in Conns /\ UNCHANGED <<pc, pagesServed>>
      BY <1>a, <1>b, <2>1 DEF BadRequest, ReadFails, HandsInv
    <3>3. reply[client] = "none"
      BY <1>a, <3>2 DEF ReplyInv
    <3>4. UNCHANGED Sent
      BY <1>b, <3>1, <3>2, <3>3 DEF Sent
    <3> QED
      BY <1>1, <1>g, <3>2, <3>4
  <2>2. CASE GoodRequest \/ WaitToQueue
    BY <1>1, <1>f, <1>g, <2>2 DEF GoodRequest, WaitToQueue
  <2>3. CASE QueueRequest
    <3>1. UNCHANGED Counting
      BY <1>a, <2>3, SignalFacts DEF QueueRequest, Counting
    <3> QED
      BY <1>1, <1>f, <2>3, <3>1 DEF QueueRequest
  <2> QED
    BY <1>6, <2>1, <2>2, <2>3 DEF HandleRequest
<1>7. CASE CleanUp
  <2>1. UNCHANGED Counting
    BY <1>b, <1>7 DEF CleanUp, SetStopFlag, WaitToUnblock, JoinPool, UnblockPool, Counting
  <2> QED
    BY <1>1, <1>f, <1>7, <2>1 DEF CleanUp, SetStopFlag, WaitToUnblock, JoinPool, UnblockPool
<1>8. CASE SpuriousWakeupOfMain
  BY <1>1, <1>f, <1>g, <1>8 DEF SpuriousWakeupOfMain
<1>9. CASE UNCHANGED vars
  BY <1>1, <1>f, <1>g, <1>9 DEF vars
<1> QED
  BY <1>2, <1>3, <1>4, <1>5, <1>6, <1>7, <1>8, <1>9 DEF Next, MainStep, Terminated

-----------------------------------------------------------------------------
(* The theorems. *)

LEMMA InvInit ==
  ASSUME Init
  PROVE  Inv
<1> USE ServerAssumption DEF Init
<1>1. Len(queue) = 0 /\ Queued = {} /\ queue = <<>>
  BY DEF Queued
<1>2. TypeOK
  <2>1. queue \in Seq(Conns \cup {Dummy}) /\ accepted \in Seq(Conns)
        /\ taken \in Seq(Conns \cup {Dummy}) /\ Len(queue) <= MaxSize
    BY <1>1
  <2> QED
    BY <2>1 DEF TypeOK
<1>3. LockInv /\ StopInv /\ HandsInv /\ EndInv
  BY <1>1 DEF LockInv, StopInv, HandsInv, EndInv
<1>4. OneHolder
  BY <1>1 DEF OneHolder
<1>5. ReplyInv
  BY <1>1 DEF ReplyInv
<1>6. OrderInv /\ TakenInv
  BY DEF OrderInv, TakenInv
<1>7. NoLostWakeup
  BY <1>1 DEF NoLostWakeup, Waiting
<1>8. StatsExact
  <2>1. Sent = {} /\ Counting = {}
    BY DEF Sent, Counting
  <2>2. Cardinality(Sent) = 0 /\ Cardinality(Counting) = 0
    BY <2>1, FS_EmptySet
  <2>3. Cardinality(Sent) = pagesServed + Cardinality(Counting)
    BY <2>2
  <2> QED
    BY <2>3 DEF StatsExact, Sent, Counting
<1> QED
  BY <1>2, <1>3, <1>4, <1>5, <1>6, <1>7, <1>8 DEF Inv

LEMMA InvStep ==
  ASSUME Inv, [Next]_vars
  PROVE  Inv'
<1> QED
  BY TypeOKStep, LockInvStep, StopInvStep, HandsInvStep, OneHolderStep, ReplyInvStep,
     OrderInvStep, TakenInvStep, EndInvStep, NoLostWakeupStep, StatsExactStep DEF Inv

(* The server keeps its inductive invariant, however its threads are       *)
(* scheduled and woken.                                                    *)
THEOREM Invariance == Spec => []Inv
<1>1. Init => Inv
  BY InvInit
<1>2. Inv /\ [Next]_vars => Inv'
  BY InvStep
<1> QED
  BY <1>1, <1>2, PTL DEF Spec

(* Types are kept, and the request queue never outgrows MAX_SIZE. *)
THEOREM TypeCorrect == Spec => []TypeOK
<1>1. Inv => TypeOK
  BY DEF Inv
<1> QED
  BY <1>1, Invariance, PTL

(* No connection is closed twice or answered by two threads, whatever the  *)
(* size of the pool.                                                       *)
THEOREM HeldOnce == Spec => []OneHolder
<1>1. Inv => OneHolder
  BY DEF Inv
<1> QED
  BY <1>1, Invariance, PTL

(* No thread answers the element by which cleanup unblocks the pool. *)
THEOREM NoDummyServed == Spec => []DummyNotServed
<1>1. Inv => DummyNotServed
  BY ServerAssumption DEF Inv, HandsInv, DummyNotServed
<1> QED
  BY <1>1, Invariance, PTL

(* The queue is first come, first served, up to the element of cleanup. *)
THEOREM OrderKept == Spec => []FirstComeFirstServed
<1>1. Inv => FirstComeFirstServed
  BY DEF Inv, OrderInv, FirstComeFirstServed
<1> QED
  BY <1>1, Invariance, PTL

(* One signal per request is enough for any number of threads, and main    *)
(* sleeps only before a full queue.                                        *)
THEOREM WakeupsKept == Spec => []NoLostWakeup
<1>1. Inv => NoLostWakeup
  BY DEF Inv
<1> QED
  BY <1>1, Invariance, PTL

(* The number of pages that STATS reports is that of the pages sent. *)
THEOREM StatsKept == Spec => []StatsExact
<1>1. Inv => StatsExact
  BY DEF Inv
<1> QED
  BY <1>1, Invariance, PTL

(* When the server ends, what its threads took has been answered, and only *)
(* what is still in the queue is left open.                                *)
THEOREM EndServed == Spec => []EndedServed
<1>1. ASSUME Inv, mainPc = "ended"
      PROVE  /\ \A i \in DOMAIN taken : reply[taken[i]] # "none"
             /\ open = Queued \ {Dummy}
  <2>1. /\ \A t \in Threads : sock[t] = NoConn
        /\ client = NoConn
    BY <1>1 DEF Inv, EndInv, HandsInv
  <2>2. taken \in Seq(Conns) /\ NoConn \notin Conns
    BY <1>1, ServerAssumption DEF Inv, TakenInv
  <2>3. \A i \in DOMAIN taken : taken[i] # NoConn
    BY <2>2
  <2>4. \A i \in DOMAIN taken : reply[taken[i]] # "none"
    BY <1>1, <2>1, <2>3 DEF Inv, TakenInv
  <2>5. queue \in Seq(Conns \cup {Dummy})
    BY <1>1 DEF Inv, TypeOK
  <2>6. NoConn \notin Queued
    BY <2>5, ServerAssumption DEF Queued
  <2>7. open = (Queued \cup {client} \cup {sock[t] : t \in Threads}) \ {Dummy, NoConn}
    BY <1>1 DEF Inv, OneHolder
  <2>8. open = Queued \ {Dummy}
    BY <2>1, <2>6, <2>7
  <2> QED
    BY <2>4, <2>8
<1>2. Inv => EndedServed
  BY <1>1 DEF EndedServed
<1> QED
  BY <1>2, Invariance, PTL
-----------------------------------------------------------------------------
(* The service, step by step. *)

(* What a step must leave alone for nobody outside to see it. *)
Seen == <<Phase, client, Line, InHand("serve"), InHand("count"), InHand("close"), Gone,
          pagesServed>>

LEMMA UnseenStutters ==
  ASSUME UNCHANGED Seen
  PROVE  UNCHANGED ServiceSpec!vars
BY DEF Seen, ServiceSpec!vars

Held == {"serve", "count", "close"}

(* Who has a connection in hand has it alone. *)
LEMMA HandFacts ==
  ASSUME Inv, NEW t \in Threads, pc[t] \in Held
  PROVE  /\ sock[t] \in Conns /\ sock[t] \in open
         /\ \A u \in Threads : sock[u] = sock[t] => u = t
<1>1. sock[t] \in Conns /\ sock[t] # NoConn /\ sock[t] # Dummy
  BY ServerAssumption DEF Inv, HandsInv, Held
<1>2. sock[t] \in open
  BY <1>1 DEF Inv, OneHolder
<1> QED
  BY <1>1, <1>2 DEF Inv, OneHolder

(* A step of threads that have nothing in hand. *)
LEMMA HandsKept ==
  ASSUME UNCHANGED sock, NEW l \in Held,
         \A u \in Threads : pc[u] \in Held \/ pc'[u] \in Held => pc'[u] = pc[u]
  PROVE  UNCHANGED InHand(l)
<1>1. \A u \in Threads : pc[u] = l <=> pc'[u] = l
  OBVIOUS
<1> QED
  BY <1>1 DEF InHand

(* A thread goes on with what it has in hand. *)
LEMMA HandMoves ==
  ASSUME Inv, NEW t \in Threads, pc[t] \in Held, UNCHANGED sock,
         NEW m, pc' = [pc EXCEPT ![t] = m], NEW l
  PROVE  InHand(l)' = IF l = m THEN InHand(l) \cup {sock[t]} ELSE InHand(l) \ {sock[t]}
<1>1. \A u \in Threads : pc'[u] = IF u = t THEN m ELSE pc[u]
  BY DEF Inv, TypeOK
<1>2. \A u \in Threads : sock[u] = sock[t] => u = t
  BY HandFacts
<1>3. CASE l = m
  BY <1>1, <1>3 DEF InHand
<1>4. CASE l # m
  BY <1>1, <1>2, <1>4 DEF InHand
<1> QED
  BY <1>3, <1>4

(* The element of cleanup is behind the requests, and nobody takes one     *)
(* once it is there.                                                       *)
LEMMA AfterCleanup ==
  ASSUME Inv, mainPc \in {"join", "ended"}
  PROVE  Dummy \in Queued /\ \A t \in Threads : pc[t] # "take"
<1>1. taken \in Seq(Conns) /\ accepted \in Seq(Conns) /\ queue \in Seq(Conns \cup {Dummy})
  BY DEF Inv, TypeOK, TakenInv
<1>2. taken \o queue = Append(accepted, Dummy)
  BY DEF Inv, OrderInv
<1>3. Dummy \notin Conns
  BY ServerAssumption
<1>4. queue # <<>>
  <2> SUFFICES ASSUME queue = <<>> PROVE FALSE
    OBVIOUS
  <2>1. taken = Append(accepted, Dummy)
    BY <1>1, <1>2
  <2> QED
    BY <1>1, <1>3, <2>1
<1>5. Len(queue) \in DOMAIN queue /\ queue[Len(queue)] = Dummy
  <2>1. Len(taken) + Len(queue) = Len(accepted) + 1
    BY <1>1, <1>2
  <2>2. (taken \o queue)[Len(taken) + Len(queue)] = queue[Len(queue)]
    BY <1>1, <1>4
  <2>3. Append(accepted, Dummy)[Len(accepted) + 1] = Dummy
    BY <1>1
  <2> QED
    BY <1>1, <1>2, <1>4, <2>1, <2>2, <2>3
<1> QED
  BY <1>5 DEF Queued, Inv, LockInv

LEMMA ThreadStepSimulation ==
  ASSUME Inv, NEW t \in Threads, ThreadStep(t)
  PROVE  [ServiceSpec!Next]_(ServiceSpec!vars)
<1>a. /\ pc \in [Threads -> {"acquire", "wait", "take", "serve", "count", "close", "exited"}]
      /\ reply \in [Conns -> {"none", "200", "400", "403", "404", "nothing"}]
      /\ open \in SUBSET Conns
      /\ sock \in [Threads -> Conns \cup {Dummy, NoConn}]
  BY DEF Inv, TypeOK
<1>b. mainPc = "ended" => threadStop /\ \A u \in Threads : pc[u] = "exited"
  BY DEF Inv, StopInv, EndInv
<1> USE DEF pool, hist, Goto
<1>1. CASE WaitForRequest(t) \/ ExitThread(t) \/ PassStopCheck(t)
  <2>1. /\ pc[t] = "acquire"
        /\ \E l \in {"wait", "exited", "take"} : pc' = [pc EXCEPT ![t] = l]
        /\ UNCHANGED <<queue, threadStop, pagesServed, sock, mainPc, client, open, reply>>
    BY <1>1 DEF WaitForRequest, ExitThread, PassStopCheck
  <2>2. \A l \in Held : UNCHANGED InHand(l)
    <3>1. \A u \in Threads : pc[u] \in Held \/ pc'[u] \in Held => pc'[u] = pc[u]
      BY <1>a, <2>1 DEF Held
    <3> QED
      BY <2>1, <3>1, HandsKept
  <2>3. UNCHANGED Phase
    <3>1. CASE ~threadStop
      BY <1>b, <2>1, <3>1 DEF Phase
    <3>2. CASE threadStop
      <4>1. \A u \in Threads : pc[u] = "take" <=> pc'[u] = "take"
        BY <1>1, <1>a, <3>2 DEF WaitForRequest, ExitThread, PassStopCheck
      <4> QED
        BY <2>1, <4>1 DEF Phase
    <3> QED
      BY <3>1, <3>2
  <2>4. UNCHANGED <<Line, Gone>>
    BY <2>1 DEF Line, Gone
  <2> QED
    BY <2>1, <2>2, <2>3, <2>4, UnseenStutters DEF Seen, Held
<1>2. CASE TakeRequest(t)
  <2>1. /\ queue # <<>> /\ Dummy \notin Queued
        /\ sock' = [sock EXCEPT ![t] = Head(queue)] /\ pc' = [pc EXCEPT ![t] = "serve"]
    BY <1>2, TakenRequest
  <2>2. /\ pc[t] = "take" /\ queue' = Tail(queue)
        /\ UNCHANGED <<threadStop, pagesServed, client, open, reply>>
    BY <1>2 DEF TakeRequest
  <2>3. mainPc \notin {"join", "ended"} /\ mainPc' \notin {"join", "ended"}
    <3>1. mainPc \notin {"join", "ended"}
      BY <2>2, AfterCleanup
    <3> QED
      BY <1>2, <3>1 DEF TakeRequest, SignalNonFull
  <2>4. Line = queue /\ Line' = Tail(queue)
    BY <2>2, <2>3 DEF Line
  <2>5. InHand("serve")' = InHand("serve") \cup {Head(queue)}
    BY <1>a, <2>1, <2>2 DEF InHand
  <2>6. UNCHANGED <<InHand("count"), InHand("close"), Gone>>
    BY <1>a, <2>1, <2>2 DEF InHand, Gone
  <2>7. \A u \in Threads : pc'[u] # "take"
    BY <1>a, <2>1, <2>2 DEF Inv, LockInv
  <2>8. /\ Phase \in {"open", "last call"}
        /\ Phase' = IF Phase = "open" THEN "open" ELSE "closing"
    BY <2>2, <2>3, <2>7 DEF Phase
  <2>9. ServiceSpec!Call
    BY <2>1, <2>2, <2>4, <2>5, <2>6, <2>8 DEF ServiceSpec!Call
  <2> QED
    BY <2>9 DEF ServiceSpec!Next
<1>c. ASSUME pc[t] \in Held, NEW m \in {"count", "close", "acquire"},
             pc' = [pc EXCEPT ![t] = m], UNCHANGED <<queue, threadStop, mainPc>>
      PROVE  UNCHANGED <<Phase, Line>>
  <2>1. \A u \in Threads : pc[u] = "take" <=> pc'[u] = "take"
    BY <1>a, <1>c DEF Held
  <2> QED
    BY <1>c, <2>1 DEF Phase, Line
<1>3. CASE Serve(t)
  <2>1. PICK r \in {"200", "404", "403", "nothing"} :
          /\ reply' = [reply EXCEPT ![sock[t]] = r]
          /\ pc' = [pc EXCEPT ![t] = IF r = "200" THEN "count" ELSE "close"]
    BY <1>3 DEF Serve
  <2>2. /\ pc[t] = "serve" /\ pc[t] \in Held
        /\ UNCHANGED <<queue, threadStop, pagesServed, sock, mainPc, client, open>>
    BY <1>3 DEF Serve, Held
  <2>3. sock[t] \in Conns /\ sock[t] \in open
    BY <2>2, HandFacts
  <2>4. UNCHANGED Gone
    BY <1>a, <2>1, <2>2, <2>3 DEF Gone
  <2>5. sock[t] \in InHand("serve")
    BY <2>2 DEF InHand
  <2>6. CASE r = "200"
    <3>1. pc' = [pc EXCEPT ![t] = "count"]
      BY <2>1, <2>6
    <3>2. UNCHANGED <<Phase, Line>>
      BY <1>c, <2>2, <3>1
    <3>3. \A l : InHand(l)' = IF l = "count" THEN InHand(l) \cup {sock[t]}
                                             ELSE InHand(l) \ {sock[t]}
      BY <2>2, <3>1, HandMoves
    <3>4. /\ InHand("serve")' = InHand("serve") \ {sock[t]}
          /\ InHand("count")' = InHand("count") \cup {sock[t]}
      BY <3>3
    <3>5. UNCHANGED InHand("close")
      BY <1>a, <2>2, <3>1 DEF InHand
    <3>6. ServiceSpec!SendPage(sock[t])
      BY <2>2, <2>4, <2>5, <3>2, <3>4, <3>5 DEF ServiceSpec!SendPage
    <3> QED
      BY <2>3, <3>6 DEF ServiceSpec!Next
  <2>7. CASE r # "200"
    <3>1. pc' = [pc EXCEPT ![t] = "close"]
      BY <2>1, <2>7
    <3>2. UNCHANGED <<Phase, Line>>
      BY <1>c, <2>2, <3>1
    <3>3. \A l : InHand(l)' = IF l = "close" THEN InHand(l) \cup {sock[t]}
                                             ELSE InHand(l) \ {sock[t]}
      BY <2>2, <3>1, HandMoves
    <3>4. /\ InHand("serve")' = InHand("serve") \ {sock[t]}
          /\ InHand("close")' = InHand("close") \cup {sock[t]}
      BY <3>3
    <3>5. UNCHANGED InHand("count")
      BY <1>a, <2>2, <3>1 DEF InHand
    <3>6. ServiceSpec!SendNoPage(sock[t])
      BY <2>2, <2>4, <2>5, <3>2, <3>4, <3>5 DEF ServiceSpec!SendNoPage
    <3> QED
      BY <2>3, <3>6 DEF ServiceSpec!Next
  <2> QED
    BY <2>6, <2>7
<1>4. CASE CountPage(t)
  <2>1. /\ pc[t] = "count" /\ pc[t] \in Held
        /\ pc' = [pc EXCEPT ![t] = "close"] /\ pagesServed' = pagesServed + 1
        /\ UNCHANGED <<queue, threadStop, sock, mainPc, client, open, reply>>
    BY <1>4 DEF CountPage, Held
  <2>2. UNCHANGED <<Phase, Line>>
    BY <1>c, <2>1
  <2>3. \A l : InHand(l)' = IF l = "close" THEN InHand(l) \cup {sock[t]}
                                           ELSE InHand(l) \ {sock[t]}
    BY <2>1, HandMoves
  <2>4. /\ InHand("count")' = InHand("count") \ {sock[t]}
        /\ InHand("close")' = InHand("close") \cup {sock[t]}
    BY <2>3
  <2>5. UNCHANGED <<InHand("serve"), Gone>>
    BY <1>a, <2>1 DEF InHand, Gone
  <2>6. sock[t] \in InHand("count") /\ sock[t] \in Conns
    BY <2>1, HandFacts DEF InHand
  <2>7. ServiceSpec!CountPage(sock[t])
    BY <2>1, <2>2, <2>4, <2>5, <2>6 DEF ServiceSpec!CountPage
  <2> QED
    BY <2>6, <2>7 DEF ServiceSpec!Next
<1>5. CASE CloseClient(t)
  <2>1. /\ pc[t] = "close" /\ pc[t] \in Held
        /\ open' = open \ {sock[t]} /\ sock' = [sock EXCEPT ![t] = NoConn]
        /\ pc' = [pc EXCEPT ![t] = "acquire"]
        /\ UNCHANGED <<queue, threadStop, pagesServed, mainPc, client, reply>>
    BY <1>5 DEF CloseClient, Held
  <2>2. UNCHANGED <<Phase, Line>>
    BY <1>c, <2>1
  <2>3. /\ sock[t] \in Conns /\ sock[t] \in open
        /\ \A u \in Threads : sock[u] = sock[t] => u = t
    BY <2>1, HandFacts
  <2>4. InHand("close")' = InHand("close") \ {sock[t]}
    BY <1>a, <2>1, <2>3 DEF InHand
  <2>5. UNCHANGED <<InHand("serve"), InHand("count")>>
    BY <1>a, <2>1 DEF InHand
  <2>6. reply[sock[t]] # "none"
    BY <2>1 DEF Inv, ReplyInv
  <2>7. Gone' = Gone \cup {sock[t]}
    BY <1>a, <2>1, <2>3, <2>6 DEF Gone
  <2>8. sock[t] \in InHand("close")
    BY <2>1 DEF InHand
  <2>9. ServiceSpec!Leave(sock[t])
    BY <2>1, <2>2, <2>4, <2>5, <2>7, <2>8 DEF ServiceSpec!Leave
  <2> QED
    BY <2>3, <2>9 DEF ServiceSpec!Next
<1> QED
  BY <1>1, <1>2, <1>3, <1>4, <1>5 DEF ThreadStep

(* main is the only one that accepts connections and takes the server down. *)
LEMMA MainStepSimulation ==
  ASSUME Inv, MainStep
  PROVE  [ServiceSpec!Next]_(ServiceSpec!vars)
<1>a. /\ pc \in [Threads -> {"acquire", "wait", "take", "serve", "count", "close", "exited"}]
      /\ reply \in [Conns -> {"none", "200", "400", "403", "404", "nothing"}]
      /\ open \in SUBSET Conns
      /\ client \in Conns \cup {NoConn} /\ NoConn \notin Conns \cup {Dummy}
      /\ Dummy \notin Conns
  BY ServerAssumption DEF Inv, TypeOK
<1>b. threadStop <=> mainPc \in {"unblock", "sleep to stop", "join", "ended"}
  BY DEF Inv, StopInv
<1>c. mainPc \in {"read", "queue", "sleep to queue"} <=> client # NoConn
  BY DEF Inv, HandsInv
<1> USE DEF pool, hist
<1>d. ASSUME \A u \in Threads : pc[u] \in Held \/ pc'[u] \in Held => pc'[u] = pc[u],
             UNCHANGED sock
      PROVE  UNCHANGED <<InHand("serve"), InHand("count"), InHand("close")>>
  BY <1>d, HandsKept DEF Held
<1>e. ASSUME UNCHANGED <<pc, sock>>
      PROVE  UNCHANGED <<InHand("serve"), InHand("count"), InHand("close")>>
  BY <1>e DEF InHand
<1>1. CASE SetUp \/ SetUpFails \/ KeepRunning \/ Stop \/ GoodRequest \/ WaitToQueue
           \/ WaitToUnblock
  <2>1. UNCHANGED <<queue, threadStop, pagesServed, pc, sock, client, open, reply>>
    BY <1>1 DEF SetUp, SetUpFails, KeepRunning, Stop, GoodRequest, WaitToQueue, WaitToUnblock
  <2>2. mainPc \notin {"join", "ended"} /\ mainPc' \notin {"join", "ended"}
    BY <1>1 DEF SetUp, SetUpFails, KeepRunning, Stop, GoodRequest, WaitToQueue, WaitToUnblock
  <2>3. UNCHANGED <<Phase, Line, Gone>>
    BY <2>1, <2>2 DEF Phase, Line, Gone
  <2> QED
    BY <1>e, <2>1, <2>3, UnseenStutters DEF Seen
<1>2. CASE Reap
  <2>1. /\ mainPc = "reap" /\ mainPc' = "select"
        /\ pc' = [t \in Threads |-> IF pc[t] = "exited" THEN "acquire" ELSE pc[t]]
        /\ UNCHANGED <<queue, threadStop, pagesServed, sock, client, open, reply>>
    BY <1>2 DEF Reap
  <2>2. \A u \in Threads : pc[u] \in Held \/ pc'[u] \in Held => pc'[u] = pc[u]
    BY <2>1 DEF Held
  <2>3. UNCHANGED <<Phase, Line, Gone>>
    BY <1>b, <2>1 DEF Phase, Line, Gone
  <2> QED
    BY <1>d, <2>1, <2>2, <2>3, UnseenStutters DEF Seen
<1>3. ASSUME NEW c \in Conns, Accept(c)
      PROVE  [ServiceSpec!Next]_(ServiceSpec!vars)
  <2>1. /\ mainPc = "select" /\ mainPc' = "read"
        /\ c \notin open /\ reply[c] = "none" /\ open' = open \cup {c} /\ client' = c
        /\ UNCHANGED <<queue, threadStop, pagesServed, pc, sock, reply>>
    BY <1>3 DEF Accept
  <2>2. Phase = "open" /\ Phase' = "open" /\ Line = queue /\ Line' = queue
    BY <1>b, <2>1 DEF Phase, Line
  <2>3. /\ {client} \ {NoConn} = {} /\ {client'} \ {NoConn} = {c}
        /\ c # NoConn /\ c # Dummy
    BY <1>a, <1>c, <2>1
  <2>4. c \notin Gone /\ UNCHANGED Gone
    BY <2>1 DEF Gone
  <2>5. c \notin {Line[i] : i \in DOMAIN Line}
    BY <2>1, <2>2, <2>3 DEF Inv, OneHolder, Queued
  <2>6. \A l : c \notin InHand(l)
    BY <2>1, <2>3 DEF Inv, OneHolder, InHand
  <2>7. c \notin ServiceSpec!Known
    BY <2>3, <2>4, <2>5, <2>6 DEF ServiceSpec!Known, ServiceSpec!InLine
  <2>8. ServiceSpec!Arrive(c)
    BY <1>e, <2>1, <2>2, <2>3, <2>4, <2>7 DEF ServiceSpec!Arrive
  <2> QED
    BY <2>8 DEF ServiceSpec!Next
<1>4. CASE BadRequest \/ ReadFails
  <2>1. PICK r \in {"400", "nothing"} : reply' = [reply EXCEPT ![client] = r]
    BY <1>4 DEF BadRequest, ReadFails
  <2>2. /\ mainPc = "read" /\ mainPc' \in {"reap", "stopping"}
        /\ open' = open \ {client} /\ client' = NoConn
        /\ UNCHANGED <<queue, threadStop, pagesServed, pc, sock>>
    BY <1>4 DEF BadRequest, ReadFails
  <2>3. client \in Conns /\ client # NoConn
    BY <1>a, <1>c, <2>2
  <2>4. UNCHANGED <<Phase, Line>>
    BY <1>b, <2>2 DEF Phase, Line
  <2>5. Gone' = Gone \cup {client}
    BY <1>a, <2>1, <2>2, <2>3 DEF Gone
  <2>6. ServiceSpec!Refuse(client)
    BY <1>e, <2>2, <2>3, <2>4, <2>5 DEF ServiceSpec!Refuse
  <2> QED
    BY <2>3, <2>6 DEF ServiceSpec!Next
<1>5. CASE QueueRequest
  <2>1. /\ mainPc = "queue" /\ mainPc' = "reap" /\ ~IsFull
        /\ queue' = Append(queue, client) /\ client' = NoConn
        /\ UNCHANGED <<threadStop, pagesServed, sock, open, reply>>
    BY <1>5 DEF QueueRequest
  <2>2. client \in Conns /\ client # NoConn
    BY <1>a, <1>c, <2>1
  <2>3. Phase = "open" /\ Phase' = "open" /\ Line = queue /\ Line' = queue'
    BY <1>b, <2>1 DEF Phase, Line
  <2>4. Len(Line) < MaxSize
    <3>1. Len(queue) \in Nat /\ Len(queue) <= MaxSize /\ MaxSize \in Nat
      <4>1. queue \in Seq(Conns \cup {Dummy}) /\ Len(queue) <= MaxSize
        BY DEF Inv, TypeOK
      <4> QED
        BY <4>1, ServerAssumption
    <3> QED
      BY <2>1, <2>3, <3>1 DEF IsFull
  <2>5. \A u \in Threads : pc[u] \in Held \/ pc'[u] \in Held => pc'[u] = pc[u]
    BY <1>5, SignalFacts DEF QueueRequest, Inv, Held
  <2>6. UNCHANGED Gone
    BY <2>1 DEF Gone
  <2>7. ServiceSpec!LineUp(client)
    BY <1>d, <2>1, <2>2, <2>3, <2>4, <2>5, <2>6 DEF ServiceSpec!LineUp
  <2> QED
    BY <2>2, <2>7 DEF ServiceSpec!Next
<1>6. CASE SetStopFlag
  <2>1. /\ mainPc = "stopping" /\ mainPc' = "unblock" /\ threadStop'
        /\ UNCHANGED <<queue, pagesServed, pc, sock, client, open, reply>>
    BY <1>6 DEF SetStopFlag
  <2>2. Phase = "open" /\ Line = queue /\ Line' = queue /\ {client} \ {NoConn} = {}
    BY <1>b, <1>c, <2>1 DEF Phase, Line
  <2>3. Phase' = "closing" \/ (Phase' = "last call" /\ Line # <<>>)
    <3>1. (\E t \in Threads : pc[t] = "take") => queue # <<>>
      BY DEF Inv, LockInv
    <3> QED
      BY <2>1, <2>2, <3>1 DEF Phase
  <2>4. UNCHANGED Gone
    BY <2>1 DEF Gone
  <2>5. ServiceSpec!TakeDown
    BY <1>e, <2>1, <2>2, <2>3, <2>4 DEF ServiceSpec!TakeDown
  <2> QED
    BY <2>5 DEF ServiceSpec!Next
<1>7. CASE UnblockPool
  <2>1. /\ mainPc = "unblock" /\ mainPc' = "join" /\ queueMtx = NoThread
        /\ queue' = Append(queue, Dummy)
        /\ pc' = [t \in Threads |-> IF pc[t] = "wait" THEN "acquire" ELSE pc[t]]
        /\ UNCHANGED <<threadStop, pagesServed, sock, client, open, reply>>
    BY <1>7 DEF UnblockPool
  <2>2. Line = queue /\ Line' = queue
    <3>1. queue \in Seq(Conns \cup {Dummy})
      BY DEF Inv, TypeOK
    <3>2. SubSeq(Append(queue, Dummy), 1, Len(Append(queue, Dummy)) - 1) = queue
      BY <3>1
    <3> QED
      BY <2>1, <3>2 DEF Line
  <2>3. \A u \in Threads : pc[u] # "take" /\ pc'[u] # "take"
    BY <2>1, ServerAssumption DEF Inv, LockInv
  <2>4. UNCHANGED <<Phase, Gone>>
    BY <1>b, <2>1, <2>3 DEF Phase, Gone
  <2>5. \A u \in Threads : pc[u] \in Held \/ pc'[u] \in Held => pc'[u] = pc[u]
    BY <2>1 DEF Held
  <2> QED
    BY <1>d, <2>1, <2>2, <2>4, <2>5, UnseenStutters DEF Seen
<1>8. CASE JoinPool
  <2>1. /\ mainPc = "join" /\ mainPc' = "ended" /\ \A t \in Threads : pc[t] = "exited"
        /\ UNCHANGED <<queue, threadStop, pagesServed, pc, sock, client, open, reply>>
    BY <1>8 DEF JoinPool
  <2>2. Phase = "closing" /\ Phase' = "closed"
    BY <1>b, <2>1 DEF Phase
  <2>3. InHand("serve") = {} /\ InHand("count") = {} /\ InHand("close") = {}
    BY <2>1 DEF InHand
  <2>4. UNCHANGED <<Line, Gone>>
    BY <2>1 DEF Line, Gone
  <2>5. ServiceSpec!End
    BY <1>e, <2>1, <2>2, <2>3, <2>4 DEF ServiceSpec!End
  <2> QED
    BY <2>5 DEF ServiceSpec!Next
<1> QED
  BY <1>1, <1>2, <1>3, <1>4, <1>5, <1>6, <1>7, <1>8 DEF MainStep, HandleRequest, CleanUp

LEMMA StepSimulation ==
  ASSUME Inv, [Next]_vars
  PROVE  [ServiceSpec!Next]_(ServiceSpec!vars)
<1>1. ASSUME NEW t \in Threads, SpuriousWakeup(t)
      PROVE  [ServiceSpec!Next]_(ServiceSpec!vars)
  <2>1. /\ pc[t] = "wait" /\ pc' = [pc EXCEPT ![t] = "acquire"]
        /\ UNCHANGED <<queue, threadStop, pagesServed, sock, mainPc, client, open, reply>>
    BY <1>1 DEF SpuriousWakeup, Goto, pool, hist
  <2>2. \A u \in Threads : /\ pc[u] \in Held \/ pc'[u] \in Held => pc'[u] = pc[u]
                           /\ pc[u] = "take" <=> pc'[u] = "take"
    BY <2>1 DEF Inv, TypeOK, Held
  <2>3. UNCHANGED <<Phase, Line, Gone>>
    BY <2>1, <2>2 DEF Phase, Line, Gone
  <2>4. \A l \in Held : UNCHANGED InHand(l)
    BY <2>1, <2>2, HandsKept
  <2> QED
    BY <2>1, <2>3, <2>4, UnseenStutters DEF Seen, Held
<1>2. CASE SpuriousWakeupOfMain
  <2>1. /\ mainPc \notin {"join", "ended"} /\ mainPc' \notin {"join", "ended"}
        /\ UNCHANGED <<queue, threadStop, pagesServed, pc, sock, client, open, reply>>
    BY <1>2 DEF SpuriousWakeupOfMain, SignalNonFull, pool, hist
  <2>2. UNCHANGED Seen
    BY <2>1 DEF Seen, Phase, Line, Gone, InHand
  <2> QED
    BY <2>2, UnseenStutters
<1>3. CASE UNCHANGED vars
  <2>1. UNCHANGED Seen
    BY <1>3 DEF Seen, Phase, Line, Gone, InHand, vars, pool, hist
  <2> QED
    BY <2>1, UnseenStutters
<1> QED
  BY <1>1, <1>2, <1>3, ThreadStepSimulation, MainStepSimulation DEF Next, Terminated

LEMMA InitSimulation ==
  ASSUME Init
  PROVE  ServiceSpec!Init
<1>1. Phase = "open" /\ Line = <<>> /\ Gone = {}
  BY DEF Init, Phase, Line, Gone
<1>2. InHand("serve") = {} /\ InHand("count") = {} /\ InHand("close") = {}
  BY DEF Init, InHand
<1>3. {client} \ {NoConn} = {} /\ pagesServed = 0
  BY DEF Init
<1> QED
  BY <1>1, <1>2, <1>3 DEF ServiceSpec!Init

(* Whoever looks at the server from outside sees the service of Service:   *)
(* for every number of threads and connections and every size of the       *)
(* queue, the threads, the mutex, the signals and the element of cleanup   *)
(* do not show.                                                            *)
THEOREM ServiceKept == Spec => ServicePromise
<1>1. Init => ServiceSpec!Init
  BY InitSimulation
<1>2. Inv /\ [Next]_vars => [ServiceSpec!Next]_(ServiceSpec!vars)
  BY StepSimulation
<1> QED
  BY <1>1, <1>2, Invariance, PTL DEF Spec, ServicePromise, ServiceSpec!Spec
=============================================================================
