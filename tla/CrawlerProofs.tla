---------------------------- MODULE CrawlerProofs ----------------------------
(***************************************************************************)
(* Proofs about the thread pool of the crawler: for every number of        *)
(* threads, every site and every behaviour of the server.                  *)
(***************************************************************************)
EXTENDS Crawler, SequenceLemmas, FiniteSetTheorems, TLAPS

-----------------------------------------------------------------------------
(* The inductive invariant, in parts. *)

(* A thread between the two updates of threadsInProgress holds a URL. *)
HoldsUrl ==
  \A t \in Threads : /\ url[t] \in Urls \cup {NoUrl}
                     /\ pc[t] \in BusyPc => url[t] \in Urls

(* DUMMY is queued after threadStop was set, and never behind the back of  *)
(* a thread that has read the flag as 0 and is about to take a URL.        *)
DummyMeansStop ==
  /\ Dummy \in Queued => threadStop
  /\ mainPc = "wake" => threadStop
  /\ \A t \in Threads :
       /\ pc[t] = "take" => queue # <<>> /\ Dummy \notin Queued
       /\ pc[t] = "wake" => threadStop

PoolInv == TypeOK /\ CriticalSection /\ HoldsUrl /\ DummyMeansStop

(* A URL is in the queue once, before it is requested and after it was     *)
(* entered in the table.                                                   *)
QueueInv ==
  /\ Queued \subseteq table \cup {Dummy}
  /\ \A u \in Urls : /\ requests[u] <= 1
                     /\ requests[u] > 0 => u \in table /\ u \notin Queued
  /\ \A i, j \in DOMAIN queue : queue[i] = queue[j] => i = j \/ queue[i] = Dummy

(* What newLinks counts, and who still has to broadcast. *)
WakeupInv ==
  /\ \A t \in Threads : pc[t] \in {"parse", "link"} => newLinks[t] >= Len(links[t])
  /\ queue # <<>> /\ (\E w \in Threads : pc[w] = "wait")
       => \E t \in Threads : pc[t] = "link" /\ newLinks[t] > Len(links[t])

(* Who has left, or was created again, saw the flag or will see it. *)
NullDirInv ==
  /\ NullDirUnused
  /\ \A t \in Threads : pc[t] = "exited" \/ ~saveDir[t] => threadStop

Inv == TypeOK /\ CriticalSection /\ HoldsUrl /\ DummyMeansStop
       /\ QueueInv /\ WakeupInv /\ NullDirInv /\ InProgressExact

-----------------------------------------------------------------------------
(* Each part of the invariant is preserved by every step. *)

LEMMA TypeOKStep ==
  ASSUME Inv, [Next]_vars
  PROVE  TypeOK'
<1> USE CrawlerAssumption DEF Inv, TypeOK, ThreadPc, MainPc, BusyPc, shared,
        locals, main, Goto, Woken
<1>1. ASSUME NEW t \in Threads, ThreadStep(t)
      PROVE  TypeOK'
  <2>1. CASE WaitForUrl(t) \/ ExitThread(t) \/ PassStopCheck(t)
    BY <2>1 DEF WaitForUrl, ExitThread, PassStopCheck
  <2>2. CASE TakeUrl(t)
    <3>1. queue # <<>>
      BY <2>2 DEF TakeUrl, DummyMeansStop
    <3>2. Head(queue) \in Urls \cup {Dummy} /\ Tail(queue) \in Seq(Urls \cup {Dummy})
      BY <3>1, TailFacts
    <3> QED
      BY <2>2, <3>2 DEF TakeUrl
  <2>3. CASE EndRequest(t)
    <3>1. t \in Busy /\ IsFiniteSet(Busy)
      BY <2>3, FS_Subset DEF EndRequest, Busy
    <3>2. Cardinality(Busy) \in Nat /\ Cardinality(Busy) # 0
      BY <3>1, FS_CardinalityType, FS_EmptySet
    <3>3. threadsInProgress - 1 \in Nat
      BY <3>2 DEF InProgressExact
    <3> QED
      BY <2>3, <3>3 DEF EndRequest
  <2>4. CASE Abandon(t) \/ NoContent(t) \/ StopCrawl(t)
    BY <2>4 DEF Abandon, NoContent, StopCrawl
  <2>5. CASE WakePool(t)
    BY <2>5 DEF WakePool
  <2>6. CASE ReceivePage(t)
    BY <2>6 DEF ReceivePage, HoldsUrl
  <2>7. CASE LockQueue(t)
    BY <2>7 DEF LockQueue
  <2>8. CASE AddLink(t)
    <3>1. Head(links[t]) \in Urls /\ Tail(links[t]) \in Seq(Urls)
      BY <2>8, TailFacts DEF AddLink
    <3>2. Append(queue, Head(links[t])) \in Seq(Urls \cup {Dummy})
      BY <3>1, AppendFacts
    <3>3. queue' \in Seq(Urls \cup {Dummy}) /\ table' \in SUBSET Urls
      BY <2>8, <3>1, <3>2 DEF AddLink
    <3>4. newLinks' \in [Threads -> Int] /\ links' \in [Threads -> Seq(Urls)]
      BY <2>8, <3>1 DEF AddLink
    <3>5. queueMtx' \in Threads \cup {NoThread}
      BY <2>8 DEF AddLink
    <3> QED
      BY <2>8, <3>3, <3>4, <3>5 DEF AddLink
  <2>9. CASE AnnounceLinks(t) \/ CheckLastPage(t) \/ FinishCrawl(t)
    <3>1. Append(queue, Dummy) \in Seq(Urls \cup {Dummy})
      BY AppendFacts
    <3>2. CASE AnnounceLinks(t)
      BY <3>2 DEF AnnounceLinks
    <3>3. CASE CheckLastPage(t)
      BY <3>3 DEF CheckLastPage
    <3>4. CASE FinishCrawl(t)
      BY <3>1, <3>4 DEF FinishCrawl
    <3> QED
      BY <2>9, <3>2, <3>3, <3>4
  <2> QED
    BY <1>1, <2>1, <2>2, <2>3, <2>4, <2>5, <2>6, <2>7, <2>8, <2>9 DEF ThreadStep
<1>2. ASSUME NEW t \in Threads, SpuriousWakeup(t)
      PROVE  TypeOK'
  BY <1>2 DEF SpuriousWakeup
<1>3. CASE Serve
  BY <1>3 DEF Serve, SetUp, Poll, StartJE, Reap, EndReap, KeepRunning
<1>4. CASE TakeDown
  BY <1>4 DEF TakeDown, SetUpFails, StartJEFails, Stop, CommandError
<1>5. CASE CleanUp
  <2>1. Append(queue, Dummy) \in Seq(Urls \cup {Dummy})
    BY AppendFacts
  <2>2. CASE SetStopFlag \/ JoinPool
    BY <2>2 DEF SetStopFlag, JoinPool
  <2>3. CASE UnblockPool
    BY <2>1, <2>3 DEF UnblockPool
  <2> QED
    BY <1>5, <2>2, <2>3 DEF CleanUp
<1>6. CASE UNCHANGED vars
  BY <1>6 DEF vars
<1> QED
  BY <1>1, <1>2, <1>3, <1>4, <1>5, <1>6 DEF Next, MainStep, Terminated

(* The early unlock of the loop never happens: what is queued is in the    *)
(* table.                                                                  *)
LEMMA NeverQueuedTwice ==
  ASSUME Inv, NEW l \in Urls, l \notin table
  PROVE  l \notin Queued
BY CrawlerAssumption DEF Inv, QueueInv

LEMMA CriticalSectionStep ==
  ASSUME Inv, [Next]_vars
  PROVE  CriticalSection'
<1>1. \A l \in Urls : l \notin table => l \notin Queued
  BY NeverQueuedTwice
<1> USE CrawlerAssumption DEF Inv, TypeOK, CriticalSection, shared, locals,
        main, Goto, Woken
<1>2. ASSUME NEW t \in Threads, ThreadStep(t)
      PROVE  CriticalSection'
  <2>1. CASE WaitForUrl(t) \/ ExitThread(t) \/ PassStopCheck(t)
    BY <2>1 DEF WaitForUrl, ExitThread, PassStopCheck
  <2>2. CASE TakeUrl(t) \/ EndRequest(t)
    BY <2>2 DEF TakeUrl, EndRequest
  <2>3. CASE Abandon(t) \/ NoContent(t) \/ StopCrawl(t) \/ WakePool(t)
    BY <2>3 DEF Abandon, NoContent, StopCrawl, WakePool
  <2>4. CASE ReceivePage(t) \/ LockQueue(t)
    BY <2>4 DEF ReceivePage, LockQueue
  <2>5. CASE AddLink(t)
    <3>1. Head(links[t]) \in Urls
      BY <2>5, TailFacts DEF AddLink
    <3>2. ~(Head(links[t]) \notin table /\ Head(links[t]) \in Queued)
      BY <3>1, <1>1
    <3>3. queueMtx' = queueMtx
      BY <2>5, <3>2 DEF AddLink
    <3>4. pc' = pc
      BY <2>5 DEF AddLink
    <3> QED
      BY <3>3, <3>4
  <2>6. CASE AnnounceLinks(t)
    BY <2>6 DEF AnnounceLinks
  <2>7. CASE CheckLastPage(t)
    BY <2>7 DEF CheckLastPage
  <2>8. CASE FinishCrawl(t)
    BY <2>8 DEF FinishCrawl
  <2> QED
    BY <1>2, <2>1, <2>2, <2>3, <2>4, <2>5, <2>6, <2>7, <2>8
       DEF ThreadStep
<1>3. ASSUME NEW t \in Threads, SpuriousWakeup(t)
      PROVE  CriticalSection'
  BY <1>3 DEF SpuriousWakeup
<1>4. CASE Serve
  BY <1>4 DEF Serve, SetUp, Poll, StartJE, Reap, EndReap, KeepRunning
<1>5. CASE TakeDown
  BY <1>5 DEF TakeDown, SetUpFails, StartJEFails, Stop, CommandError
<1>6. CASE CleanUp
  BY <1>6 DEF CleanUp, SetStopFlag, UnblockPool, JoinPool
<1>7. CASE UNCHANGED vars
  BY <1>7 DEF vars
<1> QED
  BY <1>2, <1>3, <1>4, <1>5, <1>6, <1>7 DEF Next, MainStep, Terminated

LEMMA HoldsUrlStep ==
  ASSUME Inv, [Next]_vars
  PROVE  HoldsUrl'
<1> USE CrawlerAssumption DEF Inv, TypeOK, HoldsUrl, BusyPc, shared, locals,
        main, Goto, Woken
<1>1. ASSUME NEW t \in Threads, ThreadStep(t)
      PROVE  HoldsUrl'
  <2>1. CASE WaitForUrl(t) \/ ExitThread(t) \/ PassStopCheck(t)
    BY <2>1 DEF WaitForUrl, ExitThread, PassStopCheck
  <2>2. CASE TakeUrl(t)
    <3>1. queue # <<>> /\ Dummy \notin Queued
      BY <2>2 DEF TakeUrl, DummyMeansStop
    <3>2. Head(queue) \in Urls
      BY <3>1, TailFacts DEF Queued
    <3> QED
      BY <2>2, <3>2 DEF TakeUrl
  <2>3. CASE EndRequest(t)
    BY <2>3 DEF EndRequest
  <2>4. CASE Abandon(t) \/ NoContent(t) \/ StopCrawl(t) \/ WakePool(t)
    BY <2>4 DEF Abandon, NoContent, StopCrawl, WakePool
  <2>5. CASE ReceivePage(t) \/ LockQueue(t) \/ AddLink(t)
    BY <2>5 DEF ReceivePage, LockQueue, AddLink
  <2>6. CASE AnnounceLinks(t) \/ CheckLastPage(t) \/ FinishCrawl(t)
    BY <2>6 DEF AnnounceLinks, CheckLastPage, FinishCrawl
  <2> QED
    BY <1>1, <2>1, <2>2, <2>3, <2>4, <2>5, <2>6 DEF ThreadStep
<1>2. ASSUME NEW t \in Threads, SpuriousWakeup(t)
      PROVE  HoldsUrl'
  BY <1>2 DEF SpuriousWakeup
<1>3. CASE Serve
  BY <1>3 DEF Serve, SetUp, Poll, StartJE, Reap, EndReap, KeepRunning
<1>4. CASE TakeDown
  BY <1>4 DEF TakeDown, SetUpFails, StartJEFails, Stop, CommandError
<1>5. CASE CleanUp
  BY <1>5 DEF CleanUp, SetStopFlag, UnblockPool, JoinPool
<1>6. CASE UNCHANGED vars
  BY <1>6 DEF vars
<1> QED
  BY <1>1, <1>2, <1>3, <1>4, <1>5, <1>6 DEF Next, MainStep, Terminated

(* Head, rest and growth of the queue, in terms of the set Queued. *)
LEMMA QueuedAppend ==
  ASSUME TypeOK, NEW e \in Urls \cup {Dummy}, queue' = Append(queue, e)
  PROVE  Queued' = Queued \cup {e} /\ queue' # <<>>
<1>1. queue \in Seq(Urls \cup {Dummy})
  BY DEF TypeOK
<1>2. {Append(queue, e)[i] : i \in DOMAIN Append(queue, e)}
        = {queue[i] : i \in DOMAIN queue} \cup {e}
  BY <1>1, AppendFacts
<1>3. Append(queue, e) # <<>>
  BY <1>1, AppendFacts
<1> QED
  BY <1>2, <1>3 DEF Queued

LEMMA QueuedTail ==
  ASSUME TypeOK, queue # <<>>, queue' = Tail(queue)
  PROVE  Queued' \subseteq Queued /\ Head(queue) \in Queued
BY TailFacts DEF TypeOK, Queued

LEMMA DummyMeansStopStep ==
  ASSUME Inv, [Next]_vars
  PROVE  DummyMeansStop'
<1> USE CrawlerAssumption DEF Inv, TypeOK, DummyMeansStop, shared, locals,
        main, Goto, Woken
<1>1. ASSUME UNCHANGED queue PROVE UNCHANGED Queued
  BY <1>1 DEF Queued
<1>2. ASSUME NEW t \in Threads, ThreadStep(t)
      PROVE  DummyMeansStop'
  <2>1. CASE WaitForUrl(t) \/ ExitThread(t) \/ PassStopCheck(t)
    BY <2>1, <1>1 DEF WaitForUrl, ExitThread, PassStopCheck
  <2>2. CASE TakeUrl(t)
    <3>1. queue # <<>> /\ Queued' \subseteq Queued
      BY <2>2, QueuedTail DEF TakeUrl
    <3> QED
      BY <2>2, <3>1 DEF TakeUrl, CriticalSection
  <2>3. CASE EndRequest(t)
    BY <2>3, <1>1 DEF EndRequest
  <2>4. CASE Abandon(t) \/ NoContent(t) \/ StopCrawl(t)
    BY <2>4, <1>1 DEF Abandon, NoContent, StopCrawl
  <2>5. CASE WakePool(t)
    <3>1. queue' # <<>> /\ Queued' = Queued \cup {Dummy}
      BY <2>5, QueuedAppend DEF WakePool
    <3> QED
      BY <2>5, <3>1 DEF WakePool, CriticalSection
  <2>6. CASE ReceivePage(t) \/ LockQueue(t)
    BY <2>6, <1>1 DEF ReceivePage, LockQueue
  <2>7. CASE AddLink(t)
    <3>1. Head(links[t]) \in Urls
      BY <2>7, TailFacts DEF AddLink
    <3>2. \/ UNCHANGED queue
          \/ queue' = Append(queue, Head(links[t]))
      BY <2>7 DEF AddLink
    <3>3. Dummy \in Queued' => Dummy \in Queued
      BY <3>1, <3>2, <1>1, QueuedAppend
    <3> QED
      BY <2>7, <3>3, <3>2, <3>1, QueuedAppend DEF AddLink, CriticalSection
  <2>8. CASE AnnounceLinks(t) \/ CheckLastPage(t)
    BY <2>8, <1>1 DEF AnnounceLinks, CheckLastPage
  <2>9. CASE FinishCrawl(t)
    <3>1. queue' # <<>> /\ Queued' = Queued \cup {Dummy}
      BY <2>9, QueuedAppend DEF FinishCrawl
    <3> QED
      BY <2>9, <3>1 DEF FinishCrawl, CriticalSection
  <2> QED
    BY <1>2, <2>1, <2>2, <2>3, <2>4, <2>5, <2>6, <2>7, <2>8, <2>9 DEF ThreadStep
<1>3. ASSUME NEW t \in Threads, SpuriousWakeup(t)
      PROVE  DummyMeansStop'
  BY <1>3, <1>1 DEF SpuriousWakeup
<1>4. CASE Serve
  BY <1>4, <1>1 DEF Serve, SetUp, Poll, StartJE, Reap, EndReap, KeepRunning
<1>5. CASE TakeDown
  BY <1>5, <1>1 DEF TakeDown, SetUpFails, StartJEFails, Stop, CommandError
<1>6. CASE CleanUp
  <2>1. CASE SetStopFlag \/ JoinPool
    BY <2>1, <1>1 DEF SetStopFlag, JoinPool
  <2>2. CASE UnblockPool
    <3>1. queue' # <<>> /\ Queued' = Queued \cup {Dummy}
      BY <2>2, QueuedAppend DEF UnblockPool
    <3> QED
      BY <2>2, <3>1 DEF UnblockPool, CriticalSection
  <2> QED
    BY <1>6, <2>1, <2>2 DEF CleanUp
<1>7. CASE UNCHANGED vars
  BY <1>7, <1>1 DEF vars
<1> QED
  BY <1>2, <1>3, <1>4, <1>5, <1>6, <1>7 DEF Next, MainStep, Terminated

(* Only three steps of the pool touch the queue, the table or the requests. *)
LEMMA QueueInvStep ==
  ASSUME Inv, [Next]_vars
  PROVE  QueueInv'
<1>1. ASSUME UNCHANGED <<queue, table, requests>> PROVE QueueInv'
  BY <1>1 DEF Inv, QueueInv, Queued
<1>D. ASSUME queue' = Append(queue, Dummy), UNCHANGED <<table, requests>>
      PROVE  QueueInv'
  <2>1. Queued' = Queued \cup {Dummy}
    BY <1>D, QueuedAppend DEF Inv
  <2>2. \A i, j \in DOMAIN queue' : queue'[i] = queue'[j] => i = j \/ queue'[i] = Dummy
    BY <1>D, AppendFacts DEF Inv, TypeOK, QueueInv
  <2> QED
    BY <1>D, <2>1, <2>2, CrawlerAssumption DEF Inv, QueueInv
<1>2. ASSUME NEW t \in Threads, ThreadStep(t)
      PROVE  QueueInv'
  <2>1. CASE WaitForUrl(t) \/ ExitThread(t) \/ PassStopCheck(t)
    BY <2>1, <1>1 DEF WaitForUrl, ExitThread, PassStopCheck, shared
  <2>2. CASE TakeUrl(t)
    <3> DEFINE u == Head(queue)
    <3>1. queue # <<>> /\ Dummy \notin Queued
      BY <2>2 DEF TakeUrl, Inv, DummyMeansStop
    <3>2. queue \in Seq(Urls \cup {Dummy})
      BY DEF Inv, TypeOK
    <3>3. u = queue[1] /\ 1 \in DOMAIN queue /\ u \in Queued
      BY <3>1, <3>2, TailFacts DEF Queued
    <3>4. u \in Urls /\ u \in table /\ requests[u] = 0
      BY <3>1, <3>2, <3>3, TailFacts DEF Inv, QueueInv, TypeOK
    <3>5. \A i \in DOMAIN queue' : /\ i \in Nat /\ i > 0 /\ i + 1 \in DOMAIN queue
                                   /\ queue'[i] = queue[i + 1]
      BY <2>2, <3>1, <3>2, TailFacts DEF TakeUrl
    <3>6. \A i \in DOMAIN queue' : queue'[i] \in Queued /\ queue'[i] # u
      BY <3>1, <3>3, <3>5 DEF Inv, QueueInv, Queued
    <3>7. Queued' \subseteq Queued \ {u}
      BY <3>6 DEF Queued
    <3>8. \A i, j \in DOMAIN queue' : queue'[i] = queue'[j] => i = j \/ queue'[i] = Dummy
      BY <3>5 DEF Inv, QueueInv
    <3>9. \A v \in Urls : requests'[v] = IF v = u THEN requests[v] + 1 ELSE requests[v]
      BY <2>2 DEF TakeUrl
    <3> QED
      BY <2>2, <3>4, <3>7, <3>8, <3>9 DEF TakeUrl, Inv, QueueInv, TypeOK
  <2>3. CASE EndRequest(t) \/ Abandon(t) \/ NoContent(t) \/ StopCrawl(t)
    BY <2>3, <1>1 DEF EndRequest, Abandon, NoContent, StopCrawl, shared
  <2>4. CASE WakePool(t) \/ FinishCrawl(t)
    BY <2>4, <1>D DEF WakePool, FinishCrawl
  <2>5. CASE ReceivePage(t) \/ LockQueue(t) \/ AnnounceLinks(t) \/ CheckLastPage(t)
    BY <2>5, <1>1 DEF ReceivePage, LockQueue, AnnounceLinks, CheckLastPage, shared
  <2>6. CASE AddLink(t)
    <3> DEFINE l == Head(links[t])
    <3>1. l \in Urls
      BY <2>6, TailFacts DEF AddLink, Inv, TypeOK
    <3>2. CASE l \in table
      <4>1. UNCHANGED <<queue, table, requests>>
        BY <2>6, <3>2 DEF AddLink
      <4> QED
        BY <4>1, <1>1
    <3>3. CASE l \notin table
      <4>1. l \notin Queued /\ requests[l] = 0
        BY <3>1, <3>3, NeverQueuedTwice DEF Inv, QueueInv, TypeOK
      <4>2. queue' = Append(queue, l)
        BY <2>6, <3>3, <4>1 DEF AddLink
      <4>3. table' = table \cup {l} /\ requests' = requests
        BY <2>6 DEF AddLink
      <4>4. Queued' = Queued \cup {l}
        BY <3>1, <4>2, QueuedAppend DEF Inv
      <4>5. \A i, j \in DOMAIN queue' : queue'[i] = queue'[j] => i = j \/ queue'[i] = Dummy
        <5>1. \A i \in DOMAIN queue : queue[i] # l
          BY <4>1 DEF Queued
        <5>2. \A i \in DOMAIN queue' : \/ i \in DOMAIN queue /\ queue'[i] = queue[i]
                                       \/ i = Len(queue) + 1 /\ queue'[i] = l
          BY <3>1, <4>2, AppendFacts DEF Inv, TypeOK
        <5> QED
          BY <5>1, <5>2 DEF Inv, QueueInv
      <4> QED
        BY <3>1, <4>1, <4>3, <4>4, <4>5 DEF Inv, QueueInv
    <3> QED
      BY <3>2, <3>3
  <2> QED
    BY <1>2, <2>1, <2>2, <2>3, <2>4, <2>5, <2>6 DEF ThreadStep
<1>3. ASSUME NEW t \in Threads, SpuriousWakeup(t)
      PROVE  QueueInv'
  BY <1>3, <1>1 DEF SpuriousWakeup, shared
<1>4. CASE Serve
  BY <1>4, <1>1 DEF Serve, SetUp, Poll, StartJE, Reap, EndReap, KeepRunning, shared
<1>5. CASE TakeDown
  BY <1>5, <1>1 DEF TakeDown, SetUpFails, StartJEFails, Stop, CommandError, shared
<1>6. CASE CleanUp
  BY <1>6, <1>1, <1>D DEF CleanUp, SetStopFlag, UnblockPool, JoinPool, shared
<1>7. CASE UNCHANGED vars
  BY <1>7, <1>1 DEF vars, shared
<1> QED
  BY <1>2, <1>3, <1>4, <1>5, <1>6, <1>7 DEF Next, MainStep, Terminated

LEMMA NullDirInvStep ==
  ASSUME Inv, [Next]_vars
  PROVE  NullDirInv'
<1> USE DEF Inv, TypeOK, NullDirInv, NullDirUnused, shared, locals, main, Goto, Woken
<1>1. ASSUME NEW t \in Threads, ThreadStep(t)
      PROVE  NullDirInv'
  <2>1. CASE WaitForUrl(t) \/ ExitThread(t) \/ PassStopCheck(t)
    BY <2>1 DEF WaitForUrl, ExitThread, PassStopCheck
  <2>2. CASE TakeUrl(t) \/ EndRequest(t)
    BY <2>2 DEF TakeUrl, EndRequest
  <2>3. CASE Abandon(t) \/ NoContent(t)
    BY <2>3 DEF Abandon, NoContent
  <2>4. CASE StopCrawl(t) \/ WakePool(t)
    BY <2>4 DEF StopCrawl, WakePool
  <2>5. CASE ReceivePage(t) \/ LockQueue(t)
    BY <2>5 DEF ReceivePage, LockQueue
  <2>6. CASE AddLink(t)
    BY <2>6 DEF AddLink
  <2>7. CASE AnnounceLinks(t)
    BY <2>7 DEF AnnounceLinks
  <2>8. CASE CheckLastPage(t)
    BY <2>8 DEF CheckLastPage
  <2>9. CASE FinishCrawl(t)
    BY <2>9 DEF FinishCrawl
  <2> QED
    BY <1>1, <2>1, <2>2, <2>3, <2>4, <2>5, <2>6, <2>7, <2>8, <2>9 DEF ThreadStep
<1>2. ASSUME NEW t \in Threads, SpuriousWakeup(t)
      PROVE  NullDirInv'
  BY <1>2 DEF SpuriousWakeup
<1>3. CASE Serve
  BY <1>3 DEF Serve, SetUp, Poll, StartJE, Reap, EndReap, KeepRunning
<1>4. CASE TakeDown
  BY <1>4 DEF TakeDown, SetUpFails, StartJEFails, Stop, CommandError
<1>5. CASE CleanUp
  BY <1>5 DEF CleanUp, SetStopFlag, UnblockPool, JoinPool
<1>6. CASE UNCHANGED vars
  BY <1>6 DEF vars
<1> QED
  BY <1>1, <1>2, <1>3, <1>4, <1>5, <1>6 DEF Next, MainStep, Terminated

LEMMA WakeupInvStep ==
  ASSUME Inv, [Next]_vars
  PROVE  WakeupInv'
<1>1. \A l \in Urls : l \notin table => l \notin Queued
  BY NeverQueuedTwice
<1> USE CrawlerAssumption DEF Inv, TypeOK, WakeupInv, shared, locals, main, Goto, Woken
<1>2. ASSUME NEW t \in Threads, ThreadStep(t)
      PROVE  WakeupInv'
  <2>1. CASE WaitForUrl(t) \/ ExitThread(t) \/ PassStopCheck(t)
    BY <2>1 DEF WaitForUrl, ExitThread, PassStopCheck
  <2>2. CASE TakeUrl(t)
    <3>1. queue # <<>>
      BY <2>2 DEF TakeUrl, DummyMeansStop
    <3>2. ~ \E w \in Threads : pc'[w] = "wait"
      <4>1. \A v \in Threads : pc[v] # "link"
        BY <2>2 DEF TakeUrl, CriticalSection
      <4>2. ~ \E w \in Threads : pc[w] = "wait"
        BY <3>1, <4>1
      <4> QED
        BY <2>2, <4>2 DEF TakeUrl
    <3> QED
      BY <2>2, <3>2 DEF TakeUrl
  <2>3. CASE EndRequest(t)
    BY <2>3 DEF EndRequest
  <2>4. CASE Abandon(t) \/ NoContent(t)
    BY <2>4 DEF Abandon, NoContent
  <2>5. CASE StopCrawl(t)
    BY <2>5 DEF StopCrawl
  <2>6. CASE WakePool(t)
    <3>1. \A w \in Threads : pc'[w] # "wait" /\ (pc'[w] \in {"parse", "link"} => pc[w] = pc'[w])
      BY <2>6 DEF WakePool
    <3> QED
      BY <2>6, <3>1 DEF WakePool
  <2>7. CASE ReceivePage(t)
    <3>1. Links[url[t]] \in Seq(Urls)
      BY <2>7 DEF ReceivePage, HoldsUrl, BusyPc
    <3> QED
      BY <2>7, <3>1 DEF ReceivePage
  <2>8. CASE LockQueue(t)
    BY <2>8 DEF LockQueue
  <2>9. CASE AddLink(t)
    <3> DEFINE l     == Head(links[t])
               isNew == l \notin table
    <3>1. l \in Urls /\ Len(links'[t]) = Len(links[t]) - 1
      BY <2>9, TailFacts DEF AddLink
    <3>2. ~(isNew /\ l \in Queued)
      BY <3>1, <1>1
    <3>3. newLinks'[t] = IF isNew THEN newLinks[t] ELSE newLinks[t] - 1
      BY <2>9, <3>2 DEF AddLink
    <3>4. ~isNew => queue' = queue
      BY <2>9 DEF AddLink
    <3>5. /\ pc' = pc /\ pc[t] = "link"
          /\ \A w \in Threads \ {t} : newLinks'[w] = newLinks[w] /\ links'[w] = links[w]
      BY <2>9 DEF AddLink
    <3>6. newLinks'[t] >= Len(links'[t]) /\ (isNew => newLinks'[t] > Len(links'[t]))
      BY <3>1, <3>3, <3>5
    <3>7. ~isNew /\ newLinks[t] > Len(links[t]) => newLinks'[t] > Len(links'[t])
      BY <3>1, <3>3
    <3>8. CASE isNew
      BY <3>5, <3>6, <3>8
    <3>9. CASE ~isNew
      BY <3>4, <3>5, <3>6, <3>7, <3>9
    <3> QED
      BY <3>8, <3>9
  <2>10. CASE AnnounceLinks(t)
    <3>1. \A w \in Threads : pc'[w] # "wait" /\ (pc'[w] \in {"parse", "link"} => pc[w] = pc'[w])
      BY <2>10 DEF AnnounceLinks
    <3> QED
      BY <2>10, <3>1 DEF AnnounceLinks
  <2>11. CASE CheckLastPage(t)
    <3>1. \A v \in Threads : pc[v] = "link" => v = t
      BY <2>11 DEF CheckLastPage, CriticalSection
    <3>2. ~(newLinks[t] > Len(links[t]))
      BY <2>11 DEF CheckLastPage
    <3>3. ~(queue # <<>> /\ \E w \in Threads : pc[w] = "wait")
      BY <3>1, <3>2
    <3> QED
      BY <2>11, <3>3 DEF CheckLastPage
  <2>12. CASE FinishCrawl(t)
    <3>1. \A w \in Threads : pc'[w] # "wait" /\ (pc'[w] \in {"parse", "link"} => pc[w] = pc'[w])
      BY <2>12 DEF FinishCrawl
    <3> QED
      BY <2>12, <3>1 DEF FinishCrawl
  <2> QED
    BY <1>2, <2>1, <2>2, <2>3, <2>4, <2>5, <2>6, <2>7, <2>8, <2>9, <2>10, <2>11, <2>12
       DEF ThreadStep
<1>3. ASSUME NEW t \in Threads, SpuriousWakeup(t)
      PROVE  WakeupInv'
  BY <1>3 DEF SpuriousWakeup
<1>4. CASE Serve
  <2>1. CASE \E t \in Threads : Reap(t)
    <3>1. PICK t \in Threads : Reap(t)
      BY <2>1
    <3>2. \A w \in Threads : \A l \in {"wait", "parse", "link"} : pc'[w] = l <=> pc[w] = l
      BY <3>1 DEF Reap
    <3> QED
      BY <3>1, <3>2 DEF Reap
  <2> QED
    BY <1>4, <2>1 DEF Serve, SetUp, Poll, StartJE, EndReap, KeepRunning
<1>5. CASE TakeDown
  BY <1>5 DEF TakeDown, SetUpFails, StartJEFails, Stop, CommandError
<1>6. CASE CleanUp
  <2>1. CASE SetStopFlag \/ JoinPool
    BY <2>1 DEF SetStopFlag, JoinPool
  <2>2. CASE UnblockPool
    <3>1. \A w \in Threads : pc'[w] # "wait" /\ (pc'[w] \in {"parse", "link"} => pc[w] = pc'[w])
      BY <2>2 DEF UnblockPool
    <3> QED
      BY <2>2, <3>1 DEF UnblockPool
  <2> QED
    BY <1>6, <2>1, <2>2 DEF CleanUp
<1>7. CASE UNCHANGED vars
  BY <1>7 DEF vars
<1> QED
  BY <1>2, <1>3, <1>4, <1>5, <1>6, <1>7 DEF Next, MainStep, Terminated

(* The counter follows the set of busy threads: it is raised where a       *)
(* thread joins that set and lowered where it leaves it.                   *)
LEMMA InProgressExactStep ==
  ASSUME Inv, [Next]_vars
  PROVE  InProgressExact'
<1>1. IsFiniteSet(Busy)
  BY CrawlerAssumption, FS_Subset DEF Busy
<1>2. ASSUME UNCHANGED threadsInProgress,
             \A t \in Threads : pc'[t] \in BusyPc <=> pc[t] \in BusyPc
      PROVE  InProgressExact'
  <2>1. Busy' = Busy
    BY <1>2 DEF Busy
  <2> QED
    BY <1>2, <2>1 DEF InProgressExact, Inv
<1> USE DEF BusyPc, shared, locals, main, Goto, Woken
<1>3. ASSUME NEW t \in Threads, ThreadStep(t)
      PROVE  InProgressExact'
  <2>1. CASE WaitForUrl(t) \/ ExitThread(t) \/ PassStopCheck(t)
    BY <2>1, <1>2 DEF WaitForUrl, ExitThread, PassStopCheck, Inv, TypeOK
  <2>2. CASE TakeUrl(t)
    <3>1. Busy' = Busy \cup {t} /\ t \notin Busy
      BY <2>2 DEF TakeUrl, Busy, Inv, TypeOK
    <3>2. Cardinality(Busy') = Cardinality(Busy) + 1
      BY <3>1, <1>1, FS_AddElement
    <3> QED
      BY <2>2, <3>2 DEF TakeUrl, InProgressExact, Inv
  <2>3. CASE EndRequest(t)
    <3>1. Busy' = Busy \ {t} /\ t \in Busy
      BY <2>3 DEF EndRequest, Busy, Inv, TypeOK
    <3>2. Cardinality(Busy') = Cardinality(Busy) - 1
      BY <3>1, <1>1, FS_RemoveElement
    <3> QED
      BY <2>3, <3>2 DEF EndRequest, InProgressExact, Inv
  <2>4. CASE Abandon(t) \/ NoContent(t) \/ StopCrawl(t) \/ WakePool(t)
    BY <2>4, <1>2 DEF Abandon, NoContent, StopCrawl, WakePool, Inv, TypeOK
  <2>5. CASE ReceivePage(t) \/ LockQueue(t) \/ AddLink(t)
    BY <2>5, <1>2 DEF ReceivePage, LockQueue, AddLink, Inv, TypeOK
  <2>6. CASE AnnounceLinks(t) \/ CheckLastPage(t) \/ FinishCrawl(t)
    BY <2>6, <1>2 DEF AnnounceLinks, CheckLastPage, FinishCrawl, Inv, TypeOK
  <2> QED
    BY <1>3, <2>1, <2>2, <2>3, <2>4, <2>5, <2>6 DEF ThreadStep
<1>4. ASSUME NEW t \in Threads, SpuriousWakeup(t)
      PROVE  InProgressExact'
  BY <1>4, <1>2 DEF SpuriousWakeup, Inv, TypeOK
<1>5. CASE Serve
  BY <1>5, <1>2 DEF Serve, SetUp, Poll, StartJE, Reap, EndReap, KeepRunning, Inv, TypeOK
<1>6. CASE TakeDown
  BY <1>6, <1>2 DEF TakeDown, SetUpFails, StartJEFails, Stop, CommandError, Inv, TypeOK
<1>7. CASE CleanUp
  BY <1>7, <1>2 DEF CleanUp, SetStopFlag, UnblockPool, JoinPool, Inv, TypeOK
<1>8. CASE UNCHANGED vars
  BY <1>8, <1>2 DEF vars
<1> QED
  BY <1>3, <1>4, <1>5, <1>6, <1>7, <1>8 DEF Next, MainStep, Terminated

-----------------------------------------------------------------------------

LEMMA InvInit == Init => Inv
<1> SUFFICES ASSUME Init PROVE Inv
  OBVIOUS
<1> USE CrawlerAssumption DEF Init
<1>1. TypeOK
  <2>1. <<StartUrl>> \in Seq(Urls \cup {Dummy}) /\ <<>> \in Seq(Urls)
    OBVIOUS
  <2>2. pc \in [Threads -> ThreadPc] /\ mainPc \in MainPc
    BY DEF ThreadPc, MainPc
  <2>3. /\ queue \in Seq(Urls \cup {Dummy})
        /\ table \in SUBSET Urls
        /\ queueMtx \in Threads \cup {NoThread}
        /\ threadsInProgress \in Nat
    BY <2>1
  <2>4. /\ url \in [Threads -> Urls \cup {Dummy, NoUrl}]
        /\ links \in [Threads -> Seq(Urls)]
        /\ newLinks \in [Threads -> Int]
    BY <2>1
  <2>5. saveDir \in [Threads -> BOOLEAN]
    OBVIOUS
  <2>6. requests \in [Urls -> Nat]
    OBVIOUS
  <2> QED
    BY <2>2, <2>3, <2>4, <2>5, <2>6 DEF TypeOK
<1>2. CriticalSection
  BY DEF CriticalSection
<1>3. HoldsUrl
  BY DEF HoldsUrl, BusyPc
<1>4. Queued = {StartUrl}
  BY DEF Queued
<1>5. DummyMeansStop
  BY <1>4 DEF DummyMeansStop
<1>6. QueueInv
  BY <1>4 DEF QueueInv
<1>7. WakeupInv
  BY DEF WakeupInv
<1>8. NullDirInv
  BY DEF NullDirInv, NullDirUnused
<1>9. InProgressExact
  <2>1. Busy = {}
    BY DEF Busy, BusyPc
  <2> QED
    BY <2>1, FS_EmptySet DEF InProgressExact
<1> QED
  BY <1>1, <1>2, <1>3, <1>5, <1>6, <1>7, <1>8, <1>9 DEF Inv

LEMMA InvStep == Inv /\ [Next]_vars => Inv'
BY TypeOKStep, CriticalSectionStep, HoldsUrlStep, DummyMeansStopStep, QueueInvStep,
   WakeupInvStep, NullDirInvStep, InProgressExactStep DEF Inv

(* The inductive invariant holds throughout. *)
THEOREM Invariance == Spec => []Inv
BY InvInit, InvStep, PTL DEF Spec

(* Every variable of the crawler keeps its type. *)
THEOREM TypeCorrect == Spec => []TypeOK
<1>1. Inv => TypeOK
  BY DEF Inv
<1> QED
  BY <1>1, Invariance, PTL

(* The queue, the table and the decision that the crawl is over are only   *)
(* touched by the owner of queue_mtx, in spite of the unlock in the middle *)
(* of parseContent's loop.                                                 *)
THEOREM MutualExclusion == Spec => []CriticalSection
<1>1. Inv => CriticalSection
  BY DEF Inv
<1> QED
  BY <1>1, Invariance, PTL

(* However many threads find a link, the page is requested once. *)
THEOREM NoPageTwice == Spec => []FetchedOnce
<1>1. Inv => FetchedOnce
  BY DEF Inv, QueueInv, FetchedOnce
<1> QED
  BY <1>1, Invariance, PTL

(* DUMMY never reaches sendRequest. *)
THEOREM NoDummyRequest == Spec => []DummyNotRequested
<1>1. Inv => DummyNotRequested
  BY CrawlerAssumption DEF Inv, HoldsUrl, DummyNotRequested
<1> QED
  BY <1>1, Invariance, PTL

(* A thread created again with a NULL directory never uses it. *)
THEOREM NoNullDir == Spec => []NullDirUnused
<1>1. Inv => NullDirUnused
  BY DEF Inv, NullDirInv
<1> QED
  BY <1>1, Invariance, PTL

(* No thread sleeps while there is something in the queue. *)
THEOREM WakeupsKept == Spec => []NoLostWakeup
<1>1. Inv => NoLostWakeup
  BY CrawlerAssumption DEF Inv, WakeupInv, NoLostWakeup, CriticalSection, TypeOK
<1> QED
  BY <1>1, Invariance, PTL

(* threadsInProgress counts the threads that have a URL in hand. *)
THEOREM CounterExact == Spec => []InProgressExact
<1>1. Inv => InProgressExact
  BY DEF Inv
<1> QED
  BY <1>1, Invariance, PTL

=============================================================================
