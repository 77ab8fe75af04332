-------------------------- MODULE CrawlerRefinement --------------------------
(***************************************************************************)
(* The thread pool implements the crawl that is promised, as long as every *)
(* request is answered with a page: for every number of threads and every  *)
(* site, shut down or not.                                                 *)
(***************************************************************************)
EXTENDS CrawlerProofs

Reliable == \A u \in Urls : Outcomes[u] \subseteq {"page"}

Fetched == {u \in Urls : requests[u] > 0}

Working == {"request", "parse", "link"}

(* A page of the table was requested or waits in the queue. *)
TableCovered == \A u \in table : u \in Fetched \/ u \in Queued

(* Of a page that was requested every link is in the table, unless a       *)
(* thread has yet to receive the page or to reach that link.               *)
Ahead(t) == IF pc[t] = "request" THEN CrawlSpec!LinkedFrom(url[t])
            ELSE IF pc[t] \in {"parse", "link"} THEN {links[t][i] : i \in DOMAIN links[t]}
            ELSE {}

LinksCovered ==
  /\ \A u \in Fetched : \A v \in CrawlSpec!LinkedFrom(u) :
       v \in table \/ \E t \in Threads : url[t] = u /\ v \in Ahead(t)
  /\ \A t \in Threads : pc[t] \in Working =>
       /\ url[t] \in Fetched
       /\ Ahead(t) \subseteq CrawlSpec!LinkedFrom(url[t])

(* Between the decision that this was the last page and its announcement   *)
(* nobody works, and once it is made nobody begins.                        *)
LastPageInv ==
  /\ \A t \in Threads : pc[t] = "finish" =>
       /\ queue = <<>>
       /\ \A w \in Threads : pc[w] \notin Working
  /\ finished => /\ threadStop
                 /\ \A w \in Threads : pc[w] \notin Working \cup {"take", "finish"}

(* With no page missing, only FinishCrawl and main set the flag, and main  *)
(* does not look at it again.                                              *)
StopInv ==
  /\ \A t \in Threads : pc[t] \notin {"stop", "wake"}
  /\ threadStop => finished \/ mainPc \in {"wake", "join", "ended", "undefined"}
  /\ startedJE => finished

CoverInv == TableCovered /\ LinksCovered /\ LastPageInv /\ StopInv

-----------------------------------------------------------------------------

LEMMA QueuedHead ==
  ASSUME TypeOK, queue # <<>>, queue' = Tail(queue)
  PROVE  Queued \subseteq Queued' \cup {Head(queue)}
<1>1. queue \in Seq(Urls \cup {Dummy}) /\ Head(queue) = queue[1]
  BY DEF TypeOK
<1>2. \A i \in DOMAIN queue : i # 1 => i - 1 \in DOMAIN Tail(queue) /\ Tail(queue)[i - 1] = queue[i]
  BY <1>1
<1> QED
  BY <1>1, <1>2 DEF Queued

LEMMA TableCoveredStep ==
  ASSUME Inv, Reliable, CoverInv, [Next]_vars
  PROVE  TableCovered'
<1>1. ASSUME UNCHANGED <<queue, table, requests>> PROVE TableCovered'
  BY <1>1 DEF CoverInv, TableCovered, Fetched, Queued
<1>D. ASSUME queue' = Append(queue, Dummy), UNCHANGED <<table, requests>>
      PROVE  TableCovered'
  <2>1. Queued \subseteq Queued'
    BY <1>D, QueuedAppend DEF Inv
  <2> QED
    BY <1>D, <2>1 DEF CoverInv, TableCovered, Fetched
<1>2. ASSUME NEW t \in Threads, ThreadStep(t)
      PROVE  TableCovered'
  <2>1. CASE WaitForUrl(t) \/ ExitThread(t) \/ PassStopCheck(t)
    BY <2>1, <1>1 DEF WaitForUrl, ExitThread, PassStopCheck, shared
  <2>2. CASE TakeUrl(t)
    <3>1. queue # <<>>
      BY <2>2 DEF TakeUrl, Inv, DummyMeansStop
    <3>2. Queued \subseteq Queued' \cup {Head(queue)}
      BY <2>2, <3>1, QueuedHead DEF TakeUrl, Inv
    <3>3. \A u \in Urls : requests'[u] = IF u = Head(queue) THEN requests[u] + 1 ELSE requests[u]
      BY <2>2 DEF TakeUrl
    <3>t. \A u \in Urls : requests[u] \in Nat
      BY DEF Inv, TypeOK
    <3>4. Fetched \subseteq Fetched'
      BY <3>3, <3>t DEF Fetched
    <3>5. Head(queue) \in Urls => Head(queue) \in Fetched'
      BY <3>3, <3>t DEF Fetched
    <3>6. table' = table /\ table \subseteq Urls
      BY <2>2 DEF TakeUrl, Inv, TypeOK
    <3> QED
      <4> SUFFICES ASSUME NEW u \in table PROVE u \in Fetched' \/ u \in Queued'
        BY <3>6 DEF TableCovered
      <4>1. u \in Urls /\ (u \in Fetched \/ u \in Queued)
        BY <3>6 DEF CoverInv, TableCovered
      <4> QED
        BY <4>1, <3>2, <3>4, <3>5
  <2>3. CASE EndRequest(t) \/ Abandon(t) \/ NoContent(t) \/ StopCrawl(t)
    BY <2>3, <1>1 DEF EndRequest, Abandon, NoContent, StopCrawl, shared
  <2>4. CASE WakePool(t) \/ FinishCrawl(t)
    BY <2>4, <1>D DEF WakePool, FinishCrawl
  <2>5. CASE ReceivePage(t) \/ LockQueue(t) \/ AnnounceLinks(t) \/ CheckLastPage(t)
    BY <2>5, <1>1 DEF ReceivePage, LockQueue, AnnounceLinks, CheckLastPage, shared
  <2>6. CASE AddLink(t)
    <3> DEFINE l == Head(links[t])
    <3>1. l \in Urls
      BY <2>6, TailFacts DEF AddLink, Inv, TypeOK
    <3>2. CASE l \in table
      <4>1. UNCHANGED <<queue, table, requests>>
        BY <2>6, <3>2 DEF AddLink
      <4> QED
        BY <4>1, <1>1
    <3>3. CASE l \notin table
      <4>1. queue' = Append(queue, l)
        BY <2>6, <3>1, <3>3, NeverQueuedTwice DEF AddLink
      <4>2. table' = table \cup {l} /\ requests' = requests
        BY <2>6 DEF AddLink
      <4>3. Queued' = Queued \cup {l}
        BY <3>1, <4>1, QueuedAppend DEF Inv
      <4> QED
        BY <4>2, <4>3 DEF CoverInv, TableCovered, Fetched
    <3> QED
      BY <3>2, <3>3
  <2> QED
    BY <1>2, <2>1, <2>2, <2>3, <2>4, <2>5, <2>6 DEF ThreadStep
<1>3. ASSUME NEW t \in Threads, SpuriousWakeup(t)
      PROVE  TableCovered'
  BY <1>3, <1>1 DEF SpuriousWakeup, shared
<1>4. CASE Serve
  BY <1>4, <1>1 DEF Serve, SetUp, Poll, StartJE, Reap, EndReap, KeepRunning, shared
<1>5. CASE TakeDown
  BY <1>5, <1>1 DEF TakeDown, SetUpFails, StartJEFails, Stop, CommandError, shared
<1>6. CASE CleanUp
  BY <1>6, <1>1, <1>D DEF CleanUp, SetStopFlag, UnblockPool, JoinPool, shared
<1>7. CASE UNCHANGED vars
  BY <1>7, <1>1 DEF vars, shared
<1> QED
  BY <1>2, <1>3, <1>4, <1>5, <1>6, <1>7 DEF Next, MainStep, Terminated

(* What a thread has yet to reach depends on nothing but the thread. *)
LEMMA AheadKept ==
  ASSUME NEW w \in Threads, url'[w] = url[w], links'[w] = links[w],
         \A l \in Working : pc'[w] = l <=> pc[w] = l
  PROVE  Ahead(w)' = Ahead(w)
BY DEF Ahead, Working

LEMMA AheadNone ==
  ASSUME NEW w \in Threads
  PROVE  /\ pc[w] \notin Working => Ahead(w) = {}
         /\ pc'[w] \notin Working => Ahead(w)' = {}
BY DEF Ahead, Working

(* The page and the pages' links outlive every step of which the table and *)
(* the requests, and what every thread has yet to reach, know nothing.     *)
LEMMA LinksCoveredKept ==
  ASSUME CoverInv, UNCHANGED <<table, requests>>,
         NEW t \in Threads,
         \A w \in Threads : pc'[w] \in Working => pc[w] \in Working,
         \A w \in Threads \ {t} : url'[w] = url[w] /\ Ahead(w)' = Ahead(w),
         \/ url'[t] = url[t] /\ Ahead(t)' = Ahead(t)
         \/ Ahead(t) = {} /\ pc'[t] \notin Working
  PROVE  LinksCovered'
<1>1. Fetched' = Fetched
  BY DEF Fetched
<1>2. ASSUME NEW u \in Fetched', NEW v \in CrawlSpec!LinkedFrom(u)
      PROVE  v \in table' \/ \E w \in Threads : url'[w] = u /\ v \in Ahead(w)'
  <2>1. v \in table \/ \E w \in Threads : url[w] = u /\ v \in Ahead(w)
    BY <1>1 DEF CoverInv, LinksCovered
  <2>2. CASE v \in table
    BY <2>2
  <2>3. ASSUME NEW w \in Threads, url[w] = u, v \in Ahead(w)
        PROVE  url'[w] = u /\ v \in Ahead(w)'
    BY <2>3
  <2> QED
    BY <2>1, <2>2, <2>3
<1>3. ASSUME NEW w \in Threads, pc'[w] \in Working
      PROVE  url'[w] \in Fetched' /\ Ahead(w)' \subseteq CrawlSpec!LinkedFrom(url'[w])
  <2>1. pc[w] \in Working /\ url'[w] = url[w] /\ Ahead(w)' = Ahead(w)
    BY <1>3
  <2> QED
    BY <1>1, <2>1 DEF CoverInv, LinksCovered
<1> QED
  BY <1>2, <1>3 DEF LinksCovered

LEMMA LinksCoveredStep ==
  ASSUME Inv, Reliable, CoverInv, [Next]_vars
  PROVE  LinksCovered'
<1>t. /\ pc \in [Threads -> ThreadPc] /\ url \in [Threads -> Urls \cup {Dummy, NoUrl}]
      /\ links \in [Threads -> Seq(Urls)] /\ requests \in [Urls -> Nat]
      /\ queue \in Seq(Urls \cup {Dummy}) /\ newLinks \in [Threads -> Int]
  BY DEF Inv, TypeOK
<1> DEFINE Quiet == /\ UNCHANGED <<table, requests, url, links>>
                    /\ \A w \in Threads : \A l \in Working : pc'[w] = l <=> pc[w] = l
(* A step that no page and no link takes part in. *)
<1>1. ASSUME Quiet PROVE LinksCovered'
  <2>1. \A w \in Threads : url'[w] = url[w] /\ links'[w] = links[w]
    BY <1>1
  <2>2. \A w \in Threads : Ahead(w)' = Ahead(w)
    BY <1>1, <2>1, AheadKept
  <2>3. Fetched' = Fetched
    BY <1>1 DEF Fetched
  <2>4. \A w \in Threads : pc'[w] \in Working => pc[w] \in Working
    BY <1>1
  <2>5. ASSUME NEW u \in Fetched', NEW v \in CrawlSpec!LinkedFrom(u)
        PROVE  v \in table' \/ \E w \in Threads : url'[w] = u /\ v \in Ahead(w)'
    <3>1. v \in table \/ \E w \in Threads : url[w] = u /\ v \in Ahead(w)
      BY <2>3 DEF CoverInv, LinksCovered
    <3> QED
      BY <3>1, <2>1, <2>2, <1>1
  <2>6. ASSUME NEW w \in Threads, pc'[w] \in Working
        PROVE  url'[w] \in Fetched' /\ Ahead(w)' \subseteq CrawlSpec!LinkedFrom(url'[w])
    <3>1. pc[w] \in Working /\ url'[w] = url[w] /\ Ahead(w)' = Ahead(w)
      BY <2>6, <2>1, <2>2, <2>4
    <3> QED
      BY <2>3, <3>1 DEF CoverInv, LinksCovered
  <2> QED
    BY <2>5, <2>6 DEF LinksCovered
<1>2. ASSUME NEW t \in Threads, ThreadStep(t)
      PROVE  LinksCovered'
  <2>1. CASE WaitForUrl(t) \/ ExitThread(t) \/ PassStopCheck(t)
    <3>1. Quiet
      BY <2>1, <1>t DEF WaitForUrl, ExitThread, PassStopCheck, Goto, shared, locals, Working
    <3> QED
      BY <3>1, <1>1
  <2>2. CASE TakeUrl(t)
    <3> DEFINE h == Head(queue)
    <3>1. queue # <<>> /\ Dummy \notin Queued
      BY <2>2 DEF TakeUrl, Inv, DummyMeansStop
    <3>2. h \in Urls
      BY <3>1, <1>t, TailFacts DEF Queued
    <3>3. \A u \in Urls : requests'[u] = IF u = h THEN requests[u] + 1 ELSE requests[u]
      BY <2>2 DEF TakeUrl
    <3>4. Fetched' = Fetched \cup {h}
      BY <3>2, <3>3, <1>t DEF Fetched
    <3>5. \A w \in Threads \ {t} : url'[w] = url[w] /\ pc'[w] = pc[w] /\ links'[w] = links[w]
      BY <2>2, <1>t DEF TakeUrl, Goto
    <3>6. \A w \in Threads \ {t} : Ahead(w)' = Ahead(w)
      BY <3>5, AheadKept
    <3>7. /\ url'[t] = h /\ pc'[t] = "request" /\ pc[t] = "take" /\ table' = table
      BY <2>2, <1>t DEF TakeUrl, Goto
    <3>8. Ahead(t) = {}
      BY <3>7, AheadNone DEF Working
    <3>9. Ahead(t)' = CrawlSpec!LinkedFrom(h)
      BY <3>7 DEF Ahead
    <3>10. ASSUME NEW u \in Fetched', NEW v \in CrawlSpec!LinkedFrom(u)
           PROVE  v \in table' \/ \E w \in Threads : url'[w] = u /\ v \in Ahead(w)'
      <4>1. CASE u = h
        BY <4>1, <3>7, <3>9
      <4>2. CASE u # h
        <5>1. v \in table \/ \E w \in Threads : url[w] = u /\ v \in Ahead(w)
          BY <4>2, <3>4 DEF CoverInv, LinksCovered
        <5>2. ASSUME NEW w \in Threads, url[w] = u, v \in Ahead(w)
              PROVE  url'[w] = u /\ v \in Ahead(w)'
          BY <5>2, <3>5, <3>6, <3>8
        <5> QED
          BY <5>1, <5>2, <3>7
      <4> QED
        BY <4>1, <4>2
    <3>11. ASSUME NEW w \in Threads, pc'[w] \in Working
           PROVE  url'[w] \in Fetched' /\ Ahead(w)' \subseteq CrawlSpec!LinkedFrom(url'[w])
      <4>1. CASE w = t
        BY <4>1, <3>4, <3>7, <3>9
      <4>2. CASE w # t
        <5>1. pc[w] \in Working /\ url'[w] = url[w] /\ Ahead(w)' = Ahead(w)
          BY <4>2, <3>11, <3>5, <3>6
        <5> QED
          BY <5>1, <3>4 DEF CoverInv, LinksCovered
      <4> QED
        BY <4>1, <4>2
    <3> QED
      BY <3>10, <3>11 DEF LinksCovered
  <2>3. CASE EndRequest(t)
    <3>1. /\ UNCHANGED <<table, requests>> /\ pc[t] = "done" /\ pc'[t] = "acquire"
          /\ \A w \in Threads \ {t} : url'[w] = url[w] /\ pc'[w] = pc[w] /\ links'[w] = links[w]
      BY <2>3, <1>t DEF EndRequest, Goto
    <3>2. Ahead(t) = {} /\ pc'[t] \notin Working
      BY <3>1, AheadNone DEF Working
    <3>3. \A w \in Threads \ {t} : Ahead(w)' = Ahead(w)
      BY <3>1, AheadKept
    <3> QED
      BY <3>1, <3>2, <3>3, LinksCoveredKept
  <2>4. CASE Abandon(t) \/ NoContent(t)
    <3>1. Outcomes[url[t]] \subseteq {"page"}
      BY <2>4 DEF Abandon, NoContent, Inv, HoldsUrl, BusyPc, Reliable
    <3> QED
      BY <2>4, <3>1 DEF Abandon, NoContent
  <2>5. CASE StopCrawl(t) \/ WakePool(t)
    BY <2>5 DEF StopCrawl, WakePool, CoverInv, StopInv
  <2>6. CASE ReceivePage(t)
    <3>1. url[t] \in Urls
      BY <2>6 DEF ReceivePage, Inv, HoldsUrl, BusyPc
    <3>2. links'[t] = Links[url[t]] /\ pc'[t] = "parse" /\ pc[t] = "request"
      BY <2>6, <1>t DEF ReceivePage, Goto
    <3>3. UNCHANGED <<table, requests, url>>
      BY <2>6 DEF ReceivePage, shared
    <3>4. Ahead(t) = CrawlSpec!LinkedFrom(url[t])
      BY <3>2 DEF Ahead
    <3>5. Ahead(t)' = {links'[t][i] : i \in DOMAIN links'[t]}
      BY <3>2 DEF Ahead
    <3>6. Ahead(t)' = Ahead(t)
      BY <3>2, <3>4, <3>5 DEF CrawlSpec!LinkedFrom
    <3>7. \A w \in Threads \ {t} : pc'[w] = pc[w] /\ url'[w] = url[w] /\ links'[w] = links[w]
      BY <2>6, <3>3, <1>t DEF ReceivePage, Goto
    <3>8. \A w \in Threads \ {t} : Ahead(w)' = Ahead(w)
      BY <3>7, AheadKept
    <3>9. \A w \in Threads : pc'[w] \in Working => pc[w] \in Working
      BY <3>2, <3>7 DEF Working
    <3> QED
      BY <3>3, <3>6, <3>7, <3>8, <3>9, LinksCoveredKept
  <2>7. CASE LockQueue(t)
    <3>1. \A w \in Threads \ {t} : pc'[w] = pc[w]
      BY <2>7, <1>t DEF LockQueue, Goto
    <3>2. /\ pc[t] = "parse" /\ pc'[t] = "link"
          /\ UNCHANGED <<table, requests, url, links>>
      BY <2>7, <1>t DEF LockQueue, Goto, locals
    <3>3. \A w \in Threads \ {t} : url'[w] = url[w] /\ Ahead(w)' = Ahead(w)
      BY <3>1, <3>2, AheadKept
    <3>4. Ahead(t)' = Ahead(t)
      BY <3>2 DEF Ahead
    <3>5. \A w \in Threads : pc'[w] \in Working => pc[w] \in Working
      BY <3>1, <3>2 DEF Working
    <3> QED
      BY <3>2, <3>3, <3>4, <3>5, LinksCoveredKept
  <2>8. CASE AddLink(t)
    <3> DEFINE l == Head(links[t])
    <3>1. links[t] \in Seq(Urls) /\ links[t] # <<>> /\ pc[t] = "link"
      BY <2>8, <1>t DEF AddLink
    <3>2. /\ links'[t] = Tail(links[t]) /\ table' = table \cup {l}
          /\ UNCHANGED <<pc, url, requests>>
      BY <2>8, <1>t DEF AddLink
    <3>3. Ahead(t)' \subseteq Ahead(t) /\ Ahead(t) \subseteq Ahead(t)' \cup {l}
      <4>1. Ahead(t) = {links[t][i] : i \in DOMAIN links[t]}
        BY <3>1 DEF Ahead
      <4>2. Ahead(t)' = {Tail(links[t])[i] : i \in DOMAIN Tail(links[t])}
        BY <3>1, <3>2 DEF Ahead
      <4>3. \A i \in DOMAIN Tail(links[t]) : /\ i + 1 \in DOMAIN links[t]
                                             /\ Tail(links[t])[i] = links[t][i + 1]
        BY <3>1
      <4>4. \A i \in DOMAIN links[t] : \/ links[t][i] = l
                                       \/ /\ i - 1 \in DOMAIN Tail(links[t])
                                          /\ Tail(links[t])[i - 1] = links[t][i]
        BY <3>1
      <4>5. Ahead(t)' \subseteq Ahead(t)
        BY <4>1, <4>2, <4>3
      <4>6. Ahead(t) \subseteq Ahead(t)' \cup {l}
        BY <4>1, <4>2, <4>4
      <4> QED
        BY <4>5, <4>6
    <3>4. \A w \in Threads \ {t} : links'[w] = links[w]
      BY <2>8, <1>t DEF AddLink
    <3>5. \A w \in Threads \ {t} : Ahead(w)' = Ahead(w)
      BY <3>2, <3>4, AheadKept
    <3>6. Fetched' = Fetched
      BY <3>2 DEF Fetched
    <3>7. ASSUME NEW u \in Fetched', NEW v \in CrawlSpec!LinkedFrom(u)
          PROVE  v \in table' \/ \E w \in Threads : url'[w] = u /\ v \in Ahead(w)'
      <4>1. v \in table \/ \E w \in Threads : url[w] = u /\ v \in Ahead(w)
        BY <3>6 DEF CoverInv, LinksCovered
      <4>2. ASSUME NEW w \in Threads, url[w] = u, v \in Ahead(w)
            PROVE  v = l \/ (url'[w] = u /\ v \in Ahead(w)')
        <5>1. CASE w = t
          BY <5>1, <4>2, <3>2, <3>3
        <5>2. CASE w # t
          BY <5>2, <4>2, <3>2, <3>5
        <5> QED
          BY <5>1, <5>2
      <4> QED
        BY <4>1, <4>2, <3>2
    <3>8. ASSUME NEW w \in Threads, pc'[w] \in Working
          PROVE  url'[w] \in Fetched' /\ Ahead(w)' \subseteq CrawlSpec!LinkedFrom(url'[w])
      <4>1. Ahead(w)' \subseteq Ahead(w)
        BY <3>3, <3>5
      <4>2. url[w] \in Fetched /\ Ahead(w) \subseteq CrawlSpec!LinkedFrom(url[w])
        BY <3>8, <3>2 DEF CoverInv, LinksCovered
      <4> QED
        BY <4>1, <4>2, <3>2, <3>6
    <3> QED
      BY <3>7, <3>8 DEF LinksCovered
  <2>9. CASE AnnounceLinks(t) \/ CheckLastPage(t)
    <3>1. links[t] = <<>> /\ pc[t] = "link" /\ UNCHANGED <<table, requests, url, links>>
      BY <2>9 DEF AnnounceLinks, CheckLastPage, locals
    <3>2. Ahead(t) = {}
      BY <3>1 DEF Ahead
    <3>3. pc'[t] \notin Working /\ \A w \in Threads \ {t} : \A l \in Working : pc'[w] = l <=> pc[w] = l
      BY <2>9, <1>t DEF AnnounceLinks, CheckLastPage, Goto, Woken, Working
    <3>4. \A w \in Threads \ {t} : url'[w] = url[w] /\ Ahead(w)' = Ahead(w)
      BY <3>1, <3>3, AheadKept
    <3>5. \A w \in Threads : pc'[w] \in Working => pc[w] \in Working
      BY <3>3
    <3> QED
      BY <3>1, <3>2, <3>3, <3>4, <3>5, LinksCoveredKept
  <2>10. CASE FinishCrawl(t)
    <3>1. Quiet
      BY <2>10, <1>t DEF FinishCrawl, Woken, locals, Working
    <3> QED
      BY <3>1, <1>1
  <2> QED
    BY <1>2, <2>1, <2>2, <2>3, <2>4, <2>5, <2>6, <2>7, <2>8, <2>9, <2>10 DEF ThreadStep
<1>3. ASSUME NEW t \in Threads, SpuriousWakeup(t)
      PROVE  LinksCovered'
  <2>1. Quiet
    BY <1>3, <1>t DEF SpuriousWakeup, Goto, shared, locals, Working
  <2> QED
    BY <2>1, <1>1
<1>4. CASE Serve
  <2>1. Quiet
    BY <1>4, <1>t DEF Serve, SetUp, Poll, StartJE, Reap, EndReap, KeepRunning, Goto,
                      shared, locals, Working
  <2> QED
    BY <2>1, <1>1
<1>5. CASE TakeDown
  <2>1. Quiet
    BY <1>5 DEF TakeDown, SetUpFails, StartJEFails, Stop, CommandError, shared, locals
  <2> QED
    BY <2>1, <1>1
<1>6. CASE CleanUp
  <2>1. Quiet
    BY <1>6, <1>t DEF CleanUp, SetStopFlag, UnblockPool, JoinPool, Woken, shared, locals, Working
  <2> QED
    BY <2>1, <1>1
<1>7. CASE UNCHANGED vars
  <2>1. Quiet
    BY <1>7 DEF vars, shared, locals
  <2> QED
    BY <2>1, <1>1
<1> QED
  BY <1>2, <1>3, <1>4, <1>5, <1>6, <1>7 DEF Next, MainStep, Terminated

LEMMA LastPageInvStep ==
  ASSUME Inv, Reliable, CoverInv, [Next]_vars
  PROVE  LastPageInv'
<1>t. pc \in [Threads -> ThreadPc]
  BY DEF Inv, TypeOK
<1>c. \A v, w \in Threads : pc[v] \in {"take", "link", "finish"} /\ pc[w] \in {"take", "link", "finish"} => v = w
  BY DEF Inv, CriticalSection
<1> DEFINE Marked == Working \cup {"take", "finish"}
(* A step after which no more threads work than before. *)
<1>1. ASSUME UNCHANGED <<queue, finished>>, threadStop => threadStop',
             \A w \in Threads : /\ pc'[w] \in Working => pc[w] \in Working
                                /\ pc'[w] \in Marked => pc[w] \in Marked
                                /\ pc'[w] = "finish" => pc[w] = "finish"
      PROVE  LastPageInv'
  BY <1>1 DEF CoverInv, LastPageInv
<1>2. ASSUME NEW t \in Threads, ThreadStep(t)
      PROVE  LastPageInv'
  <2>1. CASE WaitForUrl(t) \/ ExitThread(t)
    <3>1. pc'[t] \notin Marked /\ \A w \in Threads \ {t} : pc'[w] = pc[w]
      BY <2>1, <1>t DEF WaitForUrl, ExitThread, Goto, Working
    <3> QED
      BY <2>1, <3>1, <1>1 DEF WaitForUrl, ExitThread, shared
  <2>2. CASE PassStopCheck(t)
    <3>1. ~finished /\ UNCHANGED <<queue, finished>>
      BY <2>2 DEF PassStopCheck, CoverInv, LastPageInv
    <3>2. pc'[t] = "take" /\ \A w \in Threads \ {t} : pc'[w] = pc[w]
      BY <2>2, <1>t DEF PassStopCheck, Goto
    <3> QED
      BY <3>1, <3>2 DEF CoverInv, LastPageInv, Working
  <2>3. CASE TakeUrl(t)
    <3>1. pc[t] = "take" /\ finished' = finished
      BY <2>3 DEF TakeUrl
    <3>2. ~finished
      BY <3>1 DEF CoverInv, LastPageInv
    <3>3. pc'[t] = "request" /\ \A w \in Threads \ {t} : pc'[w] = pc[w]
      BY <2>3, <1>t DEF TakeUrl, Goto
    <3>4. \A w \in Threads : pc'[w] # "finish"
      BY <3>1, <3>3, <1>c
    <3> QED
      BY <3>1, <3>2, <3>4 DEF LastPageInv
  <2>4. CASE EndRequest(t)
    <3>1. pc'[t] = "acquire" /\ \A w \in Threads \ {t} : pc'[w] = pc[w]
      BY <2>4, <1>t DEF EndRequest, Goto
    <3> QED
      BY <2>4, <3>1, <1>1 DEF EndRequest, Working
  <2>5. CASE Abandon(t) \/ NoContent(t)
    <3>1. Outcomes[url[t]] \subseteq {"page"}
      BY <2>5 DEF Abandon, NoContent, Inv, HoldsUrl, BusyPc, Reliable
    <3> QED
      BY <2>5, <3>1 DEF Abandon, NoContent
  <2>6. CASE StopCrawl(t) \/ WakePool(t)
    BY <2>6 DEF StopCrawl, WakePool, CoverInv, StopInv
  <2>7. CASE ReceivePage(t) \/ LockQueue(t)
    <3>1. pc[t] \in Working /\ pc'[t] \in Working /\ \A w \in Threads \ {t} : pc'[w] = pc[w]
      BY <2>7, <1>t DEF ReceivePage, LockQueue, Goto, Working
    <3>2. pc'[t] # "finish"
      BY <3>1 DEF Working
    <3> QED
      BY <2>7, <3>1, <3>2, <1>1 DEF ReceivePage, LockQueue, shared
  <2>8. CASE AddLink(t)
    <3>1. pc[t] = "link" /\ pc' = pc /\ finished' = finished
      BY <2>8 DEF AddLink
    <3>2. ~finished /\ \A w \in Threads : pc[w] # "finish"
      BY <3>1 DEF CoverInv, LastPageInv, Working
    <3> QED
      BY <3>1, <3>2 DEF LastPageInv
  <2>9. CASE AnnounceLinks(t)
    <3>1. \A w \in Threads : \A l \in Marked : pc'[w] = l => pc[w] = l
      BY <2>9, <1>t DEF AnnounceLinks, Woken, Working
    <3> QED
      BY <2>9, <3>1, <1>1 DEF AnnounceLinks, Working
  <2>10. CASE CheckLastPage(t)
    <3>1. pc[t] = "link" /\ UNCHANGED <<queue, finished>> /\ \A w \in Threads \ {t} : pc'[w] = pc[w]
      BY <2>10, <1>t DEF CheckLastPage, Goto
    <3>2. ~finished /\ \A w \in Threads : pc[w] # "finish"
      BY <3>1 DEF CoverInv, LastPageInv, Working
    <3>3. CASE ~LastPage
      <4>1. pc'[t] = "done"
        BY <2>10, <3>3, <1>t DEF CheckLastPage, Goto
      <4> QED
        BY <4>1, <3>1, <3>2 DEF LastPageInv
    <3>4. CASE LastPage
      <4>1. pc'[t] = "finish" /\ queue = <<>>
        BY <2>10, <3>4, <1>t DEF CheckLastPage, LastPage, Goto
      <4>2. t \in Busy /\ IsFiniteSet(Busy) /\ Cardinality(Busy) = 1
        BY <3>1, <3>4, CrawlerAssumption, FS_Subset
           DEF Busy, BusyPc, LastPage, Inv, InProgressExact
      <4>3. Cardinality(Busy \ {t}) = 0 /\ IsFiniteSet(Busy \ {t})
        BY <4>2, FS_RemoveElement
      <4>4. Busy \ {t} = {}
        BY <4>3, FS_EmptySet
      <4>5. \A w \in Threads \ {t} : pc[w] \notin Working
        BY <4>4 DEF Busy, BusyPc, Working
      <4> QED
        BY <4>1, <4>5, <3>1, <3>2 DEF LastPageInv, Working
    <3> QED
      BY <3>3, <3>4
  <2>11. CASE FinishCrawl(t)
    <3>1. pc[t] = "finish" /\ threadStop' = TRUE
      BY <2>11 DEF FinishCrawl
    <3>2. \A w \in Threads : w # t => pc[w] \notin Marked
      BY <3>1, <1>c DEF CoverInv, LastPageInv, Working
    <3>3. \A w \in Threads : pc'[w] \notin Marked
      BY <2>11, <3>2, <1>t DEF FinishCrawl, Woken, Working
    <3> QED
      BY <3>1, <3>3 DEF LastPageInv
  <2> QED
    BY <1>2, <2>1, <2>2, <2>3, <2>4, <2>5, <2>6, <2>7, <2>8, <2>9, <2>10, <2>11
       DEF ThreadStep
<1>3. ASSUME NEW t \in Threads, SpuriousWakeup(t)
      PROVE  LastPageInv'
  <2>1. pc'[t] = "acquire" /\ \A w \in Threads \ {t} : pc'[w] = pc[w]
    BY <1>3, <1>t DEF SpuriousWakeup, Goto
  <2> QED
    BY <1>3, <2>1, <1>1 DEF SpuriousWakeup, shared, Working
<1>4. CASE Serve
  <2>1. \A w \in Threads : \A l \in Marked : pc'[w] = l => pc[w] = l
    BY <1>4, <1>t DEF Serve, SetUp, Poll, StartJE, Reap, EndReap, KeepRunning, Goto, Working
  <2> QED
    BY <1>4, <2>1, <1>1
       DEF Serve, SetUp, Poll, StartJE, Reap, EndReap, KeepRunning, shared, Working
<1>5. CASE TakeDown
  BY <1>5, <1>1 DEF TakeDown, SetUpFails, StartJEFails, Stop, CommandError, shared
<1>6. CASE CleanUp
  <2>1. CASE SetStopFlag \/ JoinPool
    BY <2>1, <1>1 DEF SetStopFlag, JoinPool, shared
  <2>2. CASE UnblockPool
    <3>1. queueMtx = NoThread /\ finished' = finished /\ threadStop' = threadStop
      BY <2>2 DEF UnblockPool
    <3>2. \A w \in Threads : pc[w] # "finish"
      BY <3>1, CrawlerAssumption DEF Inv, CriticalSection
    <3>3. \A w \in Threads : \A l \in Marked : pc'[w] = l => pc[w] = l
      BY <2>2, <1>t DEF UnblockPool, Woken, Working
    <3> QED
      BY <3>1, <3>2, <3>3 DEF CoverInv, LastPageInv, Working
  <2> QED
    BY <1>6, <2>1, <2>2 DEF CleanUp
<1>7. CASE UNCHANGED vars
  BY <1>7, <1>1 DEF vars, shared
<1> QED
  BY <1>2, <1>3, <1>4, <1>5, <1>6, <1>7 DEF Next, MainStep, Terminated

LEMMA StopInvStep ==
  ASSUME Inv, Reliable, CoverInv, [Next]_vars
  PROVE  StopInv'
<1>t. pc \in [Threads -> ThreadPc]
  BY DEF Inv, TypeOK
<1>1. ASSUME NEW t \in Threads, ThreadStep(t)
      PROVE  StopInv'
  <2>1. CASE Abandon(t) \/ NoContent(t)
    <3>1. Outcomes[url[t]] \subseteq {"page"}
      BY <2>1 DEF Abandon, NoContent, Inv, HoldsUrl, BusyPc, Reliable
    <3> QED
      BY <2>1, <3>1 DEF Abandon, NoContent
  <2>2. CASE StopCrawl(t) \/ WakePool(t)
    BY <2>2 DEF StopCrawl, WakePool, CoverInv, StopInv
  <2>3. CASE FinishCrawl(t)
    BY <2>3, <1>t DEF FinishCrawl, Woken, main, CoverInv, StopInv
  <2>4. CASE AnnounceLinks(t)
    BY <2>4, <1>t DEF AnnounceLinks, Woken, main, CoverInv, StopInv
  <2>5. CASE WaitForUrl(t) \/ ExitThread(t) \/ PassStopCheck(t)
    BY <2>5, <1>t DEF WaitForUrl, ExitThread, PassStopCheck, Goto, shared, main,
                      CoverInv, StopInv
  <2>6. CASE TakeUrl(t) \/ EndRequest(t) \/ ReceivePage(t)
    BY <2>6, <1>t DEF TakeUrl, EndRequest, ReceivePage, Goto, shared, main,
                      CoverInv, StopInv
  <2>7. CASE LockQueue(t) \/ CheckLastPage(t)
    BY <2>7, <1>t DEF LockQueue, CheckLastPage, Goto, main, CoverInv, StopInv
  <2>8. CASE AddLink(t)
    BY <2>8 DEF AddLink, main, CoverInv, StopInv
  <2> QED
    BY <1>1, <2>1, <2>2, <2>3, <2>4, <2>5, <2>6, <2>7, <2>8 DEF ThreadStep
<1>2. ASSUME NEW t \in Threads, SpuriousWakeup(t)
      PROVE  StopInv'
  BY <1>2, <1>t DEF SpuriousWakeup, Goto, shared, main, CoverInv, StopInv
<1>3. CASE Serve
  BY <1>3, <1>t DEF Serve, SetUp, Poll, StartJE, Reap, EndReap, KeepRunning, Goto, shared,
                    CoverInv, StopInv
<1>4. CASE TakeDown
  BY <1>4 DEF TakeDown, SetUpFails, StartJEFails, Stop, CommandError, shared,
              CoverInv, StopInv
<1>5. CASE CleanUp
  BY <1>5, <1>t DEF CleanUp, SetStopFlag, UnblockPool, JoinPool, Woken, shared,
                    CoverInv, StopInv
<1>6. CASE UNCHANGED vars
  BY <1>6 DEF vars, shared, main, CoverInv, StopInv
<1> QED
  BY <1>1, <1>2, <1>3, <1>4, <1>5, <1>6 DEF Next, MainStep, Terminated

LEMMA CoverInvInit == Init => CoverInv
<1> SUFFICES ASSUME Init PROVE CoverInv
  OBVIOUS
<1>1. Queued = {StartUrl} /\ Fetched = {}
  BY DEF Init, Queued, Fetched
<1>2. TableCovered
  BY <1>1 DEF Init, TableCovered
<1>3. LinksCovered
  BY <1>1 DEF Init, LinksCovered, Working
<1>4. LastPageInv /\ StopInv
  BY DEF Init, LastPageInv, StopInv
<1> QED
  BY <1>2, <1>3, <1>4 DEF CoverInv

(* The strengthened invariant of a crawl in which no page is missing. *)
THEOREM Coverage == ASSUME Reliable PROVE Spec => [](Inv /\ CoverInv)
<1>1. Inv /\ CoverInv /\ [Next]_vars => Inv' /\ CoverInv'
  BY InvStep, TableCoveredStep, LinksCoveredStep, LastPageInvStep, StopInvStep, Reliable
     DEF CoverInv
<1>2. Init => Inv /\ CoverInv
  BY InvInit, CoverInvInit
<1> QED
  BY <1>1, <1>2, PTL DEF Spec

-----------------------------------------------------------------------------
(* The pool implements the crawl. *)

LEMMA InitSimulation == Init => CrawlSpec!Init
BY CrawlerAssumption DEF Init, CrawlSpec!Init

(* Taking a URL is Fetch, queueing a link is Discover, announcing the end  *)
(* is Finish, and every other step is a stutter.                           *)
LEMMA StepSimulation ==
  ASSUME Inv, Reliable, CoverInv, [Next]_vars
  PROVE  [CrawlSpec!Next]_(CrawlSpec!vars)
<1>t. /\ links \in [Threads -> Seq(Urls)] /\ requests \in [Urls -> Nat] /\ table \subseteq Urls
      /\ queue \in Seq(Urls \cup {Dummy}) /\ finished \in BOOLEAN
  BY DEF Inv, TypeOK
<1>1. ASSUME UNCHANGED <<table, requests, finished>>
      PROVE  UNCHANGED CrawlSpec!vars
  BY <1>1 DEF CrawlSpec!vars
<1>2. ASSUME NEW t \in Threads, ThreadStep(t)
      PROVE  CrawlSpec!Next \/ UNCHANGED CrawlSpec!vars
  <2>1. CASE WaitForUrl(t) \/ ExitThread(t) \/ PassStopCheck(t) \/ EndRequest(t)
    BY <2>1, <1>1 DEF WaitForUrl, ExitThread, PassStopCheck, EndRequest, shared
  <2>2. CASE TakeUrl(t)
    <3>1. queue # <<>> /\ Dummy \notin Queued /\ pc[t] = "take"
      BY <2>2 DEF TakeUrl, Inv, DummyMeansStop
    <3>h. Head(queue) \in Urls /\ Head(queue) \in Queued
      BY <3>1, <1>t, TailFacts DEF Queued
    <3>2. PICK h \in Urls : h = Head(queue) /\ h \in Queued
      BY <3>h
    <3>3. h \in table /\ h \notin Fetched
      BY <3>2, CrawlerAssumption DEF Inv, QueueInv, Fetched
    <3>4. \A u \in Urls : requests'[u] = IF u = h THEN requests[u] + 1 ELSE requests[u]
      BY <2>2, <3>2 DEF TakeUrl
    <3>5. Fetched' = Fetched \cup {h}
      BY <3>2, <3>4, <1>t DEF Fetched
    <3>6. ~finished /\ UNCHANGED <<table, finished>>
      BY <2>2, <3>1 DEF TakeUrl, CoverInv, LastPageInv
    <3>7. CrawlSpec!Fetch(h)
      BY <3>3, <3>5, <3>6 DEF CrawlSpec!Fetch, Fetched
    <3> QED
      BY <3>2, <3>7 DEF CrawlSpec!Next
  <2>3. CASE Abandon(t) \/ NoContent(t)
    BY <2>3, <1>1 DEF Abandon, NoContent, shared
  <2>4. CASE StopCrawl(t) \/ WakePool(t)
    BY <2>4 DEF StopCrawl, WakePool, CoverInv, StopInv
  <2>5. CASE ReceivePage(t) \/ LockQueue(t) \/ AnnounceLinks(t) \/ CheckLastPage(t)
    BY <2>5, <1>1 DEF ReceivePage, LockQueue, AnnounceLinks, CheckLastPage, shared
  <2>6. CASE AddLink(t)
    <3> DEFINE l == Head(links[t])
               u == url[t]
    <3>1. /\ links[t] \in Seq(Urls) /\ links[t] # <<>> /\ pc[t] = "link"
          /\ table' = table \cup {l} /\ UNCHANGED <<requests, finished>>
      BY <2>6, <1>t DEF AddLink
    <3>2. ~finished
      BY <3>1 DEF CoverInv, LastPageInv, Working
    <3>3. l \in Ahead(t) /\ l \in Urls
      BY <3>1, TailFacts DEF Ahead
    <3>4. u \in Fetched /\ l \in CrawlSpec!LinkedFrom(u)
      BY <3>1, <3>3 DEF CoverInv, LinksCovered, Working
    <3>5. CASE l \in table
      <4>1. table' = table
        BY <3>1, <3>5
      <4> QED
        BY <4>1, <3>1, <1>1
    <3>6. CASE l \notin table
      <4>1. CrawlSpec!Discover(u, l)
        BY <3>1, <3>2, <3>4, <3>6 DEF CrawlSpec!Discover, Fetched
      <4>2. u \in Urls
        BY <3>4 DEF Fetched
      <4> QED
        BY <4>1, <4>2, <3>3 DEF CrawlSpec!Next
    <3> QED
      BY <3>5, <3>6
  <2>7. CASE FinishCrawl(t)
    <3>1. pc[t] = "finish" /\ finished' = TRUE /\ UNCHANGED <<table, requests>>
      BY <2>7 DEF FinishCrawl
    <3>2. ~finished /\ queue = <<>> /\ \A w \in Threads : pc[w] \notin Working
      BY <3>1 DEF CoverInv, LastPageInv
    <3>3. Queued = {}
      BY <3>2 DEF Queued
    <3>4. table = Fetched
      BY <3>3, <1>t DEF CoverInv, TableCovered, Inv, QueueInv, Fetched
    <3>5. \A v \in Fetched : CrawlSpec!LinkedFrom(v) \subseteq table
      BY <3>2, AheadNone DEF CoverInv, LinksCovered
    <3>6. CrawlSpec!Finish
      BY <3>1, <3>2, <3>4, <3>5 DEF CrawlSpec!Finish, Fetched
    <3> QED
      BY <3>6 DEF CrawlSpec!Next
  <2> QED
    BY <1>2, <2>1, <2>2, <2>3, <2>4, <2>5, <2>6, <2>7 DEF ThreadStep
<1>3. ASSUME NEW t \in Threads, SpuriousWakeup(t)
      PROVE  UNCHANGED CrawlSpec!vars
  BY <1>3, <1>1 DEF SpuriousWakeup, shared
<1>4. CASE Serve
  BY <1>4, <1>1 DEF Serve, SetUp, Poll, StartJE, Reap, EndReap, KeepRunning, shared
<1>5. CASE TakeDown
  BY <1>5, <1>1 DEF TakeDown, SetUpFails, StartJEFails, Stop, CommandError, shared
<1>6. CASE CleanUp
  BY <1>6, <1>1 DEF CleanUp, SetStopFlag, UnblockPool, JoinPool, shared
<1>7. CASE UNCHANGED vars
  BY <1>7, <1>1 DEF vars, shared
<1> QED
  BY <1>2, <1>3, <1>4, <1>5, <1>6, <1>7 DEF Next, MainStep, Terminated

(* With a page for every request, the pool does what Crawl promises. *)
THEOREM Implementation == ASSUME Reliable PROVE Spec => CrawlPromise
<1>1. Inv /\ CoverInv /\ [Next]_vars => [CrawlSpec!Next]_(CrawlSpec!vars)
  BY StepSimulation, Reliable
<1> QED
  BY <1>1, InitSimulation, Coverage, Reliable, PTL DEF Spec, CrawlPromise, CrawlSpec!Spec

(* Nothing is found that no chain of links leads to; what is announced as  *)
(* finished is closed under the links.                                     *)
ReachInv ==
  /\ StartUrl \in table
  /\ \A S \in SUBSET Urls : StartUrl \in S /\ CrawlSpec!Closed(S) => table \subseteq S
  /\ finished => table = Fetched /\ CrawlSpec!Closed(table)

LEMMA ReachInvStep ==
  ASSUME Inv, ReachInv, [CrawlSpec!Next]_(CrawlSpec!vars)
  PROVE  ReachInv'
<1>1. Fetched \subseteq table
  BY DEF Inv, QueueInv, Fetched
<1>2. ASSUME NEW u \in Urls, CrawlSpec!Fetch(u)
      PROVE  ReachInv'
  BY <1>2 DEF CrawlSpec!Fetch, ReachInv
<1>3. ASSUME NEW u \in Urls, NEW v \in Urls, CrawlSpec!Discover(u, v)
      PROVE  ReachInv'
  <2>1. u \in Fetched /\ v \in CrawlSpec!LinkedFrom(u) /\ table' = table \cup {v}
        /\ ~finished /\ finished' = finished
    BY <1>3 DEF CrawlSpec!Discover, Fetched
  <2>2. ASSUME NEW S \in SUBSET Urls, StartUrl \in S, CrawlSpec!Closed(S)
        PROVE  table' \subseteq S
    <3>1. table \subseteq S
      BY <2>2 DEF ReachInv
    <3>2. v \in S
      BY <2>1, <2>2, <3>1, <1>1 DEF CrawlSpec!Closed
    <3> QED
      BY <2>1, <3>1, <3>2
  <2> QED
    BY <2>1, <2>2 DEF ReachInv
<1>4. CASE CrawlSpec!Finish
  BY <1>4 DEF CrawlSpec!Finish, CrawlSpec!Closed, ReachInv, Fetched
<1>5. CASE UNCHANGED CrawlSpec!vars
  BY <1>5 DEF CrawlSpec!vars, ReachInv, Fetched
<1> QED
  BY <1>2, <1>3, <1>4, <1>5 DEF CrawlSpec!Next

(* With a page for every request, what was downloaded when the end is      *)
(* announced is exactly what can be reached from the starting URL.         *)
THEOREM NothingMissed == ASSUME Reliable PROVE Spec => []FinishedComplete
<1>1. Init => ReachInv
  BY CrawlerAssumption DEF Init, ReachInv
<1>2. Inv /\ CoverInv /\ ReachInv /\ [Next]_vars => ReachInv'
  BY StepSimulation, ReachInvStep, Reliable
<1>3. Inv /\ ReachInv => FinishedComplete
  <2> SUFFICES ASSUME Inv, ReachInv, finished PROVE Fetched = CrawlSpec!Reachable
    BY DEF FinishedComplete, CrawlSpec!Complete, Fetched
  <2>1. table \subseteq Urls /\ table = Fetched /\ CrawlSpec!Closed(table) /\ StartUrl \in table
    BY DEF Inv, TypeOK, ReachInv
  <2>2. table \subseteq CrawlSpec!Reachable
    BY <2>1 DEF ReachInv, CrawlSpec!Reachable
  <2>3. CrawlSpec!Reachable \subseteq table
    BY <2>1 DEF CrawlSpec!Reachable
  <2> QED
    BY <2>1, <2>2, <2>3
<1> QED
  BY <1>1, <1>2, <1>3, Coverage, Reliable, PTL DEF Spec

(* With a page for every request, the Job Executor is started on complete  *)
(* files.                                                                  *)
THEOREM StartedOnCompleteFiles == ASSUME Reliable PROVE Spec => []JobExecutorSeesAll
<1>1. Inv /\ CoverInv => JobExecutorSeesAll
  BY DEF Inv, TypeOK, ThreadPc, CoverInv, StopInv, LastPageInv, Working, JobExecutorSeesAll
<1> QED
  BY <1>1, Coverage, Reliable, PTL

=============================================================================
