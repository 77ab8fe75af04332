-------------------------------- MODULE Crawl --------------------------------
(***************************************************************************)
(* What a crawl promises: every page that can be reached from the starting *)
(* URL by following links is downloaded, none twice, and "finished" is     *)
(* announced only when there is nothing left to do.  No threads, no queue. *)
(***************************************************************************)
EXTENDS Naturals, Sequences

CONSTANTS Urls, StartUrl, Links

LinkedFrom(u) == {Links[u][i] : i \in DOMAIN Links[u]}

Closed(S) == \A u \in S : LinkedFrom(u) \subseteq S

(* The least set with the starting URL and every link of its pages. *)
Reachable ==
  {u \in Urls : \A S \in SUBSET Urls : StartUrl \in S /\ Closed(S) => u \in S}

VARIABLES
  known,    \* the URLs ever found
  fetched,  \* the URLs requested
  finished  \* the end of the crawl was announced

vars == <<known, fetched, finished>>

Init ==
  /\ known = {StartUrl}
  /\ fetched = {}
  /\ finished = FALSE

Fetch(u) ==
  /\ ~finished
  /\ u \in known \ fetched
  /\ fetched' = fetched \cup {u}
  /\ UNCHANGED <<known, finished>>

Discover(u, v) ==
  /\ ~finished
  /\ u \in fetched /\ v \in LinkedFrom(u) \ known
  /\ known' = known \cup {v}
  /\ UNCHANGED <<fetched, finished>>

Finish ==
  /\ ~finished
  /\ known = fetched
  /\ \A u \in fetched : LinkedFrom(u) \subseteq known
  /\ finished' = TRUE
  /\ UNCHANGED <<known, fetched>>

Next ==
  \/ \E u \in Urls : Fetch(u)
  \/ \E u, v \in Urls : Discover(u, v)
  \/ Finish

Spec == Init /\ [][Next]_vars

(* What is announced as a finished crawl has every page the links lead to,  *)
(* and no other.                                                           *)
Complete == finished => fetched = Reachable
=============================================================================
