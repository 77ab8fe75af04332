------------------------------ MODULE MCCrawler ------------------------------
(* Instances of Crawler for TLC. *)
EXTENDS Crawler, TLC

CONSTANTS a, b, c, d, t1, t2, t3

ThreeThreads == {t1, t2, t3}
TwoThreads   == {t1, t2}

(* a links to b, c and itself; b and c link to each other and to d; d to a. *)
Site      == {a, b, c, d}
SiteLinks == (a :> <<b, c, a>>) @@ (b :> <<c, d>>) @@ (c :> <<d, d, b>>) @@ (d :> <<a>>)

(* The same without d. *)
SmallSite      == {a, b, c}
SmallSiteLinks == (a :> <<b, c, b>>) @@ (b :> <<c>>) @@ (c :> <<a>>)

AlwaysAPage(S)   == [u \in S |-> {"page"}]
SitePages        == AlwaysAPage(Site)
SmallSitePages   == AlwaysAPage(SmallSite)
SmallSiteFaulty  == [u \in SmallSite |-> Outcome]
SmallSiteMissing == [u \in SmallSite |-> IF u = b THEN {"nocontent"} ELSE {"page"}]
SiteFaulty       == [u \in Site |-> Outcome]

Symmetry == Permutations(Threads)
=============================================================================
