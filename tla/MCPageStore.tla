----------------------------- MODULE MCPageStore ------------------------------
(* Instances of Corpus, and with it of PageStore, for TLC. *)
EXTENDS Corpus, TLC

CONSTANTS t1, t2, t3, p1, p2, p3, p4, p5

ThreeThreads == {t1, t2, t3}

(* Two pages in one directory and one in the directory above it, one in    *)
(* another site, one in save_dir itself: three directories for three       *)
(* workers, of which some may be missing.                                  *)
SitePages == {p1, p2, p3, p4, p5}
SitePath  == p1 :> <<"site0">> @@ p2 :> <<"site0", "news">> @@ p3 :> <<"site0", "news">>
               @@ p4 :> <<"site1">> @@ p5 :> <<>>

Symmetry == Permutations(Threads)
=============================================================================
