----------------------------- MODULE MCHttpServer -----------------------------
(* Instances of HttpServer for TLC. *)
EXTENDS HttpServer, TLC

CONSTANTS t1, t2, t3, c1, c2, c3, c4

TwoThreads   == {t1, t2}
ThreeThreads == {t1, t2, t3}

ThreeConns == {c1, c2, c3}
FourConns  == {c1, c2, c3, c4}

Symmetry == Permutations(Threads) \cup Permutations(Conns)
=============================================================================
