------------------------------- MODULE MCSearch -------------------------------
(* Instances of Search for TLC. *)
EXTENDS Search, TLC

CONSTANTS c1, c2, c3, w1

TwoClients   == {c1, c2}
ThreeClients == {c1, c2, c3}
OneWorker    == {w1}
=============================================================================
