------------------------------- MODULE MCIndex --------------------------------
(* Instances of Index for TLC. *)
EXTENDS Index, TLC

CONSTANTS w1, w2, d1, d2, d3

TwoWorkers == {w1, w2}

(* The first worker has two directories, of which the first has two files, *)
(* and the paths of the second worker lie between those.                   *)
SiteGiven == w1 :> <<d1, d2>> @@ w2 :> <<d3>>
SiteFiles == d1 :> {1, 4} @@ d2 :> {3} @@ d3 :> {2, 5}

Text(lines) == [lines |-> lines, flaw |-> "none"]

Once     == Text(<<<<"a">>>>)
Twice    == Text(<<<<>>, <<"b", "a", "a">>>>)
Both     == Text(<<<<"b">>, <<"a", "b">>>>)
NoLine   == [lines |-> <<>>, flaw |-> "tail"]
TextTail == [lines |-> <<<<"a">>>>, flaw |-> "tail"]
OpenTag  == [lines |-> <<<<"a">>>>, flaw |-> "open tag"]

SiteContents ==
  1 :> {Once, Twice} @@ 2 :> {Both, Twice, TextTail} @@ 3 :> {Once, Both}
    @@ 4 :> {Both, OpenTag, NoLine} @@ 5 :> {Once, Directory}

SiteWords == {"a", "b"}

SiteCommands ==
  {[kind |-> "search", keywords |-> <<"b", "a">>], [kind |-> "search", keywords |-> <<"b">>],
   [kind |-> "maxcount", word |-> "a"], [kind |-> "mincount", word |-> "a"],
   [kind |-> "wc"]}
=============================================================================
