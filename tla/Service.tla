-------------------------------- MODULE Service --------------------------------
(***************************************************************************)
(* What the web server promises those who connect: to refuse a connection, *)
(* or to let it wait in a line of bounded length, from which it is taken   *)
(* in its turn, answered once and closed.  Each page sent is counted once. *)
(* When the server is taken down at most one more is called from the line, *)
(* and those that were called are answered before the end.  No threads, no *)
(* mutex, no element of the queue that is not a connection.                *)
(***************************************************************************)
EXTENDS Naturals, Sequences

CONSTANTS Conns, MaxSize

VARIABLES
  phase,      \* "open", "last call", "closing" or "closed"
  arriving,   \* the connection whose request is being read, in a set
  line,       \* those that wait, the first in front
  serving,    \* those that were called
  uncounted,  \* those that were sent a page that is not counted yet
  leaving,    \* those that were answered and are not closed yet
  gone,       \* those that are closed
  pages       \* the number of pages sent, as far as they are counted

vars == <<phase, arriving, line, serving, uncounted, leaving, gone, pages>>

Init ==
  /\ phase = "open"
  /\ arriving = {} /\ line = <<>>
  /\ serving = {} /\ uncounted = {} /\ leaving = {} /\ gone = {}
  /\ pages = 0

InLine == {line[i] : i \in DOMAIN line}
Known  == arriving \cup InLine \cup serving \cup uncounted \cup leaving \cup gone

Arrive(c) ==
  /\ phase = "open" /\ arriving = {}
  /\ c \notin Known
  /\ arriving' = {c}
  /\ UNCHANGED <<phase, line, serving, uncounted, leaving, gone, pages>>

Refuse(c) ==
  /\ c \in arriving
  /\ arriving' = {}
  /\ gone' = gone \cup {c}
  /\ UNCHANGED <<phase, line, serving, uncounted, leaving, pages>>

LineUp(c) ==
  /\ phase = "open"
  /\ c \in arriving /\ Len(line) < MaxSize
  /\ arriving' = {}
  /\ line' = Append(line, c)
  /\ UNCHANGED <<phase, serving, uncounted, leaving, gone, pages>>

Call ==
  /\ phase \in {"open", "last call"} /\ line # <<>>
  /\ line' = Tail(line)
  /\ serving' = serving \cup {Head(line)}
  /\ phase' = IF phase = "open" THEN "open" ELSE "closing"
  /\ UNCHANGED <<arriving, uncounted, leaving, gone, pages>>

SendPage(c) ==
  /\ c \in serving
  /\ serving' = serving \ {c}
  /\ uncounted' = uncounted \cup {c}
  /\ UNCHANGED <<phase, arriving, line, leaving, gone, pages>>

SendNoPage(c) ==
  /\ c \in serving
  /\ serving' = serving \ {c}
  /\ leaving' = leaving \cup {c}
  /\ UNCHANGED <<phase, arriving, line, uncounted, gone, pages>>

CountPage(c) ==
  /\ c \in uncounted
  /\ uncounted' = uncounted \ {c}
  /\ leaving' = leaving \cup {c}
  /\ pages' = pages + 1
  /\ UNCHANGED <<phase, arriving, line, serving, gone>>

Leave(c) ==
  /\ c \in leaving
  /\ leaving' = leaving \ {c}
  /\ gone' = gone \cup {c}
  /\ UNCHANGED <<phase, arriving, line, serving, uncounted, pages>>

TakeDown ==
  /\ phase = "open" /\ arriving = {}
  /\ \/ phase' = "closing"
     \/ phase' = "last call" /\ line # <<>>
  /\ UNCHANGED <<arriving, line, serving, uncounted, leaving, gone, pages>>

End ==
  /\ phase = "closing"
  /\ serving = {} /\ uncounted = {} /\ leaving = {}
  /\ phase' = "closed"
  /\ UNCHANGED <<arriving, line, serving, uncounted, leaving, gone, pages>>

Next ==
  \/ \E c \in Conns :
       \/ Arrive(c) \/ Refuse(c) \/ LineUp(c)
       \/ SendPage(c) \/ SendNoPage(c) \/ CountPage(c) \/ Leave(c)
  \/ Call \/ TakeDown \/ End

Spec == Init /\ [][Next]_vars
=============================================================================
