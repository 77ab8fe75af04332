--------------------------------- MODULE Query ---------------------------------
(***************************************************************************)
(* What the Job Executor promises of a command: all workers are asked, and *)
(* it ends when each was heard or given up.  A worker is heard once, with  *)
(* an answer to this command; it is given up only if it is lost and has    *)
(* not answered; when the next command is asked no answer is left over.    *)
(* What was found is reported before the end only when the command's own   *)
(* deadline has passed, and once.  No signals, no FIFOs, no select, no     *)
(* counters of what is still to come.                                      *)
(*                                                                         *)
(* The exception are strays, workers that were replaced after the question *)
(* was announced and before it was put: they may be heard with anything.   *)
(***************************************************************************)
EXTENDS Naturals, FiniteSets

CONSTANTS Workers

VARIABLES
  phase,    \* "idle", "asked", "gathering" or "over"
  number,   \* of the command
  timed,    \* does it have a deadline?
  waiting,  \* the workers neither heard nor given up
  reply,    \* the command that a worker has answered and was not heard with, or 0
  heard,    \* how many answers there are to this command
  passed,   \* has its deadline passed?
  early,    \* were the answers reported then?
  lost,     \* the workers that are dead or were replaced
  strays

vars == <<phase, number, timed, waiting, reply, heard, passed, early, lost, strays>>

Init ==
  /\ phase = "idle"
  /\ number = 0 /\ timed = FALSE
  /\ waiting = {} /\ reply = [w \in Workers |-> 0] /\ heard = 0
  /\ passed = FALSE /\ early = FALSE
  /\ lost = {} /\ strays = {}

Ask(hasDeadline) ==
  /\ phase = "idle"
  /\ \A w \in Workers \ strays : reply[w] = 0
  /\ phase' = "asked"
  /\ number' = number + 1 /\ timed' = hasDeadline
  /\ waiting' = Workers /\ heard' = 0 /\ passed' = FALSE /\ early' = FALSE
  /\ lost' \subseteq lost
  /\ UNCHANGED <<reply, strays>>

Put ==
  /\ phase = "asked"
  /\ phase' = "gathering"
  /\ UNCHANGED <<number, timed, waiting, reply, heard, passed, early, lost, strays>>

Reply(w) ==
  /\ phase \in {"gathering", "over"}
  /\ w \in waiting \ strays /\ reply[w] = 0
  /\ reply' = [reply EXCEPT ![w] = number]
  /\ UNCHANGED <<phase, number, timed, waiting, heard, passed, early, lost, strays>>

(* Some workers are heard, others are given up. *)
Gather(answered, gone) ==
  /\ phase = "gathering"
  /\ answered \subseteq waiting /\ gone \subseteq (waiting \cap lost) \ answered
  /\ \A w \in answered \ strays : reply[w] = number
  /\ \A w \in gone \ strays : reply[w] = 0
  /\ waiting' = waiting \ (answered \cup gone)
  /\ reply' = [w \in Workers |-> IF w \in answered THEN 0 ELSE reply[w]]
  /\ heard' = heard + Cardinality(answered)
  /\ UNCHANGED <<phase, number, timed, passed, early, lost, strays>>

(* The news of the deadline may end the Job Executor, like that of a death. *)
Pass ==
  /\ phase = "gathering" /\ timed /\ ~passed
  /\ passed' = TRUE
  /\ phase' \in {"gathering", "over"}
  /\ UNCHANGED <<number, timed, waiting, reply, heard, early, lost, strays>>

Report ==
  /\ phase = "gathering" /\ waiting # {}
  /\ passed /\ ~early
  /\ early' = TRUE
  /\ UNCHANGED <<phase, number, timed, waiting, reply, heard, passed, lost, strays>>

(* A deadline that passed and was not seen is forgotten. *)
End ==
  /\ phase = "gathering" /\ waiting = {}
  /\ phase' = "idle"
  /\ passed' = early
  /\ UNCHANGED <<number, timed, waiting, reply, heard, early, lost, strays>>

Lose(w) ==
  /\ lost' = lost \cup {w}
  /\ UNCHANGED <<phase, number, timed, waiting, reply, heard, passed, early, strays>>

(* Its answer is lost with it. *)
Replace(w) ==
  /\ w \in lost /\ phase # "over"
  /\ lost' \in {lost, lost \ {w}}
  /\ reply' = [reply EXCEPT ![w] = 0]
  /\ strays' = IF phase = "asked" THEN strays \cup {w} ELSE strays \ {w}
  /\ phase' = phase \/ (phase = "gathering" /\ phase' = "over")
  /\ UNCHANGED <<number, timed, waiting, heard, passed, early>>

Stop ==
  /\ phase # "over"
  /\ phase' = "over"
  /\ UNCHANGED <<number, timed, waiting, reply, heard, passed, early, lost, strays>>

Next ==
  \/ \E hasDeadline \in BOOLEAN : Ask(hasDeadline)
  \/ Put \/ Pass \/ Report \/ End \/ Stop
  \/ \E w \in Workers : Reply(w) \/ Lose(w) \/ Replace(w)
  \/ \E answered, gone \in SUBSET Workers : Gather(answered, gone)

Spec == Init /\ [][Next]_vars
=============================================================================
