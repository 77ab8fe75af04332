----------------------------- MODULE SearchProofs ------------------------------
(***************************************************************************)
(* Proofs about the control port of the crawler and the Job Executor's     *)
(* pipes: for any clients and workers and any number of their exits, whose *)
(* text a client gets, whether it is all of it, and who ends the Job       *)
(* Executor.                                                               *)
(***************************************************************************)
EXTENDS Search, SequenceLemmas

-----------------------------------------------------------------------------
(* The inductive invariant, in parts *)

(* Type correctness, in parts. *)
MainTyping ==
  /\ mainPc \in {"loop", "start", "startup", "startupMore", "select", "command", "read",
                 "readMore", "ended", "undefined"}
  /\ client \in Clients \cup {Nobody}
  /\ command \in [Clients -> Commands \cup {"none"}]
  /\ threadStop \in BOOLEAN /\ checkThreads \in BOOLEAN
  /\ startedJE \in BOOLEAN /\ jePid \in BOOLEAN

PipeTyping ==
  /\ cmdfd \in Seq(Clients) /\ resultfd \in Seq(PieceType)
  /\ sent \in [Clients -> Seq(PieceType)]

ProcessTyping ==
  /\ je \in {"none", "starting", "input", "search", "late", "flush", "dead"}
  /\ serving \in Clients \cup {Nobody}
  /\ buffer \in Clients \cup {Startup, Nobody}
  /\ sigterm \in BOOLEAN

ChildTyping ==
  /\ inherited \in [Workers -> Clients \cup {Startup, Nobody}]
  /\ running \in SUBSET Workers /\ exits \in 0..MaxExits

ReplyTyping ==
  /\ replied \in [Clients -> {"no", "STATS", "INVALID", "in progress", "not ready",
                              "results", "shutting down"}]
  /\ hurried \in SUBSET Clients
  /\ abandoned \in BOOLEAN

Typing == MainTyping /\ PipeTyping /\ ProcessTyping /\ ChildTyping /\ ReplyTyping

Reading == mainPc \in {"read", "readMore"}

(* What the Job Executor holds.                                            *)
Holding ==
  /\ je \in {"search", "late", "flush"} <=> serving # Nobody
  /\ je \in {"late", "flush"} => buffer = serving
  /\ je = "starting" => buffer = Startup
  /\ je \in {"none", "input", "dead"} => buffer = Nobody
  /\ je = "search" => buffer \in {serving, Nobody}

(* The Job Executor is started once, and main knows it when it has read    *)
(* the startup messages.                                                   *)
Known ==
  /\ checkThreads \/ mainPc = "start" => je = "none"
  /\ mainPc = "start" => ~checkThreads
  /\ mainPc \notin {"startup", "startupMore", "ended", "undefined"} => je # "starting"
  /\ Alive /\ mainPc \notin {"startup", "startupMore", "ended", "undefined"} => jePid

(* A client has one command. *)
OneCommand ==
  /\ mainPc = "command" \/ Reading => client \in Clients /\ command[client] # "none"
  /\ \A c \in Clients : command[c] = "none" => replied[c] = "no"

(* Text of x may still come: x is being read for, was given up, or nobody  *)
(* reads any more.                                                         *)
Accounted(x) ==
  \/ x \in hurried
  \/ x = client /\ Reading
  \/ x = Startup /\ mainPc \in {"startup", "startupMore"}
  \/ mainPc \in {"ended", "undefined"}

AllAccounted ==
  /\ \A x \in Pieces(cmdfd) : Accounted(x)
  /\ serving # Nobody => Accounted(serving)
  /\ buffer # Nobody => Accounted(buffer)
  /\ \A p \in Pieces(resultfd) : p.kind # "copy" => Accounted(p.of)

(* The end of an answer that is being read is to be written, in the pipe,  *)
(* or sent, unless the Job Executor has died.                              *)
LastToCome ==
  Reading /\ command[client] = "SEARCH" =>
    \/ client \in Pieces(cmdfd) \/ serving = client
    \/ Piece(client, "last") \in Pieces(resultfd) \cup Pieces(sent[client])
    \/ je = "dead"

Inv ==
  /\ Typing /\ Holding /\ Known /\ OneCommand /\ AllAccounted /\ LastToCome
  /\ OwnAnswer /\ WholeAnswer /\ NotLeftBehind

-----------------------------------------------------------------------------
(* The pipes as sets *)

LEMMA Written ==
  ASSUME NEW S, NEW q \in Seq(S), NEW e \in S
  PROVE  /\ q \o <<e>> \in Seq(S) /\ q \o <<>> = q
         /\ Pieces(q \o <<e>>) = Pieces(q) \cup {e}
<1>1. q \o <<e>> = Append(q, e) /\ q \o <<>> = q
  OBVIOUS
<1> QED
  BY <1>1, AppendFacts DEF Pieces

LEMMA Added ==
  ASSUME NEW S, NEW q \in Seq(S), NEW e \in S
  PROVE  Append(q, e) \in Seq(S) /\ Pieces(Append(q, e)) = Pieces(q) \cup {e}
BY AppendFacts DEF Pieces

LEMMA Removed ==
  ASSUME NEW S, NEW q \in Seq(S), q # <<>>
  PROVE  /\ Head(q) \in S /\ Tail(q) \in Seq(S)
         /\ Pieces(q) = Pieces(Tail(q)) \cup {Head(q)}
         /\ Pieces(q) \subseteq S
<1>1. /\ Head(q) \in S /\ Tail(q) \in Seq(S) /\ Len(q) \in Nat /\ Len(q) > 0
      /\ Head(q) = q[1] /\ DOMAIN q = 1..Len(q)
      /\ DOMAIN Tail(q) = 1..(Len(q) - 1)
      /\ \A i \in 1..(Len(q) - 1) : Tail(q)[i] = q[i + 1]
  OBVIOUS
<1>2. Pieces(q) \subseteq Pieces(Tail(q)) \cup {Head(q)}
  <2> SUFFICES ASSUME NEW i \in DOMAIN q, i # 1 PROVE q[i] \in Pieces(Tail(q))
    BY <1>1 DEF Pieces
  <2>1. i - 1 \in DOMAIN Tail(q) /\ Tail(q)[i - 1] = q[i]
    BY <1>1
  <2> QED
    BY <2>1 DEF Pieces
<1>3. Pieces(Tail(q)) \cup {Head(q)} \subseteq Pieces(q)
  BY <1>1 DEF Pieces
<1>4. Pieces(q) \subseteq S
  BY DEF Pieces
<1> QED
  BY <1>1, <1>2, <1>3, <1>4

LEMMA NothingIn == Pieces(<<>>) = {}
BY DEF Pieces

LEMMA NextPieces ==
  /\ \A q : resultfd' = q => Pieces(resultfd)' = Pieces(q)
  /\ \A q : cmdfd' = q => Pieces(cmdfd)' = Pieces(q)
BY DEF Pieces

-----------------------------------------------------------------------------
(* The steps, by what they change.  Moves of main (and of the pool) alone: *)

Moves ==
  \/ EndCrawl \/ Poll \/ StartJEFails \/ MoreStartup \/ Started \/ SelectTimesOut
  \/ MoreResults \/ HasDataFails \/ ReadInterrupted \/ ChildHandler \/ Killed \/ SelectFails
  \/ CommandError

(* main reads or answers; the Job Executor and its pipe to main rest. *)
Replies == AnswerStats \/ RefuseSearch \/ EndResults \/ Shutdown

LEMMA StepCases ==
  ASSUME [Next]_vars
  PROVE  \/ Moves \/ Replies \/ StartJE \/ ReadStartup \/ SendSearch \/ ForwardResults
         \/ \E c \in Clients, cmd \in Commands : Accept(c, cmd)
         \/ Ready \/ Die \/ Terminate \/ DropCommand \/ TakeCommand
         \/ \E large \in BOOLEAN : PrintAnswer(large) \/ PrintAtDeadline(large)
         \/ LateAnswers \/ IgnoreWorker \/ Flush
         \/ \E w \in Workers : WorkerExits(w) \/ RestartWorker(w)
         \/ UNCHANGED vars
BY DEF Next, AcceptAny, MainStep, MainFails, JEStep, Gather, Spin, Terminated, Moves, Replies

LEMMA MovesLeaveRest ==
  ASSUME Typing, Moves
  PROVE  /\ UNCHANGED <<client, command, pipes, je, serving, buffer, children, sent, replied,
                        hurried>>
         /\ mainPc' \in {"loop", "start", "startup", "select", "command", "read", "readMore",
                         "startupMore", "ended", "undefined"}
         /\ threadStop' \in BOOLEAN /\ checkThreads' \in BOOLEAN /\ startedJE' \in BOOLEAN
         /\ jePid' \in BOOLEAN /\ sigterm' \in BOOLEAN /\ abandoned' \in BOOLEAN
<1> USE DEF crawler, pipes, process, children, history
<1> USE DEF Typing, MainTyping, ProcessTyping, ReplyTyping
<1>1. CASE Poll
  BY <1>1 DEF Poll
<1>2. CASE EndCrawl \/ StartJEFails
  BY <1>2 DEF EndCrawl, StartJEFails
<1>3. CASE MoreStartup \/ Started
  BY <1>3 DEF MoreStartup, Started
<1>4. CASE SelectTimesOut \/ MoreResults \/ ReadInterrupted \/ ChildHandler \/ Killed
  BY <1>4 DEF SelectTimesOut, MoreResults, ReadInterrupted, ChildHandler, Killed
<1>5. CASE HasDataFails \/ SelectFails \/ CommandError
  <2>1. sigterm' \in BOOLEAN
    BY <1>5 DEF HasDataFails, SelectFails, CommandError, KillJE, Alive
  <2> QED
    BY <1>5, <2>1 DEF HasDataFails, SelectFails, CommandError
<1> QED
  BY <1>1, <1>2, <1>3, <1>4, <1>5 DEF Moves

LEMMA RepliesLeaveRest ==
  ASSUME Replies
  PROVE  /\ UNCHANGED <<client, command, checkThreads, startedJE, jePid, pipes, je, serving,
                        buffer, children, sent, abandoned>>
         /\ mainPc \in {"command", "readMore"} /\ mainPc' \in {"loop", "ended"}
BY DEF Replies, AnswerStats, RefuseSearch, EndResults, Shutdown, process

LEMMA RepliesReply ==
  ASSUME ReplyTyping, client \in Clients, Replies
  PROVE  /\ \E how \in {"STATS", "INVALID", "in progress", "not ready", "results",
                        "shutting down"} :
              replied' = [replied EXCEPT ![client] = how]
         /\ replied'[client] = "results" => EndResults
         /\ hurried' \in {hurried, hurried \cup {client}}
<1> USE DEF ReplyTyping
<1>1. CASE AnswerStats
  BY <1>1 DEF AnswerStats, Close
<1>2. CASE RefuseSearch
  <2>1. PICK how \in {"not ready", "in progress"} : replied' = [replied EXCEPT ![client] = how]
    BY <1>2 DEF RefuseSearch, Close
  <2> QED
    BY <1>2, <2>1 DEF RefuseSearch
<1>3. CASE EndResults
  BY <1>3 DEF EndResults, Close
<1>4. CASE Shutdown
  BY <1>4 DEF Shutdown, Close
<1> QED
  BY <1>1, <1>2, <1>3, <1>4 DEF Replies

(* The steps of the Job Executor and its workers leave main alone. *)
LEMMA ProcessLeavesMain ==
  ASSUME \/ Ready \/ Die \/ Terminate \/ DropCommand \/ TakeCommand \/ LateAnswers
         \/ IgnoreWorker \/ Flush
         \/ \E large \in BOOLEAN : PrintAnswer(large) \/ PrintAtDeadline(large)
         \/ \E w \in Workers : WorkerExits(w) \/ RestartWorker(w)
         \/ UNCHANGED vars
  PROVE  UNCHANGED <<mainPc, client, command, checkThreads, startedJE, jePid, threadStop,
                     sigterm, sent, replied, hurried, abandoned>>
BY DEF Ready, Die, Terminate, DropCommand, TakeCommand, LateAnswers, IgnoreWorker, Flush,
       PrintAnswer, PrintAtDeadline, WorkerExits, RestartWorker, vars, crawler, process, history

-----------------------------------------------------------------------------
(* Each part is kept *)

LEMMA MainTypingStep ==
  ASSUME MainTyping, [Next]_vars
  PROVE  MainTyping'
<1> USE DEF MainTyping
<1>1. CASE Moves
  BY <1>1 DEF Moves, EndCrawl, Poll, StartJEFails, MoreStartup, Started, SelectTimesOut,
     MoreResults, HasDataFails, ReadInterrupted, ChildHandler, Killed, SelectFails,
     CommandError, crawler
<1>2. CASE Replies
  BY <1>2 DEF Replies, AnswerStats, RefuseSearch, EndResults, Shutdown
<1>3. CASE StartJE \/ ReadStartup \/ SendSearch \/ ForwardResults
  BY <1>3 DEF StartJE, ReadStartup, SendSearch, ForwardResults
<1>4. ASSUME NEW c \in Clients, NEW cmd \in Commands, Accept(c, cmd) PROVE MainTyping'
  BY <1>4 DEF Accept
<1>5. CASE UNCHANGED <<mainPc, client, command, threadStop, checkThreads, startedJE, jePid>>
  BY <1>5
<1> QED
  BY <1>1, <1>2, <1>3, <1>4, <1>5, StepCases, ProcessLeavesMain

LEMMA PipeTypingStep ==
  ASSUME Typing, Holding, OneCommand, [Next]_vars
  PROVE  PipeTyping'
<1> USE DEF Typing, PipeTyping
<1>a. Startup # Nobody /\ Nobody \notin Clients /\ Startup \notin Clients
  BY SearchAssumption
<1>1. CASE UNCHANGED <<cmdfd, resultfd, sent>>
  BY <1>1
<1>2. CASE Moves \/ Replies
  BY <1>2, <1>1, MovesLeaveRest, RepliesLeaveRest DEF pipes
<1>3. CASE StartJE
  BY <1>3, <1>1 DEF StartJE, pipes, history
<1>4. CASE ReadStartup
  BY <1>4, Removed DEF ReadStartup, history
<1>5. CASE SendSearch
  <2>1. client \in Clients
    BY <1>5 DEF SendSearch, OneCommand
  <2> QED
    BY <1>5, <2>1, Added DEF SendSearch, history
<1>6. CASE ForwardResults
  <2>1. client \in Clients /\ Head(resultfd) \in PieceType /\ Tail(resultfd) \in Seq(PieceType)
    BY <1>6, Removed DEF ForwardResults, OneCommand, Reading
  <2>2. Append(sent[client], Head(resultfd)) \in Seq(PieceType)
    BY <2>1, Added
  <2> QED
    BY <1>6, <2>1, <2>2 DEF ForwardResults
<1>7. ASSUME NEW c \in Clients, NEW cmd \in Commands, Accept(c, cmd) PROVE PipeTyping'
  BY <1>7, <1>1 DEF Accept, pipes, history
<1>8. CASE Ready
  <2>1. Piece(Startup, "last") \in PieceType
    BY DEF Piece, PieceType
  <2> QED
    BY <1>8, <2>1, Written DEF Ready, Write, history
<1>9. CASE Die
  <2>1. buffer # Nobody => Piece(buffer, "part") \in PieceType
    BY DEF ProcessTyping, Piece, PieceType
  <2>2. resultfd' \in Seq(PieceType)
    BY <1>9, <2>1, Written DEF Die, Write
  <2> QED
    BY <1>9, <2>2 DEF Die, history
<1>10. CASE Terminate \/ LateAnswers \/ IgnoreWorker
  BY <1>10, <1>1 DEF Terminate, LateAnswers, IgnoreWorker, pipes, history
<1>11. CASE DropCommand \/ TakeCommand
  <2>1. Tail(cmdfd) \in Seq(Clients)
    BY <1>11, Removed DEF DropCommand, TakeCommand
  <2> QED
    BY <1>11, <2>1 DEF DropCommand, TakeCommand, history
<1>12. ASSUME NEW large \in BOOLEAN, PrintAnswer(large) \/ PrintAtDeadline(large)
       PROVE  PipeTyping'
  <2>1. Piece(serving, "part") \in PieceType
    BY <1>12 DEF PrintAnswer, PrintAtDeadline, Holding, ProcessTyping, Piece, PieceType
  <2>2. resultfd' = IF large THEN resultfd \o <<Piece(serving, "part")>> ELSE resultfd \o <<>>
    BY <1>12 DEF PrintAnswer, PrintAtDeadline, Overflow, Write
  <2>3. resultfd' \in Seq(PieceType)
    BY <2>1, <2>2, Written
  <2> QED
    BY <1>12, <2>3 DEF PrintAnswer, PrintAtDeadline, history
<1>13. CASE Flush
  <2>1. Piece(serving, "last") \in PieceType
    BY <1>13 DEF Flush, Holding, ProcessTyping, Piece, PieceType
  <2> QED
    BY <1>13, <2>1, Written DEF Flush, Write, history
<1>14. ASSUME NEW w \in Workers, WorkerExits(w) PROVE PipeTyping'
  <2>1. Piece(inherited[w], "copy") \in PieceType
    BY DEF ChildTyping, Piece, PieceType
  <2> QED
    BY <1>14, <2>1, Written DEF WorkerExits, Write, history
<1>15. ASSUME NEW w \in Workers, RestartWorker(w) PROVE PipeTyping'
  BY <1>15, <1>1 DEF RestartWorker, pipes, history
<1>16. CASE UNCHANGED vars
  BY <1>16, <1>1 DEF vars, pipes, history
<1> QED
  BY <1>2, <1>3, <1>4, <1>5, <1>6, <1>7, <1>8, <1>9, <1>10, <1>11, <1>12, <1>13, <1>14, <1>15,
     <1>16, StepCases

LEMMA ProcessTypingStep ==
  ASSUME Typing, [Next]_vars
  PROVE  ProcessTyping'
<1> USE DEF ProcessTyping
<1>1. CASE Moves
  BY <1>1, MovesLeaveRest DEF Typing
<1>2. CASE Replies
  BY <1>2 DEF Replies, AnswerStats, RefuseSearch, EndResults, Shutdown, KillJE, Alive, process,
     Typing
<1>3. CASE StartJE \/ ReadStartup \/ SendSearch \/ ForwardResults
  BY <1>3 DEF StartJE, ReadStartup, SendSearch, ForwardResults, process, Typing
<1>4. ASSUME NEW c \in Clients, NEW cmd \in Commands, Accept(c, cmd) PROVE ProcessTyping'
  BY <1>4 DEF Accept, process, Typing
<1>5. CASE TakeCommand
  <2>1. Head(cmdfd) \in Clients
    BY <1>5, Removed DEF TakeCommand, Typing, PipeTyping
  <2> QED
    BY <1>5, <2>1 DEF TakeCommand, Typing
<1>6. CASE Ready \/ Die \/ Terminate \/ DropCommand \/ LateAnswers \/ IgnoreWorker \/ Flush
  BY <1>6 DEF Ready, Die, Terminate, DropCommand, LateAnswers, IgnoreWorker, Flush, process, Typing
<1>7. ASSUME NEW large \in BOOLEAN, PrintAnswer(large) \/ PrintAtDeadline(large)
      PROVE  ProcessTyping'
  BY <1>7 DEF PrintAnswer, PrintAtDeadline, Typing
<1>8. ASSUME NEW w \in Workers, WorkerExits(w) \/ RestartWorker(w) PROVE ProcessTyping'
  BY <1>8 DEF WorkerExits, RestartWorker, process, Typing
<1>9. CASE UNCHANGED vars
  BY <1>9 DEF vars, process, Typing
<1> QED
  BY <1>1, <1>2, <1>3, <1>4, <1>5, <1>6, <1>7, <1>8, <1>9, StepCases

LEMMA ChildTypingStep ==
  ASSUME Typing, OneCommand, [Next]_vars
  PROVE  ChildTyping'
<1> USE DEF Typing, ChildTyping
<1>1. CASE UNCHANGED children
  BY <1>1 DEF children
<1>2. CASE Moves \/ Replies
  BY <1>2, <1>1, MovesLeaveRest, RepliesLeaveRest
<1>3. CASE StartJE
  BY <1>3 DEF StartJE
<1>4. ASSUME NEW w \in Workers, WorkerExits(w) PROVE ChildTyping'
  <2>1. exits' \in 0..MaxExits
    BY <1>4, SearchAssumption DEF WorkerExits
  <2> QED
    BY <1>4, <2>1 DEF WorkerExits
<1>5. ASSUME NEW w \in Workers, RestartWorker(w) PROVE ChildTyping'
  BY <1>5 DEF RestartWorker, ProcessTyping
<1>6. CASE ReadStartup \/ SendSearch \/ ForwardResults
  BY <1>6, <1>1 DEF ReadStartup, SendSearch, ForwardResults
<1>7. ASSUME NEW c \in Clients, NEW cmd \in Commands, Accept(c, cmd) PROVE ChildTyping'
  BY <1>7, <1>1 DEF Accept
<1>8. CASE \/ Ready \/ Die \/ Terminate \/ DropCommand \/ TakeCommand \/ LateAnswers
           \/ IgnoreWorker \/ Flush
  BY <1>8, <1>1 DEF Ready, Die, Terminate, DropCommand, TakeCommand, LateAnswers, IgnoreWorker,
     Flush
<1>9. ASSUME NEW large \in BOOLEAN, PrintAnswer(large) \/ PrintAtDeadline(large)
      PROVE  ChildTyping'
  BY <1>9, <1>1 DEF PrintAnswer, PrintAtDeadline
<1>10. CASE UNCHANGED vars
  BY <1>10, <1>1 DEF vars
<1> QED
  BY <1>2, <1>3, <1>4, <1>5, <1>6, <1>7, <1>8, <1>9, <1>10, StepCases

LEMMA ReplyTypingStep ==
  ASSUME Typing, OneCommand, [Next]_vars
  PROVE  ReplyTyping'
<1> USE DEF Typing, ReplyTyping
<1>1. CASE UNCHANGED <<replied, hurried, abandoned>>
  BY <1>1
<1>2. CASE Moves
  BY <1>2, MovesLeaveRest
<1>3. CASE Replies
  <2>1. client \in Clients
    BY <1>3 DEF OneCommand, Reading, Replies, AnswerStats, RefuseSearch, EndResults, Shutdown
  <2> QED
    BY <1>3, <2>1, RepliesLeaveRest, RepliesReply
<1>4. CASE StartJE \/ ReadStartup \/ SendSearch \/ ForwardResults
  BY <1>4, <1>1 DEF StartJE, ReadStartup, SendSearch, ForwardResults, history
<1>5. ASSUME NEW c \in Clients, NEW cmd \in Commands, Accept(c, cmd) PROVE ReplyTyping'
  BY <1>5, <1>1 DEF Accept, history
<1> QED
  BY <1>1, <1>2, <1>3, <1>4, <1>5, StepCases, ProcessLeavesMain

LEMMA TypingStep ==
  ASSUME Typing, Holding, OneCommand, [Next]_vars
  PROVE  Typing'
BY MainTypingStep, PipeTypingStep, ProcessTypingStep, ChildTypingStep, ReplyTypingStep DEF Typing

LEMMA HoldingStep ==
  ASSUME Typing, Holding, Known, OneCommand, [Next]_vars
  PROVE  Holding'
<1> USE DEF Holding
<1>a. Startup # Nobody /\ Nobody \notin Clients /\ Startup \notin Clients
  BY SearchAssumption
<1>1. CASE Moves
  BY <1>1, MovesLeaveRest DEF pipes
<1>2. CASE Replies
  BY <1>2, RepliesLeaveRest DEF pipes
<1>3. CASE StartJE \/ ReadStartup \/ SendSearch \/ ForwardResults
  BY <1>3, <1>a DEF StartJE, ReadStartup, SendSearch, ForwardResults, process, Known, pipes
<1>4. ASSUME NEW c \in Clients, NEW cmd \in Commands, Accept(c, cmd) PROVE Holding'
  BY <1>4 DEF Accept, pipes, process
<1>5. CASE Ready \/ Die \/ Terminate \/ DropCommand \/ LateAnswers \/ IgnoreWorker \/ Flush
  BY <1>5 DEF Ready, Die, Terminate, DropCommand, LateAnswers, IgnoreWorker, Flush, process, Alive
<1>6. CASE TakeCommand
  <2>1. Head(cmdfd) \in Clients
    BY <1>6, Removed DEF TakeCommand, Typing, PipeTyping
  <2> QED
    BY <1>6, <2>1, <1>a DEF TakeCommand
<1>7. ASSUME NEW large \in BOOLEAN, PrintAnswer(large) \/ PrintAtDeadline(large) PROVE Holding'
  BY <1>7 DEF PrintAnswer, PrintAtDeadline
<1>8. ASSUME NEW w \in Workers, WorkerExits(w) \/ RestartWorker(w) PROVE Holding'
  BY <1>8 DEF WorkerExits, RestartWorker, process, pipes
<1>9. CASE UNCHANGED vars
  BY <1>9 DEF vars, process, pipes
<1> QED
  BY <1>1, <1>2, <1>3, <1>4, <1>5, <1>6, <1>7, <1>8, <1>9, StepCases

LEMMA KnownStep ==
  ASSUME Typing, Holding, Known, OneCommand, [Next]_vars
  PROVE  Known'
<1> USE DEF Known, Alive
<1>1. CASE Moves
  <2>1. CASE Poll
    BY <2>1 DEF Poll, process, Typing, MainTyping
  <2>2. CASE \/ StartJEFails \/ HasDataFails \/ ReadInterrupted \/ ChildHandler \/ Killed
             \/ SelectFails \/ CommandError
    BY <2>2 DEF StartJEFails, HasDataFails, ReadInterrupted, ChildHandler, Killed, SelectFails,
       CommandError, process
  <2>3. CASE EndCrawl \/ MoreStartup \/ SelectTimesOut \/ MoreResults
    BY <2>3 DEF EndCrawl, MoreStartup, SelectTimesOut, MoreResults, crawler, process
  <2>4. CASE Started
    BY <2>4 DEF Started, Silence, process
  <2> QED
    BY <1>1, <2>1, <2>2, <2>3, <2>4 DEF Moves
<1>2. CASE Replies
  BY <1>2, RepliesLeaveRest
<1>3. CASE StartJE \/ SendSearch \/ ForwardResults
  BY <1>3 DEF StartJE, SendSearch, ForwardResults, process, Typing, MainTyping
<1>4. CASE ReadStartup
  BY <1>4 DEF ReadStartup, process, Holding
<1>5. ASSUME NEW c \in Clients, NEW cmd \in Commands, Accept(c, cmd) PROVE Known'
  BY <1>5 DEF Accept, process
<1>6. CASE \/ Ready \/ Die \/ Terminate \/ DropCommand \/ TakeCommand \/ LateAnswers
           \/ IgnoreWorker \/ Flush
  BY <1>6 DEF Ready, Die, Terminate, DropCommand, TakeCommand, LateAnswers, IgnoreWorker, Flush,
     process, crawler
<1>7. ASSUME NEW large \in BOOLEAN, PrintAnswer(large) \/ PrintAtDeadline(large) PROVE Known'
  BY <1>7 DEF PrintAnswer, PrintAtDeadline, crawler
<1>8. ASSUME NEW w \in Workers, WorkerExits(w) \/ RestartWorker(w) PROVE Known'
  BY <1>8 DEF WorkerExits, RestartWorker, process, crawler
<1>9. CASE UNCHANGED vars
  BY <1>9 DEF vars, process, crawler
<1> QED
  BY <1>1, <1>2, <1>3, <1>4, <1>5, <1>6, <1>7, <1>8, <1>9, StepCases

LEMMA OneCommandStep ==
  ASSUME Typing, OneCommand, [Next]_vars
  PROVE  OneCommand'
<1> USE DEF OneCommand, Reading
<1>1. CASE Moves
  BY <1>1 DEF Moves, EndCrawl, Poll, StartJEFails, MoreStartup, Started, SelectTimesOut,
     MoreResults, HasDataFails, ReadInterrupted, ChildHandler, Killed, SelectFails,
     CommandError, crawler, history
<1>2. CASE Replies
  <2>1. client \in Clients /\ command[client] # "none"
    BY <1>2, RepliesLeaveRest
  <2>2. \A c \in Clients : c # client => replied'[c] = replied[c]
    BY <1>2, <2>1, RepliesReply DEF Typing, ReplyTyping
  <2> QED
    BY <1>2, <2>1, <2>2, RepliesLeaveRest
<1>3. CASE StartJE \/ ReadStartup \/ SendSearch \/ ForwardResults
  BY <1>3 DEF StartJE, ReadStartup, SendSearch, ForwardResults, history
<1>4. ASSUME NEW c \in Clients, NEW cmd \in Commands, Accept(c, cmd) PROVE OneCommand'
  BY <1>4 DEF Accept, history, Typing, MainTyping, Commands
<1> QED
  BY <1>1, <1>2, <1>3, <1>4, StepCases, ProcessLeavesMain

-----------------------------------------------------------------------------
(* Whose text is where *)

(* Steps that end no reading keep what is accounted for. *)
LEMMA AccountedStays ==
  ASSUME NEW x, Accounted(x), [Next]_vars, ~Started, ~EndResults
  PROVE  Accounted(x)'
<1> USE DEF Accounted, Reading
<1>1. CASE Moves
  BY <1>1 DEF Moves, EndCrawl, Poll, StartJEFails, MoreStartup, SelectTimesOut,
     MoreResults, HasDataFails, ReadInterrupted, ChildHandler, Killed, SelectFails,
     CommandError, crawler, history
<1>2. CASE Replies
  BY <1>2 DEF Replies, AnswerStats, RefuseSearch, Shutdown
<1>3. CASE StartJE \/ ReadStartup \/ SendSearch \/ ForwardResults
  BY <1>3 DEF StartJE, ReadStartup, SendSearch, ForwardResults, history
<1>4. ASSUME NEW c \in Clients, NEW cmd \in Commands, Accept(c, cmd) PROVE Accounted(x)'
  BY <1>4 DEF Accept, history
<1> QED
  BY <1>1, <1>2, <1>3, <1>4, StepCases, ProcessLeavesMain

(* A step keeps AllAccounted if what is new in a place was in another, is  *)
(* accounted for, or is a copy.                                            *)
LEMMA AccountedMoves ==
  ASSUME AllAccounted, [Next]_vars, ~Started, ~EndResults,
         \A x \in Pieces(cmdfd)' : x \in Pieces(cmdfd) \/ Accounted(x)',
         serving' \in Pieces(cmdfd) \cup {serving, Nobody},
         buffer' \in {buffer, serving, Nobody} \/ Accounted(buffer)',
         \A p \in Pieces(resultfd)' : \/ p \in Pieces(resultfd) \/ p.kind = "copy"
                                      \/ p.of \in {serving, buffer} \ {Nobody}
  PROVE  AllAccounted'
<1>1. \A x : Accounted(x) => Accounted(x)'
  BY AccountedStays
<1>2. \A x \in Pieces(cmdfd) : Accounted(x)'
  BY <1>1 DEF AllAccounted
<1>3. serving # Nobody => Accounted(serving)
  BY DEF AllAccounted
<1>4. buffer # Nobody => Accounted(buffer)
  BY DEF AllAccounted
<1>5. \A p \in Pieces(resultfd) : p.kind # "copy" => Accounted(p.of)
  BY DEF AllAccounted
<1>6. (\A x \in Pieces(cmdfd) : Accounted(x))'
  BY <1>2
<1>7. (serving # Nobody => Accounted(serving))'
  BY <1>1, <1>2, <1>3 DEF Accounted, Reading
<1>8. (buffer # Nobody => Accounted(buffer))'
  BY <1>1, <1>3, <1>4 DEF Accounted, Reading
<1>9. (\A p \in Pieces(resultfd) : p.kind # "copy" => Accounted(p.of))'
  BY <1>1, <1>3, <1>4, <1>5
<1> QED
  BY <1>6, <1>7, <1>8, <1>9 DEF AllAccounted

LEMMA AccountedStep ==
  ASSUME Typing, Holding, Known, OneCommand, AllAccounted, [Next]_vars
  PROVE  AllAccounted'
<1>a. Startup # Nobody /\ Nobody \notin Clients /\ Startup \notin Clients
  BY SearchAssumption
<1>b. Pieces(cmdfd) \subseteq Clients /\ Pieces(resultfd) \subseteq PieceType
  BY DEF Typing, PipeTyping, Pieces
<1>1. CASE Started
  <2>1. UNCHANGED <<cmdfd, resultfd, serving, buffer, hurried>>
    BY <1>1 DEF Started, pipes, process, history
  <2>2. resultfd = <<>> /\ mainPc = "startupMore"
    BY <1>1 DEF Started, Silence
  <2>3. serving # Startup /\ buffer # Startup
    BY <1>1, <1>a DEF Started, Silence, Holding, Typing, ProcessTyping
  <2>4. \A x : x # Startup /\ Accounted(x) => Accounted(x)'
    BY <2>1, <2>2 DEF Accounted, Reading
  <2>5. Pieces(resultfd)' = {} /\ Pieces(cmdfd)' = Pieces(cmdfd)
    BY <2>1, <2>2, NothingIn
  <2> QED
    BY <2>1, <2>3, <2>4, <2>5, <1>a, <1>b DEF AllAccounted
<1>2. CASE EndResults
  <2>1. UNCHANGED <<client, cmdfd, resultfd, serving, buffer>>
    BY <1>2 DEF EndResults, pipes, process
  <2>2. resultfd = <<>> /\ mainPc = "readMore"
    BY <1>2 DEF EndResults, Silence
  <2>3. /\ hurried \subseteq hurried'
        /\ client \in Pieces(cmdfd) \/ serving = client => client \in hurried'
    BY <1>2 DEF EndResults, Outstanding, Pieces
  <2>4. buffer = client => serving = client
    BY <2>2, <1>a DEF Holding, OneCommand, Reading, Typing, ProcessTyping
  <2>5. \A x : Accounted(x) => x = client \/ x \in hurried'
    BY <2>2, <2>3 DEF Accounted, Reading
  <2>6. \A x : x \in hurried' => Accounted(x)'
    BY DEF Accounted
  <2>7. Pieces(resultfd)' = {} /\ Pieces(cmdfd)' = Pieces(cmdfd)
    BY <2>1, <2>2, NothingIn
  <2>8. /\ \A x \in Pieces(cmdfd) : x \in hurried'
        /\ serving # Nobody => serving \in hurried'
        /\ buffer # Nobody => buffer \in hurried'
    BY <2>3, <2>4, <2>5 DEF AllAccounted
  <2> QED
    BY <2>1, <2>6, <2>7, <2>8 DEF AllAccounted
<1> SUFFICES ASSUME ~Started, ~EndResults PROVE AllAccounted'
  BY <1>1, <1>2
<1>3. CASE Moves
  BY <1>3, MovesLeaveRest, AccountedMoves, NextPieces DEF pipes
<1>4. CASE Replies
  BY <1>4, RepliesLeaveRest, AccountedMoves, NextPieces DEF pipes
<1>5. CASE StartJE
  <2>1. Accounted(buffer)'
    BY <1>5 DEF StartJE, Accounted
  <2> QED
    BY <1>5, <2>1, AccountedMoves, NextPieces DEF StartJE, pipes
<1>6. CASE ReadStartup
  <2>1. Pieces(resultfd)' \subseteq Pieces(resultfd)
    BY <1>6, Removed, NextPieces DEF ReadStartup, Typing, PipeTyping
  <2> QED
    BY <1>6, <2>1, AccountedMoves, NextPieces DEF ReadStartup, process
<1>7. CASE SendSearch
  <2>1. Pieces(cmdfd)' = Pieces(cmdfd) \cup {client}
    BY <1>7, Added, NextPieces DEF SendSearch, Typing, PipeTyping, OneCommand
  <2>2. Accounted(client)' /\ client' = client
    BY <1>7 DEF SendSearch, Accounted, Reading
  <2>3. \A x \in Pieces(cmdfd)' : x \in Pieces(cmdfd) \/ Accounted(x)'
    BY <2>1, <2>2
  <2> QED
    BY <1>7, <2>3, AccountedMoves, NextPieces DEF SendSearch, process
<1>8. CASE ForwardResults
  <2>1. Pieces(resultfd)' \subseteq Pieces(resultfd)
    BY <1>8, Removed, NextPieces DEF ForwardResults, Typing, PipeTyping
  <2> QED
    BY <1>8, <2>1, AccountedMoves, NextPieces DEF ForwardResults, process
<1>9. ASSUME NEW c \in Clients, NEW cmd \in Commands, Accept(c, cmd) PROVE AllAccounted'
  BY <1>9, AccountedMoves, NextPieces DEF Accept, pipes, process
<1>10. CASE Ready
  <2>1. Pieces(resultfd)' = Pieces(resultfd) \cup {Piece(Startup, "last")}
    BY <1>10, Written, NextPieces, <1>a DEF Ready, Write, Typing, PipeTyping, Piece, PieceType
  <2>2. Piece(Startup, "last").of \in {serving, buffer} \ {Nobody}
    BY <1>10, <1>a DEF Ready, Holding, Piece
  <2> QED
    BY <1>10, <2>1, <2>2, AccountedMoves, NextPieces DEF Ready
<1>11. CASE Die
  <2>1. buffer = Nobody => Pieces(resultfd)' = Pieces(resultfd)
    BY <1>11, Written, NextPieces DEF Die, Write, Typing, PipeTyping
  <2>2. buffer # Nobody => /\ Piece(buffer, "part") \in PieceType
                           /\ Piece(buffer, "part").of = buffer
    BY DEF Typing, ProcessTyping, Piece, PieceType
  <2>3. buffer # Nobody => Pieces(resultfd)' = Pieces(resultfd) \cup {Piece(buffer, "part")}
    BY <1>11, <2>2, Written, NextPieces DEF Die, Write, Typing, PipeTyping
  <2> QED
    BY <1>11, <2>1, <2>2, <2>3, AccountedMoves, NextPieces DEF Die
<1>12. CASE Terminate
  BY <1>12, AccountedMoves, NextPieces DEF Terminate, pipes
<1>13. CASE DropCommand
  <2>1. Pieces(cmdfd)' \subseteq Pieces(cmdfd)
    BY <1>13, Removed, NextPieces DEF DropCommand, Typing, PipeTyping
  <2> QED
    BY <1>13, <2>1, AccountedMoves, NextPieces DEF DropCommand, process
<1>14. CASE TakeCommand
  <2>1. Pieces(cmdfd)' \subseteq Pieces(cmdfd) /\ Head(cmdfd) \in Pieces(cmdfd)
    BY <1>14, Removed, NextPieces DEF TakeCommand, Typing, PipeTyping
  <2> QED
    BY <1>14, <2>1, AccountedMoves, NextPieces DEF TakeCommand
<1>15. ASSUME NEW large \in BOOLEAN, PrintAnswer(large) \/ PrintAtDeadline(large)
       PROVE  AllAccounted'
  <2>1. Piece(serving, "part") \in PieceType /\ serving # Nobody
    BY <1>15 DEF PrintAnswer, PrintAtDeadline, Holding, Typing, ProcessTyping, Piece, PieceType
  <2>2. resultfd' \in {resultfd \o <<Piece(serving, "part")>>, resultfd \o <<>>}
    BY <1>15 DEF PrintAnswer, PrintAtDeadline, Overflow, Write
  <2>3. /\ resultfd \o <<>> = resultfd
        /\ Pieces(resultfd \o <<Piece(serving, "part")>>) =
             Pieces(resultfd) \cup {Piece(serving, "part")}
    BY <2>1, Written DEF Typing, PipeTyping
  <2>4. Pieces(resultfd)' \subseteq Pieces(resultfd) \cup {Piece(serving, "part")}
    BY <2>2, <2>3, NextPieces
  <2>5. Piece(serving, "part").of = serving
    BY DEF Piece
  <2> QED
    BY <1>15, <2>1, <2>4, <2>5, AccountedMoves, NextPieces DEF PrintAnswer, PrintAtDeadline
<1>16. CASE LateAnswers \/ IgnoreWorker
  BY <1>16, AccountedMoves, NextPieces DEF LateAnswers, IgnoreWorker, pipes
<1>17. CASE Flush
  <2>1. Piece(serving, "last") \in PieceType /\ serving # Nobody
    BY <1>17 DEF Flush, Holding, Typing, ProcessTyping, Piece, PieceType
  <2>2. Pieces(resultfd)' = Pieces(resultfd) \cup {Piece(serving, "last")}
    BY <1>17, <2>1, Written, NextPieces DEF Flush, Write, Typing, PipeTyping
  <2>3. Piece(serving, "last").of = serving
    BY DEF Piece
  <2> QED
    BY <1>17, <2>1, <2>2, <2>3, AccountedMoves, NextPieces DEF Flush
<1>18. ASSUME NEW w \in Workers, WorkerExits(w) PROVE AllAccounted'
  <2>1. Piece(inherited[w], "copy") \in PieceType /\ Piece(inherited[w], "copy").kind = "copy"
    BY DEF Typing, ChildTyping, Piece, PieceType
  <2>2. Pieces(resultfd)' = Pieces(resultfd) \cup {Piece(inherited[w], "copy")}
    BY <1>18, <2>1, Written, NextPieces DEF WorkerExits, Write, Typing, PipeTyping
  <2> QED
    BY <1>18, <2>1, <2>2, AccountedMoves, NextPieces DEF WorkerExits, process
<1>19. ASSUME NEW w \in Workers, RestartWorker(w) PROVE AllAccounted'
  BY <1>19, AccountedMoves, NextPieces DEF RestartWorker, process, pipes
<1>20. CASE UNCHANGED vars
  BY <1>20, AccountedMoves, NextPieces DEF vars, process, pipes
<1> QED
  BY <1>3, <1>4, <1>5, <1>6, <1>7, <1>8, <1>9, <1>10, <1>11, <1>12, <1>13, <1>14, <1>15, <1>16,
     <1>17, <1>18, <1>19, <1>20, StepCases

-----------------------------------------------------------------------------
(* What the clients were sent *)

(* Nothing is taken back, and only ForwardResults sends. *)
LEMMA SentGrows ==
  ASSUME Typing, OneCommand, [Next]_vars
  PROVE  /\ hurried \subseteq hurried'
         /\ ~ForwardResults => sent' = sent
<1>1. CASE Moves
  BY <1>1, MovesLeaveRest
<1>2. CASE Replies
  BY <1>2, RepliesLeaveRest DEF Replies, AnswerStats, RefuseSearch, EndResults, Shutdown
<1>3. CASE StartJE \/ ReadStartup \/ SendSearch \/ ForwardResults
  BY <1>3 DEF StartJE, ReadStartup, SendSearch, ForwardResults, history
<1>4. ASSUME NEW c \in Clients, NEW cmd \in Commands, Accept(c, cmd)
      PROVE  hurried' = hurried /\ sent' = sent
  BY <1>4 DEF Accept, history
<1> QED
  BY <1>1, <1>2, <1>3, <1>4, StepCases, ProcessLeavesMain

LEMMA Forwarded ==
  ASSUME Typing, OneCommand, ForwardResults
  PROVE  /\ client \in Clients /\ mainPc = "read" /\ mainPc' = "readMore"
         /\ Head(resultfd) \in Pieces(resultfd)
         /\ Pieces(resultfd) = Pieces(resultfd)' \cup {Head(resultfd)}
         /\ \A c \in Clients : Pieces(sent[c])' =
              Pieces(sent[c]) \cup (IF c = client THEN {Head(resultfd)} ELSE {})
<1>1. client \in Clients /\ mainPc = "read" /\ mainPc' = "readMore"
  BY DEF ForwardResults, OneCommand, Reading
<1>2. /\ Head(resultfd) \in PieceType
      /\ Pieces(resultfd) = Pieces(Tail(resultfd)) \cup {Head(resultfd)}
  BY Removed DEF ForwardResults, Typing, PipeTyping
<1>3. Pieces(resultfd)' = Pieces(Tail(resultfd))
  BY NextPieces DEF ForwardResults
<1>4. ASSUME NEW c \in Clients
      PROVE  Pieces(sent[c])' =
               Pieces(sent[c]) \cup (IF c = client THEN {Head(resultfd)} ELSE {})
  <2>1. sent'[c] = IF c = client THEN Append(sent[c], Head(resultfd)) ELSE sent[c]
    BY DEF ForwardResults, Typing, PipeTyping
  <2>2. Pieces(Append(sent[c], Head(resultfd))) = Pieces(sent[c]) \cup {Head(resultfd)}
    BY <1>2, Added DEF Typing, PipeTyping
  <2>3. Pieces(sent[c])' = Pieces(sent'[c])
    BY DEF Pieces
  <2> QED
    BY <2>1, <2>2, <2>3
<1> QED
  BY <1>1, <1>2, <1>3, <1>4

LEMMA OwnAnswerStep ==
  ASSUME Typing, OneCommand, AllAccounted, OwnAnswer, [Next]_vars
  PROVE  OwnAnswer'
<1>1. CASE ForwardResults
  <2>1. Head(resultfd).kind # "copy" => Head(resultfd).of \in hurried \cup {client}
    BY <1>1, Forwarded DEF AllAccounted, Accounted, Reading
  <2>2. hurried \subseteq hurried'
    BY SentGrows
  <2> SUFFICES ASSUME NEW c \in Clients, NEW p \in Pieces(sent[c])'
               PROVE  p.of = c \/ p.of \in hurried' \/ p.kind = "copy"
    BY DEF OwnAnswer
  <2>3. CASE p \in Pieces(sent[c])
    BY <2>2, <2>3 DEF OwnAnswer
  <2>4. CASE p = Head(resultfd) /\ c = client
    BY <2>1, <2>2, <2>4
  <2> QED
    BY <1>1, <2>3, <2>4, Forwarded
<1>2. CASE ~ForwardResults
  BY <1>2, SentGrows DEF OwnAnswer, Pieces
<1> QED
  BY <1>1, <1>2

LEMMA LastToComeStep ==
  ASSUME Typing, Holding, OneCommand, LastToCome, [Next]_vars
  PROVE  LastToCome'
<1> SUFFICES ASSUME Reading', command'[client'] = "SEARCH"
             PROVE  \/ client' \in Pieces(cmdfd)' \/ serving' = client'
                    \/ /\ client' = client
                       /\ Piece(client, "last") \in Pieces(resultfd)' \cup Pieces(sent[client])'
                    \/ je' = "dead"
  BY DEF LastToCome, Piece
<1>1. CASE Moves
  <2>1. Reading
    BY <1>1 DEF Moves, EndCrawl, Poll, StartJEFails, MoreStartup, Started, SelectTimesOut,
       MoreResults, HasDataFails, ReadInterrupted, ChildHandler, Killed, SelectFails,
       CommandError, Reading, crawler
  <2>2. /\ UNCHANGED <<client, command, serving, je>>
        /\ Pieces(cmdfd)' = Pieces(cmdfd) /\ Pieces(resultfd)' = Pieces(resultfd)
        /\ Pieces(sent[client])' = Pieces(sent[client])
    BY <1>1, MovesLeaveRest, NextPieces DEF pipes, Pieces
  <2> QED
    BY <2>1, <2>2 DEF LastToCome
<1>2. CASE Replies \/ StartJE \/ ReadStartup
  BY <1>2, RepliesLeaveRest DEF StartJE, ReadStartup, Reading
<1>3. ASSUME NEW c \in Clients, NEW cmd \in Commands, Accept(c, cmd) PROVE FALSE
  BY <1>3 DEF Accept, Reading
<1>4. CASE SendSearch
  <2>1. Pieces(cmdfd)' = Pieces(cmdfd) \cup {client}
    BY <1>4, Added, NextPieces DEF SendSearch, Typing, PipeTyping, OneCommand
  <2> QED
    BY <1>4, <2>1 DEF SendSearch
<1>5. CASE ForwardResults
  <2>1. UNCHANGED <<client, command, serving, je>> /\ Pieces(cmdfd)' = Pieces(cmdfd)
    BY <1>5, NextPieces DEF ForwardResults, process
  <2>2. Reading /\ client \in Clients
    BY <1>5, Forwarded DEF Reading
  <2>3. \A c \in Clients : c = client =>
          Pieces(sent[c])' = Pieces(sent[c]) \cup {Head(resultfd)}
    BY <1>5, Forwarded
  <2>4. Pieces(sent[client])' = Pieces(sent'[client]) /\ \A c : Pieces(sent[c])' = Pieces(sent'[c])
    BY <2>1 DEF Pieces
  <2>5. Pieces(sent[client])' = Pieces(sent[client]) \cup {Head(resultfd)}
    BY <2>2, <2>3, <2>4
  <2>6. Pieces(resultfd) = Pieces(resultfd)' \cup {Head(resultfd)}
    BY <1>5, Forwarded
  <2> QED
    BY <2>1, <2>2, <2>5, <2>6 DEF LastToCome
<1> SUFFICES ASSUME ~Moves, ~Replies, ~StartJE, ~ReadStartup, ~SendSearch, ~ForwardResults,
                    \A c \in Clients, cmd \in Commands : ~Accept(c, cmd), je' # "dead"
             PROVE  \/ client \in Pieces(cmdfd)' \/ serving' = client
                    \/ Piece(client, "last") \in Pieces(resultfd)' \cup Pieces(sent[client])'
  BY <1>1, <1>2, <1>3, <1>4, <1>5, StepCases, ProcessLeavesMain
<1>6. /\ UNCHANGED <<mainPc, client, command, sent>>
      /\ Pieces(sent[client])' = Pieces(sent[client])
  BY StepCases, ProcessLeavesMain DEF Pieces
<1>7. \/ client \in Pieces(cmdfd) \/ serving = client
      \/ Piece(client, "last") \in Pieces(resultfd) \cup Pieces(sent[client])
      \/ je = "dead"
  BY <1>6 DEF LastToCome, Reading
<1>8. CASE Ready
  <2>1. Pieces(resultfd) \subseteq Pieces(resultfd)'
    BY <1>8, Written, NextPieces DEF Ready, Write, Typing, PipeTyping, Piece, PieceType
  <2> QED
    BY <1>6, <1>7, <1>8, <2>1, NextPieces DEF Ready
<1>9. CASE Die \/ Terminate
  BY <1>9 DEF Die, Terminate
<1>10. CASE DropCommand \/ TakeCommand
  <2>1. /\ Head(cmdfd) \in Clients
        /\ Pieces(cmdfd) = Pieces(cmdfd)' \cup {Head(cmdfd)}
        /\ Pieces(resultfd)' = Pieces(resultfd)
    BY <1>10, Removed, NextPieces DEF DropCommand, TakeCommand, Typing, PipeTyping
  <2>2. CASE DropCommand
    BY <1>6, <1>7, <2>1, <2>2 DEF DropCommand, process
  <2>3. CASE TakeCommand
    BY <1>6, <1>7, <2>1, <2>3, SearchAssumption DEF TakeCommand, Holding, OneCommand, Reading
  <2> QED
    BY <1>10, <2>2, <2>3
<1>11. ASSUME NEW large \in BOOLEAN, PrintAnswer(large) \/ PrintAtDeadline(large)
       PROVE  \/ client \in Pieces(cmdfd)' \/ serving' = client
              \/ Piece(client, "last") \in Pieces(resultfd)' \cup Pieces(sent[client])'
  <2>1. Piece(serving, "part") \in PieceType
    BY <1>11 DEF PrintAnswer, PrintAtDeadline, Holding, Typing, ProcessTyping, Piece, PieceType
  <2>2. resultfd' \in {resultfd \o <<Piece(serving, "part")>>, resultfd \o <<>>}
    BY <1>11 DEF PrintAnswer, PrintAtDeadline, Overflow, Write
  <2>3. /\ resultfd \o <<>> = resultfd
        /\ Pieces(resultfd \o <<Piece(serving, "part")>>) =
             Pieces(resultfd) \cup {Piece(serving, "part")}
    BY <2>1, Written DEF Typing, PipeTyping
  <2>4. Pieces(resultfd) \subseteq Pieces(resultfd)'
    BY <2>2, <2>3, NextPieces
  <2> QED
    BY <1>6, <1>7, <1>11, <2>4, NextPieces DEF PrintAnswer, PrintAtDeadline
<1>12. CASE Flush
  <2>1. Piece(serving, "last") \in PieceType
    BY <1>12 DEF Flush, Holding, Typing, ProcessTyping, Piece, PieceType
  <2>2. Pieces(resultfd)' = Pieces(resultfd) \cup {Piece(serving, "last")}
    BY <1>12, <2>1, Written, NextPieces DEF Flush, Write, Typing, PipeTyping
  <2> QED
    BY <1>6, <1>7, <1>12, <2>2, NextPieces DEF Flush
<1>13. ASSUME NEW w \in Workers, WorkerExits(w)
       PROVE  \/ client \in Pieces(cmdfd)' \/ serving' = client
              \/ Piece(client, "last") \in Pieces(resultfd)' \cup Pieces(sent[client])'
  <2>1. Piece(inherited[w], "copy") \in PieceType
    BY DEF Typing, ChildTyping, Piece, PieceType
  <2>2. Pieces(resultfd) \subseteq Pieces(resultfd)'
    BY <1>13, <2>1, Written, NextPieces DEF WorkerExits, Write, Typing, PipeTyping
  <2> QED
    BY <1>6, <1>7, <1>13, <2>2, NextPieces DEF WorkerExits, process
<1>14. CASE LateAnswers \/ IgnoreWorker \/ (\E w \in Workers : RestartWorker(w)) \/ UNCHANGED vars
  <2>1. UNCHANGED <<cmdfd, resultfd, serving>> /\ (je' = je \/ je # "dead")
    BY <1>14 DEF LateAnswers, IgnoreWorker, RestartWorker, vars, pipes, process
  <2> QED
    BY <1>6, <1>7, <2>1, NextPieces
<1> QED
  BY <1>8, <1>9, <1>10, <1>11, <1>12, <1>13, <1>14, StepCases

LEMMA WholeAnswerStep ==
  ASSUME Typing, OneCommand, LastToCome, WholeAnswer, [Next]_vars
  PROVE  WholeAnswer'
<1> SUFFICES ASSUME NEW c \in Clients, replied'[c] = "results", command'[c] = "SEARCH",
                    c \notin hurried'
             PROVE  Piece(c, "last") \in Pieces(sent[c])'
  BY DEF WholeAnswer, Piece
<1>1. c \notin hurried /\ Pieces(sent[c]) \subseteq Pieces(sent[c])'
  <2>1. ~ForwardResults => Pieces(sent[c])' = Pieces(sent[c])
    BY SentGrows DEF Pieces
  <2> QED
    BY <2>1, SentGrows, Forwarded
<1>2. CASE replied[c] = "results" /\ command[c] = "SEARCH"
  BY <1>1, <1>2 DEF WholeAnswer
<1>3. CASE EndResults /\ c = client
  <2>1. /\ mainPc = "readMore" /\ resultfd = <<>> /\ je # "dead" /\ ~Outstanding(client)
        /\ command[client] = "SEARCH"
    BY <1>3 DEF EndResults, Silence
  <2>2. client \notin Pieces(cmdfd) /\ serving # client /\ Pieces(resultfd) = {}
    BY <2>1, NothingIn DEF Outstanding, Pieces
  <2> QED
    BY <1>1, <1>3, <2>1, <2>2 DEF LastToCome, Reading
<1>4. CASE Replies
  <2>1. client \in Clients /\ command' = command
    BY <1>4, RepliesLeaveRest DEF OneCommand, Reading, Replies, AnswerStats, RefuseSearch,
       EndResults, Shutdown
  <2>2. c = client \/ replied'[c] = replied[c]
    BY <1>4, <2>1, RepliesReply DEF Typing, ReplyTyping
  <2> QED
    BY <1>2, <1>3, <1>4, <2>1, <2>2, RepliesReply DEF Typing
<1>5. ASSUME NEW d \in Clients, NEW cmd \in Commands, Accept(d, cmd)
      PROVE  Piece(c, "last") \in Pieces(sent[c])'
  <2>1. replied' = replied /\ (c = d \/ command'[c] = command[c])
    BY <1>5 DEF Accept, history, Typing, MainTyping
  <2>2. c # d
    BY <1>5, <2>1 DEF Accept, OneCommand
  <2> QED
    BY <1>2, <2>1, <2>2
<1>6. CASE UNCHANGED <<command, replied>>
  BY <1>2, <1>6
<1>7. CASE Moves \/ StartJE \/ ReadStartup \/ SendSearch \/ ForwardResults
  BY <1>6, <1>7, MovesLeaveRest DEF StartJE, ReadStartup, SendSearch, ForwardResults, history
<1> QED
  BY <1>4, <1>5, <1>6, <1>7, StepCases, ProcessLeavesMain

LEMMA NotLeftBehindStep ==
  ASSUME Typing, Known, NotLeftBehind, [Next]_vars
  PROVE  NotLeftBehind'
<1> USE DEF NotLeftBehind, Alive
<1>1. CASE Moves
  <2>1. CASE StartJEFails \/ ChildHandler \/ Killed
    BY <2>1 DEF StartJEFails, ChildHandler, Killed, Known, process
  <2>2. CASE HasDataFails \/ SelectFails
    BY <2>2 DEF HasDataFails, SelectFails, KillJE, Known
  <2>3. CASE EndCrawl \/ Poll \/ MoreStartup \/ Started \/ SelectTimesOut \/ MoreResults
             \/ ReadInterrupted \/ CommandError
    BY <2>3 DEF EndCrawl, Poll, MoreStartup, Started, SelectTimesOut, MoreResults,
       ReadInterrupted, CommandError, crawler
  <2> QED
    BY <1>1, <2>1, <2>2, <2>3 DEF Moves
<1>2. CASE Replies
  BY <1>2 DEF Replies, AnswerStats, RefuseSearch, EndResults, Shutdown, KillJE, Known
<1>3. CASE StartJE \/ ReadStartup \/ SendSearch \/ ForwardResults
  BY <1>3 DEF StartJE, ReadStartup, SendSearch, ForwardResults
<1>4. ASSUME NEW c \in Clients, NEW cmd \in Commands, Accept(c, cmd) PROVE NotLeftBehind'
  BY <1>4 DEF Accept
<1>5. CASE \/ Ready \/ Die \/ Terminate \/ DropCommand \/ TakeCommand \/ LateAnswers
           \/ IgnoreWorker \/ Flush
           \/ \E large \in BOOLEAN : PrintAnswer(large) \/ PrintAtDeadline(large)
           \/ \E w \in Workers : WorkerExits(w) \/ RestartWorker(w)
           \/ UNCHANGED vars
  <2>1. UNCHANGED <<mainPc, sigterm, abandoned>>
    BY <1>5, ProcessLeavesMain
  <2>2. Alive' => Alive
    BY <1>5 DEF Ready, Die, Terminate, DropCommand, TakeCommand, LateAnswers, IgnoreWorker, Flush,
       PrintAnswer, PrintAtDeadline, WorkerExits, RestartWorker, vars, process
  <2> QED
    BY <2>1, <2>2
<1> QED
  BY <1>1, <1>2, <1>3, <1>4, <1>5, StepCases

-----------------------------------------------------------------------------
(* The theorems *)

LEMMA InitInv == Init => Inv
<1> SUFFICES ASSUME Init PROVE Inv
  OBVIOUS
<1> USE SearchAssumption DEF Init
<1>1. Typing
  <2>1. MainTyping /\ ProcessTyping
    BY DEF MainTyping, ProcessTyping
  <2>2. PipeTyping
    BY DEF PipeTyping
  <2>3. ChildTyping
    BY DEF ChildTyping
  <2>4. ReplyTyping
    BY DEF ReplyTyping
  <2> QED
    BY <2>1, <2>2, <2>3, <2>4 DEF Typing
<1>2. Holding /\ Known /\ OneCommand /\ NotLeftBehind /\ WholeAnswer
  BY DEF Holding, Known, OneCommand, Reading, NotLeftBehind, WholeAnswer, Alive
<1>3. AllAccounted /\ LastToCome
  BY NothingIn DEF AllAccounted, LastToCome, Reading
<1>4. OwnAnswer
  BY NothingIn DEF OwnAnswer
<1> QED
  BY <1>1, <1>2, <1>3, <1>4 DEF Inv

LEMMA NextInv == Inv /\ [Next]_vars => Inv'
BY TypingStep, HoldingStep, KnownStep, OneCommandStep, AccountedStep, LastToComeStep,
   OwnAnswerStep, WholeAnswerStep, NotLeftBehindStep DEF Inv

(* The inductive invariant holds in every reachable state: whose text is   *)
(* in the pipes and buffers is always accounted for, and the last piece of *)
(* an answer that is being read is still to come.                          *)
THEOREM Invariance == Spec => []Inv
BY InitInv, NextInv, PTL DEF Spec

(* Every variable of main, of the Job Executor and of the pipes has its    *)
(* type.                                                                   *)
THEOREM TypeCorrect == Spec => []TypeOK
<1>1. Inv => TypeOK
  BY DEF Inv, Typing, MainTyping, PipeTyping, ProcessTyping, ChildTyping, ReplyTyping, TypeOK
<1> QED
  BY <1>1, Invariance, PTL

(* What main forwards to the client of a SEARCH is text of that search, of *)
(* a search that was given up after five silent seconds, or a worker's     *)
(* copy of the buffer it inherited.                                        *)
THEOREM OwnText == Spec => []OwnAnswer
<1>1. Inv => OwnAnswer
  BY DEF Inv
<1> QED
  BY <1>1, Invariance, PTL

(* A SEARCH that main closed with results, and not before the Job Executor *)
(* was done with it, was sent the last piece of its answer.                *)
THEOREM WholeText == Spec => []WholeAnswer
<1>1. Inv => WholeAnswer
  BY DEF Inv
<1> QED
  BY <1>1, Invariance, PTL

(* When main has ended, the Job Executor is dead or was sent SIGTERM,      *)
(* unless main was killed or failed before JE_pid was set.                 *)
THEOREM NotLeft == Spec => []NotLeftBehind
<1>1. Inv => NotLeftBehind
  BY DEF Inv
<1> QED
  BY <1>1, Invariance, PTL
=============================================================================
