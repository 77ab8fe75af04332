-------------------------------- MODULE Search --------------------------------
(***************************************************************************)
(* The control port of the crawler (main and handleCommand of mycrawler.c) *)
(* and the Job Executor as its child process, with the two pipes between   *)
(* them.  A SEARCH is written to the Job Executor, and what can be read    *)
(* from it until nothing came for five seconds is sent to the client:      *)
(* answers carry neither a name nor an end mark.                           *)
(*                                                                         *)
(* The Job Executor writes through a stdio buffer, which it flushes at the *)
(* end of a search, and which overflows into the pipe when an answer is    *)
(* large.  Its workers, forked with a copy of that buffer, flush the copy  *)
(* into the same pipe when they exit.                                      *)
(*                                                                         *)
(* The pool is in module Crawler, of which threadStop is what matters      *)
(* here, the protocol of the workers in module JobExecutor.  It is assumed *)
(* that a process that can run does so within five seconds.                *)
(***************************************************************************)
EXTENDS Naturals, Sequences, FiniteSets

CONSTANTS
  Clients,   \* the connections to the control port, one command each
  Workers,   \* the workers of the Job Executor
  MaxExits,  \* bound: the workers that exit
  Startup,   \* the owner of the Job Executor's startup messages
  Nobody

ASSUME SearchAssumption ==
  /\ Startup \notin Clients /\ Nobody \notin Clients /\ Startup # Nobody
  /\ MaxExits \in Nat

VARIABLES
  \* the crawler's main
  mainPc,      \* where it is
  client,      \* client_sock
  command,     \* the command of each client
  threadStop,  \* set by the pool
  checkThreads,
  startedJE,
  jePid,       \* is JE_pid set?
  \* the pipes
  cmdfd,       \* from the crawler to the Job Executor: who asks
  resultfd,    \* back: pieces of text
  \* the Job Executor
  je,          \* where it is
  serving,     \* whose search it executes
  buffer,      \* whose text is in the buffer of its stdout
  sigterm,     \* SIGTERM was sent to it
  inherited,   \* whose text is in the buffer of each worker's stdout
  running,     \* the workers that are there
  exits,       \* bound: the exits so far
  \* history
  sent,        \* what each client was sent
  replied,     \* how each connection was closed
  hurried,     \* the clients that were closed before the Job Executor was done
  abandoned    \* the crawler ended by a signal, or with JE_pid not set

crawler  == <<mainPc, client, command, checkThreads, startedJE, jePid>>
pipes    == <<cmdfd, resultfd>>
process  == <<je, serving, buffer, sigterm>>
children == <<inherited, running, exits>>
history  == <<sent, replied, hurried, abandoned>>
vars     == <<crawler, threadStop, pipes, process, children, history>>

(* "hidden": the first keyword, or one before the deadline the crawler     *)
(* adds, is "-d", so the Job Executor finds no terms or no deadline.       *)
Commands == {"STATS", "SEARCH", "hidden", "SHUTDOWN", "INVALID"}

Piece(owner, kind) == [of |-> owner, kind |-> kind]

Init ==
  /\ mainPc = "loop" /\ client = Nobody
  /\ command = [c \in Clients |-> "none"]
  /\ threadStop = FALSE /\ checkThreads = TRUE /\ startedJE = FALSE /\ jePid = FALSE
  /\ cmdfd = <<>> /\ resultfd = <<>>
  /\ je = "none" /\ serving = Nobody /\ buffer = Nobody /\ sigterm = FALSE
  /\ inherited = [w \in Workers |-> Nobody] /\ running = {} /\ exits = 0
  /\ sent = [c \in Clients |-> <<>>]
  /\ replied = [c \in Clients |-> "no"]
  /\ hurried = {} /\ abandoned = FALSE

Alive == je \notin {"none", "dead"}

Close(c, how) == replied' = [replied EXCEPT ![c] = how]

-----------------------------------------------------------------------------
(* The crawler *)

(* A thread of the pool announces the end of the crawl. *)
EndCrawl ==
  /\ ~threadStop /\ mainPc # "ended"
  /\ threadStop' = TRUE
  /\ UNCHANGED <<crawler, pipes, process, children, history>>

Poll ==
  /\ mainPc = "loop"
  /\ mainPc' = IF checkThreads /\ threadStop THEN "start" ELSE "select"
  /\ checkThreads' = (checkThreads /\ ~threadStop)
  /\ UNCHANGED <<client, command, startedJE, jePid, threadStop, pipes, process, children, history>>

(* The pipes are made, the Job Executor is forked, with one worker after   *)
(* the other inheriting what it has printed so far.                        *)
StartJE ==
  /\ mainPc = "start"
  /\ mainPc' = "startup"
  /\ je' = "starting" /\ buffer' = Startup
  /\ running' = Workers /\ inherited' = [w \in Workers |-> Startup]
  /\ UNCHANGED <<client, command, checkThreads, startedJE, jePid, threadStop, pipes, serving,
                 sigterm, exits, history>>

(* getcwd, pipe or fork fails: cleanup, return. *)
StartJEFails ==
  /\ mainPc = "start"
  /\ mainPc' = "ended"
  /\ UNCHANGED <<client, command, checkThreads, startedJE, jePid, threadStop, pipes, process,
                 children, history>>

ReadStartup ==
  /\ mainPc = "startup" /\ resultfd # <<>>
  /\ resultfd' = Tail(resultfd)
  /\ mainPc' = "startupMore"
  /\ UNCHANGED <<client, command, checkThreads, startedJE, jePid, threadStop, cmdfd, process,
                 children, history>>

(* hasData: select says whether the pipe has something; its five seconds   *)
(* do not pass while the Job Executor is starting or writing, or its death *)
(* is about to be noticed.                                                 *)
HasData == resultfd # <<>>
Silence == resultfd = <<>> /\ je \notin {"starting", "flush", "dead"}

MoreStartup ==
  /\ mainPc = "startupMore" /\ HasData
  /\ mainPc' = "startup"
  /\ UNCHANGED <<client, command, checkThreads, startedJE, jePid, threadStop, pipes, process,
                 children, history>>

(* Fault: the startup messages are not read. *)
StartedUnread ==
  /\ mainPc = "startup"
  /\ jePid' = TRUE /\ startedJE' = TRUE
  /\ mainPc' = "select"
  /\ UNCHANGED <<client, command, checkThreads, threadStop, pipes, process, children, history>>

(* Fault: JE_pid is not set. *)
StartedUnnamed ==
  /\ mainPc = "startupMore" /\ Silence
  /\ startedJE' = TRUE
  /\ mainPc' = "select"
  /\ UNCHANGED <<client, command, checkThreads, jePid, threadStop, pipes, process, children, history>>

Started ==
  /\ mainPc = "startupMore" /\ Silence
  /\ jePid' = TRUE /\ startedJE' = TRUE
  /\ mainPc' = "select"
  /\ UNCHANGED <<client, command, checkThreads, threadStop, pipes, process, children, history>>

(* select returns without a connection after five seconds. *)
SelectTimesOut ==
  /\ mainPc = "select"
  /\ mainPc' = "loop"
  /\ UNCHANGED <<client, command, checkThreads, startedJE, jePid, threadStop, pipes, process,
                 children, history>>

(* A client connects, and its command is read. *)
Accept(c, cmd) ==
  /\ mainPc = "select" /\ command[c] = "none"
  /\ client' = c
  /\ command' = [command EXCEPT ![c] = cmd]
  /\ mainPc' = "command"
  /\ UNCHANGED <<checkThreads, startedJE, jePid, threadStop, pipes, process, children, history>>

AnswerStats ==
  /\ mainPc = "command" /\ command[client] \in {"STATS", "INVALID"}
  /\ Close(client, command[client])
  /\ mainPc' = "loop"
  /\ UNCHANGED <<client, command, checkThreads, startedJE, jePid, threadStop, pipes, process,
                 children, sent, hurried, abandoned>>

(* CRAWLING IN PROGRESS, or JOB EXECUTOR NOT READY YET: the pool may end   *)
(* between the look of main at threadStop and this one.                    *)
RefuseSearch ==
  /\ mainPc = "command" /\ command[client] \in {"SEARCH", "hidden"}
  /\ ~(threadStop /\ startedJE)
  /\ Close(client, IF threadStop THEN "not ready" ELSE "in progress")
  /\ mainPc' = "loop"
  /\ UNCHANGED <<client, command, checkThreads, startedJE, jePid, threadStop, pipes, process,
                 children, sent, hurried, abandoned>>

SendSearch ==
  /\ mainPc = "command" /\ command[client] \in {"SEARCH", "hidden"}
  /\ threadStop /\ startedJE
  /\ cmdfd' = Append(cmdfd, client)
  /\ mainPc' = "read"
  /\ UNCHANGED <<client, command, checkThreads, startedJE, jePid, threadStop, resultfd, process,
                 children, history>>

(* The first read waits without a time limit. *)
ForwardResults ==
  /\ mainPc = "read" /\ resultfd # <<>>
  /\ sent' = [sent EXCEPT ![client] = Append(@, Head(resultfd))]
  /\ resultfd' = Tail(resultfd)
  /\ mainPc' = "readMore"
  /\ UNCHANGED <<client, command, checkThreads, startedJE, jePid, threadStop, cmdfd, process,
                 children, replied, hurried, abandoned>>

MoreResults ==
  /\ mainPc = "readMore" /\ HasData
  /\ mainPc' = "read"
  /\ UNCHANGED <<client, command, checkThreads, startedJE, jePid, threadStop, pipes, process,
                 children, history>>

(* Is the Job Executor still to answer c? *)
Outstanding(c) == c \in {cmdfd[i] : i \in DOMAIN cmdfd} \/ serving = c

(* Fault: one read, as if an answer came in one piece. *)
CloseAfterRead ==
  /\ mainPc = "readMore"
  /\ Close(client, "results")
  /\ mainPc' = "loop"
  /\ UNCHANGED <<client, command, checkThreads, startedJE, jePid, threadStop, pipes, process,
                 children, sent, hurried, abandoned>>

(* Nothing for five seconds: that is taken for the end of the answer. *)
EndResults ==
  /\ mainPc = "readMore" /\ Silence
  /\ Close(client, "results")
  /\ hurried' = IF Outstanding(client) THEN hurried \cup {client} ELSE hurried
  /\ mainPc' = "loop"
  /\ UNCHANGED <<client, command, checkThreads, startedJE, jePid, threadStop, pipes, process,
                 children, sent, abandoned>>

(* cleanup: SIGCHLD is ignored from here on, the Job Executor is killed if *)
(* it is known.                                                            *)
KillJE == sigterm' = (sigterm \/ (jePid /\ Alive))

Shutdown ==
  /\ mainPc = "command" /\ command[client] = "SHUTDOWN"
  /\ Close(client, "shutting down")
  /\ threadStop' = TRUE
  /\ KillJE
  /\ mainPc' = "ended"
  /\ UNCHANGED <<client, command, checkThreads, startedJE, jePid, pipes, je, serving, buffer,
                 children, sent, hurried, abandoned>>

(* select or accept fails: cleanup, return. *)
SelectFails ==
  /\ mainPc = "select"
  /\ threadStop' = TRUE
  /\ KillJE
  /\ mainPc' = "ended"
  /\ UNCHANGED <<client, command, checkThreads, startedJE, jePid, pipes, je, serving, buffer,
                 children, history>>

(* The client's connection breaks (CMD_ERROR): cleanup, but main goes on   *)
(* with destroyed mutexes; nothing is said of it after that.               *)
CommandError ==
  /\ mainPc = "command"
  /\ threadStop' = TRUE
  /\ KillJE
  /\ mainPc' = "undefined"
  /\ UNCHANGED <<client, command, checkThreads, startedJE, jePid, pipes, je, serving, buffer,
                 children, history>>

(* select fails in hasData: a signal that was no end of a child.  Before   *)
(* JE_pid is set the Job Executor is left to itself.                       *)
HasDataFails ==
  /\ mainPc \in {"startupMore", "readMore"}
  /\ KillJE
  /\ abandoned' = ~jePid
  /\ mainPc' = "ended"
  /\ UNCHANGED <<client, command, checkThreads, startedJE, jePid, threadStop, pipes, je, serving,
                 buffer, children, sent, replied, hurried>>

(* A read that waits is interrupted, since the Job Executor was stopped or *)
(* continued: the handler of SIGCHLD returns, bytesRead is -1 and          *)
(* buf[bytesRead] in front of the buffer; nothing is said of what follows. *)
ReadInterrupted ==
  /\ mainPc \in {"startup", "read"} /\ resultfd = <<>> /\ Alive
  /\ mainPc' = "undefined"
  /\ UNCHANGED <<client, command, checkThreads, startedJE, jePid, threadStop, pipes, process,
                 children, history>>

(* The handler of SIGCHLD: exit. *)
ChildHandler ==
  /\ je = "dead" /\ mainPc \notin {"ended", "undefined"}
  /\ mainPc' = "ended"
  /\ UNCHANGED <<client, command, checkThreads, startedJE, jePid, threadStop, pipes, process,
                 children, history>>

(* The crawler is killed by a signal; it has no handler for it. *)
Killed ==
  /\ mainPc \notin {"ended", "undefined"}
  /\ mainPc' = "ended"
  /\ abandoned' = TRUE
  /\ UNCHANGED <<client, command, checkThreads, startedJE, jePid, threadStop, pipes, process,
                 children, sent, replied, hurried>>

-----------------------------------------------------------------------------
(* The Job Executor *)

Write(pieces) == resultfd' = resultfd \o pieces

(* Its workers are ready, the startup messages are flushed. *)
Ready ==
  /\ je = "starting"
  /\ je' = "input" /\ buffer' = Nobody
  /\ Write(<<Piece(Startup, "last")>>)
  /\ UNCHANGED <<crawler, threadStop, cmdfd, serving, sigterm, children, history>>

(* Fault: exit writes the buffer of stdout although there is nothing in it. *)
DieFlushing ==
  /\ je \in {"starting", "input", "search", "late"}
  /\ je' = "dead" /\ buffer' = Nobody /\ serving' = Nobody
  /\ Write(<<Piece(buffer, "part")>>)
  /\ UNCHANGED <<crawler, threadStop, cmdfd, sigterm, children, history>>

(* No docfile, no worker, a command that fails (return, which flushes), or *)
(* a signal (exit in its handler).                                         *)
Die ==
  /\ je \in {"starting", "input", "search", "late"}
  /\ je' = "dead" /\ buffer' = Nobody /\ serving' = Nobody
  /\ Write(IF buffer = Nobody THEN <<>> ELSE <<Piece(buffer, "part")>>)
  /\ UNCHANGED <<crawler, threadStop, cmdfd, sigterm, children, history>>

(* SIGTERM of cleanup. *)
Terminate ==
  /\ sigterm /\ Alive
  /\ je' = "dead" /\ buffer' = Nobody /\ serving' = Nobody
  /\ UNCHANGED <<crawler, threadStop, pipes, sigterm, children, history>>

(* A line that is no search with terms and a deadline is dropped without a *)
(* word.                                                                   *)
DropCommand ==
  /\ je = "input" /\ cmdfd # <<>> /\ command[Head(cmdfd)] = "hidden"
  /\ cmdfd' = Tail(cmdfd)
  /\ UNCHANGED <<crawler, threadStop, resultfd, process, children, history>>

TakeCommand ==
  /\ je = "input" /\ cmdfd # <<>> /\ command[Head(cmdfd)] = "SEARCH"
  /\ serving' = Head(cmdfd)
  /\ cmdfd' = Tail(cmdfd)
  /\ je' = "search"
  /\ UNCHANGED <<crawler, threadStop, resultfd, buffer, sigterm, children, history>>

(* A worker that has exited is given up, which is printed.                 *)
IgnoreWorker ==
  /\ je = "search" /\ exits > 0
  /\ buffer' = serving
  /\ UNCHANGED <<crawler, threadStop, pipes, je, serving, sigterm, children, history>>

Overflow(large) == Write(IF large THEN <<Piece(serving, "part")>> ELSE <<>>)

(* All workers have answered in time: the answer is printed. *)
PrintAnswer(large) ==
  /\ je = "search"
  /\ je' = "flush" /\ buffer' = serving
  /\ Overflow(large)
  /\ UNCHANGED <<crawler, threadStop, cmdfd, serving, sigterm, children, history>>

(* The deadline: what there is is printed, not flushed, and the late       *)
(* workers are waited for.                                                 *)
PrintAtDeadline(large) ==
  /\ je = "search"
  /\ je' = "late" /\ buffer' = serving
  /\ Overflow(large)
  /\ UNCHANGED <<crawler, threadStop, cmdfd, serving, sigterm, children, history>>

LateAnswers ==
  /\ je = "late"
  /\ je' = "flush"
  /\ UNCHANGED <<crawler, threadStop, pipes, serving, buffer, sigterm, children, history>>

(* Fault: the answer is not flushed. *)
KeepInBuffer ==
  /\ je = "flush"
  /\ je' = "input" /\ serving' = Nobody
  /\ UNCHANGED <<crawler, threadStop, pipes, buffer, sigterm, children, history>>

Flush ==
  /\ je = "flush"
  /\ je' = "input" /\ buffer' = Nobody /\ serving' = Nobody
  /\ Write(<<Piece(serving, "last")>>)
  /\ UNCHANGED <<crawler, threadStop, cmdfd, sigterm, children, history>>

(* The end of stdin is taken for an interrupted getline, again and again.  *)
Spin ==
  /\ je = "input" /\ cmdfd = <<>> /\ mainPc = "ended"
  /\ UNCHANGED vars

(* A worker exits, by a signal or an error of its own: exit flushes what   *)
(* it inherited and "Worker exiting".                                      *)
WorkerExits(w) ==
  /\ w \in running /\ je \in {"starting", "input", "search", "late", "flush"}
  /\ exits < MaxExits
  /\ running' = running \ {w} /\ exits' = exits + 1
  /\ Write(<<Piece(inherited[w], "copy")>>)
  /\ UNCHANGED <<crawler, threadStop, cmdfd, process, inherited, history>>

(* The handler of SIGCHLD forks it again, with the buffer as it is now.    *)
RestartWorker(w) ==
  /\ w \notin running /\ je \in {"starting", "input", "search", "late", "flush"}
  /\ running' = running \cup {w}
  /\ inherited' = [inherited EXCEPT ![w] = buffer]
  /\ UNCHANGED <<crawler, threadStop, pipes, process, exits, history>>

Terminated ==
  /\ mainPc \in {"ended", "undefined"} /\ ~Alive
  /\ UNCHANGED vars

-----------------------------------------------------------------------------

AcceptAny == \E c \in Clients, cmd \in Commands : Accept(c, cmd)

(* What main does on its own, connections, errors and signals aside. *)
MainStep ==
  \/ Poll \/ StartJE \/ ReadStartup \/ MoreStartup \/ Started
  \/ SelectTimesOut \/ AnswerStats \/ RefuseSearch \/ SendSearch
  \/ ForwardResults \/ MoreResults \/ EndResults \/ Shutdown

MainFails ==
  \/ StartJEFails \/ SelectFails \/ CommandError \/ HasDataFails \/ ReadInterrupted \/ Killed

(* What the Job Executor does on its own, and what it needs its workers or *)
(* the deadline for.                                                       *)
JEStep == Ready \/ DropCommand \/ TakeCommand \/ Flush

Gather ==
  \/ (\E large \in BOOLEAN : PrintAnswer(large) \/ PrintAtDeadline(large))
  \/ LateAnswers \/ IgnoreWorker

Next ==
  \/ EndCrawl \/ AcceptAny \/ MainStep \/ MainFails \/ ChildHandler
  \/ JEStep \/ Gather \/ Die \/ Terminate \/ Spin
  \/ \E w \in Workers : WorkerExits(w) \/ RestartWorker(w)
  \/ Terminated

Spec == Init /\ [][Next]_vars

(***************************************************************************)
(* Both processes are scheduled, signals are delivered.  That the Job      *)
(* Executor comes to the end of a search is not assumed: module            *)
(* JobExecutor says when it does not.                                      *)
(***************************************************************************)
FairSpec ==
  /\ Spec
  /\ WF_vars(MainStep) /\ WF_vars(ChildHandler)
  /\ WF_vars(JEStep) /\ WF_vars(Terminate)
-----------------------------------------------------------------------------
(* Properties *)

PieceType ==
  [of : Clients \cup {Startup}, kind : {"part", "last", "copy"}]
    \cup {Piece(Nobody, "copy")}   \* a worker that inherited nothing

TypeOK ==
  /\ mainPc \in {"loop", "start", "startup", "startupMore", "select", "command", "read",
                 "readMore", "ended", "undefined"}
  /\ client \in Clients \cup {Nobody}
  /\ command \in [Clients -> Commands \cup {"none"}]
  /\ threadStop \in BOOLEAN /\ checkThreads \in BOOLEAN
  /\ startedJE \in BOOLEAN /\ jePid \in BOOLEAN
  /\ cmdfd \in Seq(Clients) /\ resultfd \in Seq(PieceType)
  /\ je \in {"none", "starting", "input", "search", "late", "flush", "dead"}
  /\ serving \in Clients \cup {Nobody}
  /\ buffer \in Clients \cup {Startup, Nobody}
  /\ sigterm \in BOOLEAN
  /\ inherited \in [Workers -> Clients \cup {Startup, Nobody}]
  /\ running \in SUBSET Workers /\ exits \in 0..MaxExits
  /\ sent \in [Clients -> Seq(PieceType)]
  /\ replied \in [Clients -> {"no", "STATS", "INVALID", "in progress", "not ready",
                              "results", "shutting down"}]
  /\ hurried \in SUBSET Clients
  /\ abandoned \in BOOLEAN

Pieces(s) == {s[i] : i \in DOMAIN s}

(* "Get the results from the Job Executor and send them to the socket":    *)
(* text that does not belong to a client's own search reaches it in two    *)
(* ways only.  It is the rest of an earlier search, which was given up     *)
(* because nothing came for five seconds, or a worker that exited has      *)
(* repeated it.  The startup messages are not among it otherwise.          *)
OwnAnswer ==
  \A c \in Clients : \A p \in Pieces(sent[c]) :
    p.of = c \/ p.of \in hurried \/ p.kind = "copy"

(* A search that was not given up brought its client the whole answer, to  *)
(* the last piece, however it was cut and whatever else was in the pipe.   *)
WholeAnswer ==
  \A c \in Clients :
    replied[c] = "results" /\ command[c] = "SEARCH" /\ c \notin hurried =>
      Piece(c, "last") \in Pieces(sent[c])

(* The crawler does not leave the Job Executor behind, unless it was       *)
(* killed, or failed in the seconds before JE_pid was set.                 *)
NotLeftBehind ==
  mainPc = "ended" /\ Alive => sigterm \/ abandoned

(* A search ends: its client is closed or the crawler has.  Two things can *)
(* keep the client, and with it every later one, for good: the Job         *)
(* Executor does not come to the end of a search, of this one or of one    *)
(* that was given up; or it has dropped the line without a word, and is    *)
(* waited for while it waits itself.  No answer stays in the buffer.       *)
Gathering  == je \in {"search", "late"}
Dropped(c) == command[c] = "hidden" /\ je = "input" /\ cmdfd = <<>> /\ resultfd = <<>>

SearchEnds ==
  \A c \in Clients :
    [](client = c /\ mainPc = "read" =>
         <>(\/ replied[c] = "results" \/ mainPc \in {"ended", "undefined"}
            \/ []Gathering \/ []Dropped(c)))

=============================================================================
