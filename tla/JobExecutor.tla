------------------------------ MODULE JobExecutor ------------------------------
(***************************************************************************)
(* The Job Executor (JE/jobExecutor.c) and its worker processes            *)
(* (JE/worker.c): a command is announced to every worker with SIGUSR1 and  *)
(* written to its FIFO; the workers answer through a second FIFO, which    *)
(* the Job Executor watches with select.  A search has a deadline          *)
(* (alarm): the workers that have not answered by then get SIGUSR2 and     *)
(* answer with nothing.  A worker that dies is started again by the        *)
(* handler of SIGCHLD.                                                     *)
(*                                                                         *)
(* A worker meets nobody but the Job Executor, so a loop of the Job        *)
(* Executor over its workers is one step.  Left out: failures of malloc,   *)
(* and what commands and answers contain (module Index); how the workers   *)
(* were created and what they were given is in module Corpus.              *)
(***************************************************************************)
EXTENDS Naturals, Sequences, FiniteSets

CONSTANTS
  Workers,      \* the workers that createWorkers started
  MaxCommands,  \* bound: the commands read from stdin
  MaxCrashes,   \* bound: the workers that are killed
  SlowStart     \* may a command be given before every worker has its directories?

ASSUME JobExecutorAssumption ==
  /\ IsFiniteSet(Workers) /\ Workers # {}
  /\ MaxCommands \in Nat /\ MaxCrashes \in Nat
  /\ SlowStart \in BOOLEAN

VARIABLES
  \* The Job Executor: the locals of commandSearch, commandMaxMin, commandWC
  jePc,         \* where it is
  command,      \* history: the number of the command, and whether it has a deadline
  finished,     \* the field of the same name of each worker
  restarted,    \* restartTime > queryTime
  remaining,    \* remainingWorkers
  active,       \* activeWorkers
  stored,       \* currWorker, the number of answers stored
  sentResults,
  toRead,       \* fds after select, without the FIFOs that were read since
  timedout,     \* g_timedout of the Job Executor
  alarm,        \* SIGALRM is to come
  sigchld,      \* SIGCHLD is pending
  \* The workers
  wPc,          \* where each is; "dead" until the Job Executor has waited for it
  job,          \* the command a worker answers, and whether it found anything
  cmdReady,     \* g_cmdReady
  wTimedout,    \* g_timedout of each worker
  pending,      \* the signals sent to it and not delivered yet
  cmds,         \* the FIFO from the Job Executor
  answers,      \* the FIFO to the Job Executor
  late,         \* history: the commands whose deadline has passed
  misled,       \* history: the workers last started again between the signal and the command
  crashes       \* bound: the workers killed so far

query   == <<command, finished, restarted, remaining, active, stored, sentResults, toRead>>
clock   == <<timedout, alarm>>
flags   == <<cmdReady, wTimedout>>
fifos   == <<cmds, answers>>
workers == <<wPc, job, flags, pending>>
history == <<late, misled, crashes>>
je      == <<jePc, query, clock, sigchld, history>>
vars    == <<je, workers, fifos>>

Directories == [id |-> 0, deadline |-> FALSE]
NoJob       == [command |-> Directories, found |-> FALSE]

(* The Job Executor has opened the FIFOs of every worker and written its   *)
(* directories to it (createWorkers, sendDirectories).                     *)
Init ==
  /\ jePc = "input"
  /\ command = Directories
  /\ finished = [w \in Workers |-> TRUE]
  /\ restarted = [w \in Workers |-> FALSE]
  /\ remaining = 0 /\ active = 0 /\ stored = 0
  /\ sentResults = FALSE /\ toRead = {}
  /\ timedout = FALSE /\ alarm = FALSE /\ sigchld = FALSE
  /\ wPc = [w \in Workers |-> "directories"]
  /\ job = [w \in Workers |-> NoJob]
  /\ cmdReady = [w \in Workers |-> FALSE]
  /\ wTimedout = [w \in Workers |-> FALSE]
  /\ pending = [w \in Workers |-> {}]
  /\ cmds = [w \in Workers |-> <<Directories>>]
  /\ answers = [w \in Workers |-> <<>>]
  /\ late = {} /\ misled = {}
  /\ crashes = 0

Unfinished == {w \in Workers : ~finished[w]}
Dead       == {w \in Workers : wPc[w] = "dead"}

Goto(w, l) == wPc' = [wPc EXCEPT ![w] = l]

-----------------------------------------------------------------------------
(* The Job Executor *)

(* SIGUSR1 to every worker.  A worker that is dead but not waited for is a *)
(* process still: kill succeeds.                                           *)
Notify(hasDeadline) ==
  /\ jePc = "input" /\ command.id < MaxCommands
  /\ SlowStart \/ \A w \in Workers : wPc[w] # "directories"
  /\ command' = [id |-> command.id + 1, deadline |-> hasDeadline]
  /\ finished' = [w \in Workers |-> FALSE]
  /\ restarted' = [w \in Workers |-> FALSE]
  /\ active' = Cardinality(Workers) /\ remaining' = Cardinality(Workers)
  /\ stored' = 0
  /\ sentResults' = FALSE
  /\ pending' = [w \in Workers |-> IF w \in Dead THEN {} ELSE pending[w] \cup {"USR1"}]
  /\ jePc' = "send"
  /\ UNCHANGED <<toRead, clock, sigchld, wPc, job, flags, fifos, history>>

(* The command is written to every FIFO; for a search the alarm is set.    *)
Send ==
  /\ jePc = "send" /\ Dead = {}
  /\ cmds' = [w \in Workers |-> Append(cmds[w], command)]
  /\ alarm' = command.deadline
  /\ jePc' = "loop"
  /\ UNCHANGED <<query, timedout, sigchld, workers, answers, history>>

(* fifoSend to a worker that is dead: EPIPE, the command fails, readInput  *)
(* returns and main terminates the program.                                *)
SendFails ==
  /\ jePc = "send" /\ Dead # {}
  /\ jePc' = "ended"
  /\ UNCHANGED <<query, clock, sigchld, workers, fifos, history>>

(* Fault: the command ends at the deadline, with answers to come. *)
LeaveAtDeadline ==
  /\ jePc \in {"loop", "interrupted"} /\ remaining > 0
  /\ command.deadline /\ timedout
  /\ pending' = [w \in Workers |-> IF w \in Unfinished \ Dead THEN pending[w] \cup {"USR2"}
                                                             ELSE pending[w]]
  /\ timedout' = FALSE
  /\ sentResults' = TRUE
  /\ late' = late \cup {command.id}
  /\ jePc' = "input"
  /\ UNCHANGED <<command, finished, restarted, remaining, active, stored, toRead, alarm, sigchld,
                 wPc, job, flags, fifos, misled, crashes>>

(* g_timedout is seen before select or after select was interrupted: the   *)
(* results so far are printed, the other workers are told to hurry.        *)
Deadline ==
  /\ jePc \in {"loop", "interrupted"} /\ remaining > 0
  /\ command.deadline /\ timedout
  /\ pending' = [w \in Workers |-> IF w \in Unfinished \ Dead THEN pending[w] \cup {"USR2"}
                                                             ELSE pending[w]]
  /\ timedout' = FALSE
  /\ sentResults' = TRUE
  /\ late' = late \cup {command.id}
  /\ jePc' = "loop"
  /\ UNCHANGED <<command, finished, restarted, remaining, active, stored, toRead, alarm, sigchld,
                 wPc, job, flags, fifos, misled, crashes>>

(* SIGALRM that comes here, after the look at g_timedout, does not         *)
(* interrupt select.                                                       *)
EnterSelect ==
  /\ jePc = "loop" /\ remaining > 0
  /\ ~(command.deadline /\ timedout)
  /\ jePc' = "entering"
  /\ UNCHANGED <<query, clock, sigchld, workers, fifos, history>>

Block ==
  /\ jePc = "entering"
  /\ jePc' = "select"
  /\ UNCHANGED <<query, clock, sigchld, workers, fifos, history>>

(* The command goes on to look for restarted workers, and looks at         *)
(* g_timedout again on the way.                                            *)
PassFirstTest ==
  /\ jePc = "interrupted"
  /\ ~(command.deadline /\ timedout)
  /\ jePc' = "tested"
  /\ UNCHANGED <<query, clock, sigchld, workers, fifos, history>>

(* Fault: restartTime is not looked at. *)
IgnoreUnfinished ==
  /\ jePc = "tested"
  /\ ~(command.deadline /\ timedout)
  /\ finished' = [w \in Workers |-> TRUE]
  /\ active' = active - Cardinality(Unfinished)
  /\ remaining' = remaining - Cardinality(Unfinished)
  /\ jePc' = "loop"
  /\ UNCHANGED <<command, restarted, stored, sentResults, toRead, clock, sigchld, workers,
                 fifos, history>>

(* EINTR and no g_timedout: a worker was started again; those that do not  *)
(* know the command are not waited for.                                    *)
IgnoreRestarted ==
  /\ jePc = "tested"
  /\ ~(command.deadline /\ timedout)
  /\ LET terminated == {w \in Unfinished : restarted[w]}
     IN /\ finished' = [w \in Workers |-> finished[w] \/ w \in terminated]
        /\ active' = active - Cardinality(terminated)
        /\ remaining' = remaining - Cardinality(terminated)
  /\ jePc' = "loop"
  /\ UNCHANGED <<command, restarted, stored, sentResults, toRead, clock, sigchld, workers,
                 fifos, history>>

(* SIGALRM came in between: no test holds, and the set that select was     *)
(* given is taken for what is readable, so that each unfinished worker is  *)
(* waited for in fifoRecv, past the deadline.                              *)
FallThrough ==
  /\ jePc = "tested"
  /\ command.deadline /\ timedout
  /\ toRead' = Unfinished
  /\ jePc' = "reading"
  /\ UNCHANGED <<command, finished, restarted, remaining, active, stored, sentResults, clock,
                 sigchld, workers, fifos, history>>

(* Fault: "finished" is not looked at when the set for select is made. *)
SelectFinished ==
  /\ jePc = "select"
  /\ toRead' = {w \in Workers : answers[w] # <<>> \/ w \in Dead}
  /\ toRead' # {}
  /\ jePc' = "reading"
  /\ UNCHANGED <<command, finished, restarted, remaining, active, stored, sentResults, clock,
                 sigchld, workers, fifos, history>>

(* select returns: there are FIFOs with an answer, or whose writer is gone. *)
SelectReturns ==
  /\ jePc = "select"
  /\ toRead' = {w \in Unfinished : answers[w] # <<>> \/ w \in Dead}
  /\ toRead' # {}
  /\ jePc' = "reading"
  /\ UNCHANGED <<command, finished, restarted, remaining, active, stored, sentResults, clock,
                 sigchld, workers, fifos, history>>

(* Fault: a FIFO at its end does not lower activeWorkers. *)
ReadAsActive(w) ==
  /\ jePc = "reading" /\ w \in toRead
  /\ answers[w] # <<>> \/ w \in Dead
  /\ finished' = [finished EXCEPT ![w] = TRUE]
  /\ remaining' = remaining - 1
  /\ IF answers[w] = <<>>
       THEN UNCHANGED <<stored, answers>>
       ELSE stored' = stored + 1 /\ answers' = [answers EXCEPT ![w] = Tail(@)]
  /\ toRead' = toRead \ {w}
  /\ jePc' = IF toRead = {w} THEN "loop" ELSE "reading"
  /\ UNCHANGED <<command, restarted, active, sentResults, clock, sigchld, workers, cmds, history>>

(* One FIFO is read: fifoRecv waits for an answer, or says -2 if the       *)
(* writer is gone.  If that worker was started again after select, or was  *)
(* not said to be readable in the first place, it may wait for long.       *)
ReadFifo(w) ==
  /\ jePc = "reading" /\ w \in toRead
  /\ answers[w] # <<>> \/ w \in Dead
  /\ finished' = [finished EXCEPT ![w] = TRUE]
  /\ remaining' = remaining - 1
  /\ IF answers[w] = <<>>
       THEN active' = active - 1 /\ UNCHANGED <<stored, answers>>
       ELSE stored' = stored + 1 /\ answers' = [answers EXCEPT ![w] = Tail(@)]
            /\ UNCHANGED active
  /\ toRead' = toRead \ {w}
  /\ jePc' = IF toRead = {w} THEN "loop" ELSE "reading"
  /\ UNCHANGED <<command, restarted, sentResults, clock, sigchld, workers, cmds, history>>

(* Fault: an alarm that came before alarm(0) is left for the next search. *)
FinishUnwatched ==
  /\ jePc = "loop" /\ remaining = 0
  /\ IF sentResults \/ ~command.deadline THEN UNCHANGED alarm ELSE alarm' = FALSE
  /\ jePc' = "input"
  /\ UNCHANGED <<query, timedout, sigchld, workers, fifos, history>>

(* The end of the command.  The first activeWorkers of totalResults are    *)
(* printed, unless the deadline has passed, and freed.                     *)
Finish ==
  /\ jePc = "loop" /\ remaining = 0
  /\ IF sentResults \/ ~command.deadline
       THEN UNCHANGED clock
       ELSE alarm' = FALSE /\ timedout' = FALSE
  /\ jePc' = "input"
  /\ UNCHANGED <<query, sigchld, workers, fifos, history>>

CommandStep ==
  \/ Send \/ SendFails \/ Deadline \/ EnterSelect \/ Block
  \/ PassFirstTest \/ IgnoreRestarted \/ FallThrough \/ SelectReturns
  \/ (\E w \in Workers : ReadFifo(w)) \/ Finish

(* /exit *)
Exit ==
  /\ jePc = "input"
  /\ jePc' = "ended"
  /\ UNCHANGED <<query, clock, sigchld, workers, fifos, history>>

Over == jePc \in {"ended", "undefined"}

(* SIGHUP, SIGINT, SIGTERM: the handler stops the workers and exits. *)
Terminate ==
  /\ ~Over
  /\ jePc' = "ended"
  /\ UNCHANGED <<query, clock, sigchld, workers, fifos, history>>

(* A signal handler interrupts select.  It also interrupts a read of       *)
(* fifoRecv that waits, which then goes on with an offset of -1: nothing   *)
(* is said of what follows.                                                *)
Interrupt ==
  LET waits == \E w \in toRead \ Dead : answers[w] = <<>>
  IN jePc' \in CASE jePc = "select"            -> {"interrupted"}
                 [] jePc = "reading" /\ waits -> {"reading", "undefined"}
                 [] OTHER                      -> {jePc}

Alarm ==
  /\ alarm /\ ~Over
  /\ alarm' = FALSE
  /\ timedout' = TRUE
  /\ Interrupt
  /\ UNCHANGED <<query, sigchld, workers, fifos, history>>

(* The handler of SIGCHLD: one child is waited for and started again       *)
(* (restartWorker): new ends of the FIFOs, which loses what was in them,   *)
(* and the directories again.  Its restartTime is later than the time of   *)
(* the query unless both fall into one second.                             *)
Restart(w) ==
  /\ sigchld /\ w \in Dead /\ ~Over
  /\ sigchld' = FALSE
  /\ \E later \in BOOLEAN : restarted' = [restarted EXCEPT ![w] = later]
  /\ Goto(w, "directories")
  /\ cmdReady' = [cmdReady EXCEPT ![w] = FALSE]
  /\ wTimedout' = [wTimedout EXCEPT ![w] = FALSE]
  /\ pending' = [pending EXCEPT ![w] = {}]
  /\ cmds' = [cmds EXCEPT ![w] = <<Directories>>]
  /\ answers' = [answers EXCEPT ![w] = <<>>]
  /\ misled' = IF jePc = "send" THEN misled \cup {w} ELSE misled \ {w}
  /\ Interrupt
  /\ UNCHANGED <<command, finished, remaining, active, stored, sentResults, toRead, clock, job,
                 late, crashes>>

-----------------------------------------------------------------------------
(* A worker *)

(* fifoRecv ends with the first read that ends with EOF_BYTE: what was     *)
(* written behind the directories by then is taken for directories.        *)
ReceiveDirectories(w) ==
  /\ wPc[w] = "directories" /\ cmds[w] # <<>>
  /\ cmds' = [cmds EXCEPT ![w] = <<>>]
  /\ Goto(w, "check")
  /\ UNCHANGED <<je, job, flags, pending, answers>>

SeeCommand(w) ==
  /\ wPc[w] = "check" /\ cmdReady[w]
  /\ Goto(w, "read")
  /\ UNCHANGED <<je, job, flags, pending, fifos>>

(* g_cmdReady is 0: the worker is about to pause ...                       *)
SeeNothing(w) ==
  /\ wPc[w] = "check" /\ ~cmdReady[w]
  /\ Goto(w, "idle")
  /\ UNCHANGED <<je, job, flags, pending, fifos>>

(* ... and a signal that is delivered before it does will not wake it.     *)
Pause(w) ==
  /\ wPc[w] = "idle"
  /\ Goto(w, "pause")
  /\ UNCHANGED <<je, job, flags, pending, fifos>>

(* fifoRecv again: commands that are there together are taken for one.     *)
ReadCommand(w) ==
  /\ wPc[w] = "read" /\ cmds[w] # <<>>
  /\ cmds' = [cmds EXCEPT ![w] = <<>>]
  /\ \E found \in BOOLEAN :
       job' = [job EXCEPT ![w] = [command |-> Head(cmds[w]), found |-> found]]
  /\ Goto(w, "answer")
  /\ UNCHANGED <<je, flags, pending, answers>>

(* A search that found something looks at g_timedout first.  The command   *)
(* is freed.                                                               *)
Answer(w) ==
  /\ wPc[w] = "answer"
  /\ LET kind == IF ~job[w].found                              THEN "nothing"
                 ELSE IF job[w].command.deadline /\ wTimedout[w] THEN "too late"
                 ELSE "results"
     IN answers' = [answers EXCEPT ![w] = Append(@, [id |-> job[w].command.id, kind |-> kind])]
  /\ Goto(w, IF job[w].command.deadline THEN "forget" ELSE "done")
  /\ job' = [job EXCEPT ![w] = NoJob]
  /\ UNCHANGED <<je, flags, pending, cmds>>

(* Only a search resets g_timedout.                                        *)
ForgetDeadline(w) ==
  /\ wPc[w] = "forget"
  /\ wTimedout' = [wTimedout EXCEPT ![w] = FALSE]
  /\ Goto(w, "done")
  /\ UNCHANGED <<je, job, cmdReady, pending, fifos>>

(* g_cmdReady = 0, after the answer was sent.                              *)
Done(w) ==
  /\ wPc[w] = "done"
  /\ cmdReady' = [cmdReady EXCEPT ![w] = FALSE]
  /\ Goto(w, "check")
  /\ UNCHANGED <<je, job, wTimedout, pending, fifos>>

(* Fault: the handler does not tell the two signals apart. *)
DeliverAlike(w) ==
  /\ pending[w] # {} /\ w \notin Dead
  /\ cmdReady' = [cmdReady EXCEPT ![w] = TRUE]
  /\ wTimedout' = [wTimedout EXCEPT ![w] = TRUE]
  /\ pending' = [pending EXCEPT ![w] = {}]
  /\ Goto(w, IF wPc[w] = "pause" THEN "check" ELSE wPc[w])
  /\ UNCHANGED <<je, job, fifos>>

(* The handler of SIGUSR1 and SIGUSR2.  A read that waits for a command is *)
(* interrupted; fifoRecv then goes on with an offset of -1 and overwrites  *)
(* what is in front of its buffer: nothing is said of the worker after it. *)
Deliver(w) ==
  /\ pending[w] # {} /\ w \notin Dead
  /\ cmdReady' = [cmdReady EXCEPT ![w] = @ \/ "USR1" \in pending[w]]
  /\ wTimedout' = [wTimedout EXCEPT ![w] = @ \/ "USR2" \in pending[w]]
  /\ pending' = [pending EXCEPT ![w] = {}]
  /\ Goto(w, CASE wPc[w] = "pause"                     -> "check"
               [] wPc[w] = "read" /\ cmds[w] = <<>>   -> "undefined"
               [] OTHER                               -> wPc[w])
  /\ UNCHANGED <<je, job, fifos>>

(* Fault: the handler of SIGALRM is left out, the alarm is ignored. *)
KeepPausing(w) ==
  /\ wPc[w] = "pause"
  /\ UNCHANGED vars

(* The worker's own alarm, which looks every 30 seconds whether the Job    *)
(* Executor is alive, ends pause too, and interrupts a read like any other *)
(* signal.  Elsewhere it has no effect.                                    *)
CheckParent(w) ==
  /\ \/ wPc[w] = "pause" /\ Goto(w, "check")
     \/ wPc[w] = "read" /\ cmds[w] = <<>> /\ Goto(w, "undefined")
  /\ UNCHANGED <<je, job, flags, pending, fifos>>

(* A worker is killed or dies of an error of its own.                      *)
Crash(w) ==
  /\ w \notin Dead /\ crashes < MaxCrashes /\ ~Over
  /\ Goto(w, "dead")
  /\ crashes' = crashes + 1
  /\ sigchld' = TRUE
  /\ pending' = [pending EXCEPT ![w] = {}]
  /\ cmds' = [cmds EXCEPT ![w] = <<>>]
  /\ job' = [job EXCEPT ![w] = NoJob]
  /\ UNCHANGED <<jePc, query, clock, flags, answers, late, misled>>

(* main has terminated: it stops the workers.                              *)
Terminated ==
  /\ Over
  /\ UNCHANGED vars

-----------------------------------------------------------------------------

JobExecutorStep ==
  \/ (\E hasDeadline \in BOOLEAN : Notify(hasDeadline)) \/ Exit
  \/ CommandStep

WorkerStep(w) ==
  \/ ReceiveDirectories(w) \/ SeeCommand(w) \/ SeeNothing(w) \/ Pause(w)
  \/ ReadCommand(w) \/ Answer(w) \/ ForgetDeadline(w) \/ Done(w)

Next ==
  \/ JobExecutorStep \/ Alarm \/ Terminate
  \/ \E w \in Workers :
       WorkerStep(w) \/ Deliver(w) \/ CheckParent(w) \/ Crash(w) \/ Restart(w)
  \/ Terminated

Spec == Init /\ [][Next]_vars

(***************************************************************************)
(* Every process is scheduled, signals are delivered, alarms go off; that  *)
(* a command is given or a worker killed is never assumed.                 *)
(***************************************************************************)
FairSpec ==
  /\ Spec
  /\ WF_vars(CommandStep) /\ WF_vars(Alarm)
  /\ \A w \in Workers : /\ WF_vars(WorkerStep(w)) /\ WF_vars(Deliver(w))
                        /\ WF_vars(CheckParent(w)) /\ WF_vars(Restart(w))
-----------------------------------------------------------------------------
(* Properties *)

TypeOK ==
  /\ jePc \in {"input", "send", "loop", "entering", "select", "interrupted",
               "tested", "reading", "ended", "undefined"}
  /\ command \in [id : 0..MaxCommands, deadline : BOOLEAN]
  /\ finished \in [Workers -> BOOLEAN] /\ restarted \in [Workers -> BOOLEAN]
  /\ remaining \in Nat /\ active \in Nat /\ stored \in Nat
  /\ sentResults \in BOOLEAN /\ toRead \in SUBSET Workers /\ timedout \in BOOLEAN
  /\ alarm \in BOOLEAN /\ sigchld \in BOOLEAN
  /\ wPc \in [Workers -> {"directories", "check", "idle", "pause", "read", "answer",
                           "forget", "done", "undefined", "dead"}]
  /\ job \in [Workers -> [command : [id : 0..MaxCommands, deadline : BOOLEAN],
                           found : BOOLEAN]]
  /\ cmdReady \in [Workers -> BOOLEAN] /\ wTimedout \in [Workers -> BOOLEAN]
  /\ pending \in [Workers -> SUBSET {"USR1", "USR2"}]
  /\ cmds \in [Workers -> Seq([id : 0..MaxCommands, deadline : BOOLEAN])]
  /\ answers \in [Workers -> Seq([id : 0..MaxCommands,
                                  kind : {"results", "nothing", "too late"}])]
  /\ late \in SUBSET (1..MaxCommands) /\ misled \in SUBSET Workers
  /\ crashes \in 0..MaxCrashes

(* The counters of a command agree with each other, whichever way a worker *)
(* is given up (restarted, or its FIFO at its end): so when the command    *)
(* ends the first activeWorkers elements of totalResults, which are        *)
(* printed and freed, have all been stored.                                *)
EveryActiveStored ==
  /\ active = stored + remaining
  /\ remaining = Cardinality(Unfinished)

(* A worker answers the command that is being executed, never an earlier   *)
(* one: commands have no number that would tell.  Except one that was      *)
(* started again when SIGUSR1 had been sent but not yet the command: it    *)
(* has the command, and was never told; should a second worker die during  *)
(* that command, it is "ignored" with it, and answers at the next command  *)
(* what was asked before.                                                  *)
AnswersCurrent ==
  \A w \in Workers \ misled : \A i \in DOMAIN answers[w] :
    answers[w][i].id = command.id /\ ~finished[w]

(* When the Job Executor is ready for the next command nothing is left of  *)
(* the last one, in either direction; that is why it waits for the answers *)
(* that come after the deadline.                                           *)
NoLeftovers ==
  jePc = "input" => \A w \in Workers \ misled :
                      answers[w] = <<>> /\ cmds[w] \in {<<>>, <<Directories>>}

(* "If we didn't reach the deadline yet send the results to the JE": a     *)
(* worker drops what it found only if a deadline has passed.  It need not  *)
(* be that of the very search it answers: SIGUSR2 that is delivered after  *)
(* the worker has reset g_timedout stays for the next search.              *)
DroppedOnlyAfterDeadline ==
  \A w \in Workers \ misled : \A i \in DOMAIN answers[w] :
    answers[w][i].kind = "too late" => \E k \in late : k <= answers[w][i].id

(* The commands as they are promised.  Of the FIFOs shows which answer is  *)
(* in them, of the signals nothing; a worker is lost while it is dead and, *)
(* once it was started again, as long as the Job Executor knows of it.     *)
Phase ==
  IF jePc = "input" THEN "idle"
  ELSE IF jePc = "send" THEN "asked"
  ELSE IF Over THEN "over"
  ELSE "gathering"

Replies ==
  [w \in Workers |-> IF w \in misled \/ answers[w] = <<>> THEN 0 ELSE answers[w][1].id]

Lost == Dead \cup {w \in Workers : restarted[w]}

QuerySpec ==
  INSTANCE Query WITH
    phase <- Phase, number <- command.id, timed <- command.deadline, waiting <- Unfinished,
    reply <- Replies, heard <- stored, passed <- timedout \/ sentResults, early <- sentResults,
    lost <- Lost, strays <- misled

QueryPromise == QuerySpec!Spec

(* What a worker that is waited for can be in for good.  A read of it was  *)
(* interrupted; or it was never told of the command that is in its FIFO,   *)
(* since its SIGUSR1 was erased with g_cmdReady, or was sent to the worker *)
(* it replaces; or there is no command: the worker it replaces had it, or  *)
(* it took it for directories.                                             *)
NeverTold(w) ==
  /\ wPc[w] \in {"check", "idle", "pause"} /\ cmds[w] # <<>>
  /\ ~cmdReady[w] /\ "USR1" \notin pending[w]

NothingToTell(w) ==
  /\ wPc[w] \notin {"answer", "dead"}
  /\ cmds[w] \in {<<>>, <<Directories>>} /\ answers[w] = <<>>

Stuck(w) ==
  /\ ~finished[w] /\ jePc # "send"
  /\ wPc[w] = "undefined" \/ NeverTold(w) \/ NothingToTell(w)

(* A command that was given ends, or the Job Executor does, whatever       *)
(* signals, deadlines, deaths and restarts come in between; unless one     *)
(* worker is stuck, and stays it, or the Job Executor itself was           *)
(* interrupted in fifoRecv.                                                *)
EndsUnlessStuck ==
  [](jePc = "send" => <>(\/ jePc \in {"input", "ended", "undefined"}
                         \/ \E w \in Workers : []Stuck(w)))

(* "Notify workers to read command and send the command": a command that   *)
(* was given ends, unless a read of a worker was interrupted.              *)
CommandEnds ==
  jePc = "send" ~> \/ jePc \in {"input", "ended"}
                   \/ \E w \in Workers : wPc[w] = "undefined"

=============================================================================
