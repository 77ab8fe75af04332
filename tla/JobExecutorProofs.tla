-------------------------- MODULE JobExecutorProofs ---------------------------
(***************************************************************************)
(* Proofs about the Job Executor: for any number of workers, commands and  *)
(* crashes, the counters of a command agree, answers are not taken for     *)
(* those of another command, and module Query is implemented.              *)
(***************************************************************************)
EXTENDS JobExecutor, SequenceLemmas, FiniteSetTheorems, SequenceTheorems, TLAPS

Command == [id : 0..MaxCommands, deadline : BOOLEAN]
Kind    == {"results", "nothing", "too late"}

-----------------------------------------------------------------------------
(* The inductive invariant, in parts *)

JobExecutorTyping ==
  /\ jePc \in {"input", "send", "loop", "entering", "select", "interrupted",
               "tested", "reading", "ended", "undefined"}
  /\ command \in Command
  /\ finished \in [Workers -> BOOLEAN] /\ restarted \in [Workers -> BOOLEAN]
  /\ stored \in Nat
  /\ sentResults \in BOOLEAN /\ toRead \in SUBSET Workers /\ timedout \in BOOLEAN
  /\ alarm \in BOOLEAN /\ sigchld \in BOOLEAN
  /\ late \in SUBSET (1..MaxCommands) /\ misled \in SUBSET Workers
  /\ crashes \in 0..MaxCrashes

WorkerTyping ==
  /\ wPc \in [Workers -> {"directories", "check", "idle", "pause", "read", "answer",
                           "forget", "done", "undefined", "dead"}]
  /\ job \in [Workers -> [command : Command, found : BOOLEAN]]
  /\ cmdReady \in [Workers -> BOOLEAN] /\ wTimedout \in [Workers -> BOOLEAN]
  /\ pending \in [Workers -> SUBSET {"USR1", "USR2"}]

Reply == [id : 0..MaxCommands, kind : Kind]

FifoTyping ==
  /\ cmds \in [Workers -> Seq(Command)]
  /\ answers \in [Workers -> Seq(Reply)]

(* A command that is being executed has a number. *)
Numbered == jePc \in {"send", "loop", "entering", "select", "interrupted", "tested", "reading"}
              => command.id > 0

(* The counters of a command. *)
Counts ==
  /\ remaining = Cardinality(Unfinished)
  /\ active = stored + remaining

(* Only FIFOs of workers that have not finished are read. *)
Selected == jePc = "reading" => toRead \subseteq Unfinished

(* The way of a command to worker w and of its answer back.  The Job       *)
(* Executor waits for it; it is in the FIFO, behind the directories if the *)
(* worker has not read those yet; or there is none; it is being executed;  *)
(* or it has been answered.                                                *)
Waiting(w) == ~finished[w] /\ ~restarted[w] /\ jePc \notin {"input", "send"}
Told(w)   == cmds[w] = IF wPc[w] = "directories" THEN <<Directories, command>> ELSE <<command>>
Untold(w) == cmds[w] = IF wPc[w] = "directories" THEN <<Directories>> ELSE <<>>

OneCommand(w) ==
  /\ Told(w) \/ Untold(w)
  /\ Told(w) => Waiting(w) /\ answers[w] = <<>> /\ wPc[w] \notin {"answer", "dead"}
  /\ wPc[w] = "answer" => Waiting(w) /\ Untold(w) /\ answers[w] = <<>> /\ job[w].command = command
  /\ answers[w] # <<>> => /\ Waiting(w) /\ Untold(w) /\ wPc[w] \notin {"directories", "answer"}
                          /\ Len(answers[w]) = 1 /\ answers[w][1].id = command.id
  /\ jePc = "send" => ~finished[w] /\ ~restarted[w]

InStep == \A w \in Workers \ misled : OneCommand(w)

(* SIGUSR2 is sent, and results are dropped, only when a deadline has passed. *)
Hurried(w) ==
  \/ wTimedout[w] \/ "USR2" \in pending[w]
  \/ \E i \in DOMAIN answers[w] : answers[w][i].kind = "too late"
Lateness ==
  /\ late \subseteq 1..command.id
  /\ \A w \in Workers : Hurried(w) => late # {}

(* The alarm is set for a search, goes off once, and is looked at once. *)
Clockwork ==
  /\ ~(alarm /\ timedout)
  /\ alarm \/ timedout => command.deadline /\ ~sentResults /\ jePc \notin {"input", "send"}
  /\ jePc = "send" => ~sentResults

Inv ==
  /\ JobExecutorTyping /\ WorkerTyping /\ FifoTyping
  /\ Numbered /\ Counts /\ Selected /\ InStep /\ Lateness /\ Clockwork

-----------------------------------------------------------------------------

LEMMA Sizes ==
  /\ IsFiniteSet(Workers) /\ IsFiniteSet(Unfinished)
  /\ Cardinality(Workers) \in Nat /\ Cardinality(Unfinished) \in Nat
<1>1. IsFiniteSet(Workers) /\ Unfinished \subseteq Workers
  BY JobExecutorAssumption DEF Unfinished
<1> QED
  BY <1>1, FS_Subset, FS_CardinalityType

LEMMA TakeAway ==
  ASSUME NEW S, IsFiniteSet(S), NEW T \in SUBSET S
  PROVE  /\ Cardinality(S \ T) = Cardinality(S) - Cardinality(T)
         /\ Cardinality(S) \in Nat /\ Cardinality(T) \in Nat /\ Cardinality(S \ T) \in Nat
         /\ IsFiniteSet(T)
<1>1. IsFiniteSet(T) /\ S \cap T = T /\ IsFiniteSet(S \ T)
  BY FS_Subset
<1>2. Cardinality(S \ T) = Cardinality(S) - Cardinality(S \cap T)
  BY FS_Difference
<1> QED
  BY <1>1, <1>2, FS_CardinalityType

LEMMA NumberedStep ==
  ASSUME JobExecutorTyping, Numbered, [Next]_vars
  PROVE  Numbered'
<1>1. CASE jePc' = jePc /\ command' = command
  BY <1>1 DEF Numbered
<1>2. ASSUME NEW d \in BOOLEAN, Notify(d) PROVE Numbered'
  BY <1>2 DEF Notify, Numbered, JobExecutorTyping, Command
<1>3. CASE CommandStep \/ Exit \/ Terminate
  BY <1>3 DEF CommandStep, Exit, Terminate, Send, SendFails, Deadline, EnterSelect, Block,
     PassFirstTest, IgnoreRestarted, FallThrough, SelectReturns, ReadFifo, Finish, Numbered, query
<1>4. CASE Alarm \/ \E w \in Workers : Restart(w)
  BY <1>4 DEF Alarm, Restart, Interrupt, Numbered, query
<1>5. ASSUME NEW w \in Workers, WorkerStep(w) \/ Deliver(w) \/ CheckParent(w) \/ Crash(w)
      PROVE  jePc' = jePc /\ command' = command
  BY <1>5 DEF WorkerStep, ReceiveDirectories, SeeCommand, SeeNothing, Pause, ReadCommand, Answer,
     ForgetDeadline, Done, Deliver, CheckParent, Crash, je, query
<1>6. CASE UNCHANGED vars
  BY <1>6, <1>1 DEF vars, je, query
<1> QED
  BY <1>1, <1>2, <1>3, <1>4, <1>5, <1>6 DEF Next, JobExecutorStep, Terminated

(* The steps of the workers, and those of the Job Executor that only move  *)
(* it from place to place, or say what it reads.                           *)
WorkerMoves == \E w \in Workers : WorkerStep(w) \/ Deliver(w) \/ CheckParent(w)
PlainMoves ==
  \/ SendFails \/ EnterSelect \/ Block \/ PassFirstTest \/ FallThrough \/ SelectReturns
  \/ Finish \/ Exit \/ Terminate

counted == <<command, finished, restarted, remaining, active, stored, sentResults>>

LEMMA WorkerMovesLeaveJobExecutor ==
  ASSUME WorkerMoves
  PROVE  UNCHANGED je
BY DEF WorkerMoves, WorkerStep, ReceiveDirectories, SeeCommand, SeeNothing, Pause, ReadCommand,
       Answer, ForgetDeadline, Done, Deliver, CheckParent

LEMMA PlainMovesLeaveRest ==
  ASSUME PlainMoves
  PROVE  /\ UNCHANGED <<counted, sigchld, workers, fifos, history>>
         /\ toRead' = toRead \/ toRead' \subseteq Unfinished
         /\ jePc' = "reading" => toRead' \subseteq Unfinished
         /\ jePc' \in {"loop", "entering", "select", "tested", "reading", "input", "ended"}
         /\ jePc' = "input" => jePc = "loop" /\ remaining = 0
         /\ \/ UNCHANGED clock
            \/ alarm' = FALSE /\ timedout' = FALSE
BY DEF PlainMoves, SendFails, EnterSelect, Block, PassFirstTest, FallThrough, SelectReturns,
       Finish, Exit, Terminate, query, counted

LEMMA StepCases ==
  ASSUME [Next]_vars
  PROVE  \/ \E d \in BOOLEAN : Notify(d)
         \/ Send \/ Deadline \/ IgnoreRestarted
         \/ \E w \in Workers : ReadFifo(w) \/ Crash(w) \/ Restart(w)
         \/ Alarm \/ PlainMoves \/ WorkerMoves \/ UNCHANGED vars
BY DEF Next, JobExecutorStep, CommandStep, WorkerMoves, PlainMoves, Terminated

LEMMA JobExecutorTypingStep ==
  ASSUME JobExecutorTyping, Numbered, [Next]_vars
  PROVE  JobExecutorTyping'
<1> USE DEF JobExecutorTyping
<1>1. ASSUME NEW d \in BOOLEAN, Notify(d) PROVE JobExecutorTyping'
  <2>1. command' \in Command
    BY <1>1, JobExecutorAssumption DEF Notify, Command
  <2> QED
    BY <1>1, <2>1 DEF Notify, clock, history
<1>2. CASE Send
  BY <1>2 DEF Send, query, history, Command
<1>3. CASE Deadline
  <2>1. command.id \in 1..MaxCommands
    BY <1>3, JobExecutorAssumption DEF Deadline, Numbered, Command
  <2> QED
    BY <1>3, <2>1 DEF Deadline
<1>4. CASE IgnoreRestarted
  BY <1>4 DEF IgnoreRestarted, clock, history
<1>5. ASSUME NEW w \in Workers, ReadFifo(w) PROVE JobExecutorTyping'
  BY <1>5 DEF ReadFifo, clock, history
<1>6. CASE PlainMoves
  <2>1. Unfinished \subseteq Workers
    BY DEF Unfinished
  <2> QED
    BY <1>6, <2>1, PlainMovesLeaveRest DEF counted, clock, history
<1>7. ASSUME NEW w \in Workers, Crash(w) PROVE JobExecutorTyping'
  BY <1>7, JobExecutorAssumption DEF Crash, query, clock
<1>8. ASSUME NEW w \in Workers, Restart(w) PROVE JobExecutorTyping'
  <2>1. restarted' \in [Workers -> BOOLEAN] /\ misled' \in SUBSET Workers
    BY <1>8 DEF Restart
  <2>2. jePc' = jePc \/ jePc' \in {"interrupted", "reading", "undefined"}
    BY <1>8 DEF Restart, Interrupt
  <2> QED
    BY <1>8, <2>1, <2>2 DEF Restart, clock
<1>9. CASE Alarm
  <2>1. jePc' = jePc \/ jePc' \in {"interrupted", "reading", "undefined"}
    BY <1>9 DEF Alarm, Interrupt
  <2> QED
    BY <1>9, <2>1 DEF Alarm, query, history
<1>10. CASE WorkerMoves \/ UNCHANGED vars
  <2>1. UNCHANGED je
    BY <1>10, WorkerMovesLeaveJobExecutor DEF vars
  <2> QED
    BY <2>1 DEF je, query, clock, history
<1> QED
  BY <1>1, <1>2, <1>3, <1>4, <1>5, <1>6, <1>7, <1>8, <1>9, <1>10, StepCases

LEMMA CountsStep ==
  ASSUME JobExecutorTyping, Counts, Selected, [Next]_vars
  PROVE  Counts'
<1>1. ASSUME UNCHANGED <<finished, remaining, active, stored>> PROVE Counts'
  BY <1>1 DEF Counts, Unfinished
<1>2. ASSUME NEW d \in BOOLEAN, Notify(d) PROVE Counts'
  <2>1. Unfinished' = Workers
    BY <1>2 DEF Notify, Unfinished
  <2> QED
    BY <1>2, <2>1, Sizes DEF Notify, Counts
<1>3. CASE IgnoreRestarted
  <2> DEFINE T == {w \in Unfinished : restarted[w]}
  <2>1. Unfinished' = Unfinished \ T
    BY <1>3 DEF IgnoreRestarted, Unfinished
  <2>2. active' = active - Cardinality(T) /\ remaining' = remaining - Cardinality(T) /\ stored' = stored
    BY <1>3 DEF IgnoreRestarted
  <2>3. /\ Cardinality(Unfinished \ T) = Cardinality(Unfinished) - Cardinality(T)
        /\ Cardinality(T) \in Nat
    BY Sizes, TakeAway
  <2> HIDE DEF T
  <2> QED
    BY <2>1, <2>2, <2>3, Sizes DEF Counts, JobExecutorTyping
<1>4. ASSUME NEW w \in Workers, ReadFifo(w) PROVE Counts'
  <2>1. w \in Unfinished /\ Unfinished' = Unfinished \ {w}
    BY <1>4 DEF ReadFifo, Selected, Unfinished, JobExecutorTyping
  <2>2. Cardinality(Unfinished \ {w}) = Cardinality(Unfinished) - 1
    BY <2>1, Sizes, FS_RemoveElement
  <2>3. /\ remaining' = remaining - 1
        /\ \/ active' = active - 1 /\ stored' = stored
           \/ active' = active /\ stored' = stored + 1
    BY <1>4 DEF ReadFifo
  <2> QED
    BY <2>1, <2>2, <2>3, Sizes DEF Counts, JobExecutorTyping
<1>5. CASE Send \/ Deadline \/ Alarm \/ \E w \in Workers : Crash(w) \/ Restart(w)
  BY <1>1, <1>5 DEF Send, Deadline, Alarm, Crash, Restart, query
<1>6. CASE PlainMoves
  BY <1>1, <1>6, PlainMovesLeaveRest DEF counted
<1>7. CASE WorkerMoves \/ UNCHANGED vars
  BY <1>1, <1>7, WorkerMovesLeaveJobExecutor DEF vars, je, query
<1> QED
  BY <1>2, <1>3, <1>4, <1>5, <1>6, <1>7, StepCases

LEMMA SelectedStep ==
  ASSUME JobExecutorTyping, Selected, [Next]_vars
  PROVE  Selected'
<1>1. ASSUME UNCHANGED <<finished, toRead>>, jePc' = "reading" => jePc = "reading"
      PROVE  Selected'
  BY <1>1 DEF Selected, Unfinished
<1>2. CASE Send \/ Deadline \/ IgnoreRestarted \/ \E d \in BOOLEAN : Notify(d)
  BY <1>2 DEF Send, Deadline, IgnoreRestarted, Notify, Selected
<1>3. ASSUME NEW w \in Workers, ReadFifo(w) PROVE Selected'
  <2>1. jePc = "reading" /\ toRead' = toRead \ {w} /\ finished' = [finished EXCEPT ![w] = TRUE]
    BY <1>3 DEF ReadFifo
  <2>2. Unfinished' = Unfinished \ {w}
    BY <2>1 DEF Unfinished, JobExecutorTyping
  <2> QED
    BY <2>1, <2>2 DEF Selected
<1>4. CASE Alarm \/ \E w \in Workers : Crash(w) \/ Restart(w)
  <2>1. UNCHANGED <<finished, toRead>> /\ (jePc' = "reading" => jePc = "reading")
    BY <1>4 DEF Alarm, Crash, Restart, Interrupt, query
  <2> QED
    BY <1>1, <2>1
<1>5. CASE PlainMoves
  <2>1. Unfinished' = Unfinished /\ (jePc' = "reading" => toRead' \subseteq Unfinished)
    BY <1>5, PlainMovesLeaveRest DEF counted, Unfinished
  <2> QED
    BY <2>1 DEF Selected
<1>6. CASE WorkerMoves \/ UNCHANGED vars
  BY <1>1, <1>6, WorkerMovesLeaveJobExecutor DEF vars, je, query
<1> QED
  BY <1>2, <1>3, <1>4, <1>5, <1>6, StepCases

-----------------------------------------------------------------------------
(* The FIFOs *)

LEMMA AppendToOne ==
  ASSUME NEW S, NEW a \in S, NEW b \in S
  PROVE  Append(<<a>>, b) = <<a, b>>
<1> DEFINE l == Append(<<a>>, b)
           r == <<a, b>>
<1>1. l \in Seq(S) /\ r \in Seq(S) /\ Len(l) = 2 /\ Len(r) = 2
  OBVIOUS
<1>2. l[1] = a /\ l[2] = b /\ r[1] = a /\ r[2] = b
  OBVIOUS
<1> HIDE DEF l, r
<1>3. l = r
  BY <1>1, <1>2
<1> QED
  BY <1>3 DEF l, r

LEMMA TailOfOne ==
  ASSUME NEW S, NEW q \in Seq(S), Len(q) = 1
  PROVE  Tail(q) = <<>> /\ DOMAIN q = {1}
<1>1. Tail(q) \in Seq(S) /\ Len(Tail(q)) = 0 /\ DOMAIN q = {1}
  OBVIOUS
<1> QED
  BY <1>1, EmptySeq

LEMMA SequenceTypes ==
  ASSUME NEW S
  PROVE  /\ <<>> \in Seq(S)
         /\ \A q \in Seq(S) : q # <<>> => Tail(q) \in Seq(S) /\ Head(q) \in S
         /\ \A q \in Seq(S), e \in S : Append(q, e) \in Seq(S)
OBVIOUS

LEMMA WorkerTypingStep ==
  ASSUME WorkerTyping, FifoTyping, [Next]_vars
  PROVE  WorkerTyping'
<1>1. NoJob \in [command : Command, found : BOOLEAN]
  BY JobExecutorAssumption DEF NoJob, Directories, Command
<1>2. ASSUME NEW d \in BOOLEAN, Notify(d) PROVE WorkerTyping'
  BY <1>2 DEF Notify, WorkerTyping, flags
<1>3. CASE Deadline
  BY <1>3 DEF Deadline, WorkerTyping, flags
<1>4. CASE \/ Send \/ IgnoreRestarted \/ Alarm \/ PlainMoves \/ UNCHANGED vars
           \/ \E w \in Workers : ReadFifo(w)
  <2>1. UNCHANGED workers
    BY <1>4, PlainMovesLeaveRest DEF Send, IgnoreRestarted, Alarm, ReadFifo, vars
  <2> QED
    BY <2>1 DEF WorkerTyping, workers, flags
<1>5. ASSUME NEW w \in Workers, Crash(w) PROVE WorkerTyping'
  BY <1>1, <1>5 DEF Crash, WorkerTyping, Goto, flags
<1>6. ASSUME NEW w \in Workers, Restart(w) PROVE WorkerTyping'
  BY <1>6 DEF Restart, WorkerTyping, Goto
<1>7. ASSUME NEW w \in Workers, ReadCommand(w) PROVE WorkerTyping'
  <2>1. Head(cmds[w]) \in Command
    BY <1>7, SequenceTypes DEF ReadCommand, FifoTyping
  <2> QED
    BY <1>7, <2>1 DEF ReadCommand, WorkerTyping, Goto, flags
<1>8. ASSUME NEW w \in Workers, Answer(w) PROVE WorkerTyping'
  BY <1>1, <1>8 DEF Answer, WorkerTyping, Goto, flags
<1>9. ASSUME NEW w \in Workers,
             \/ ReceiveDirectories(w) \/ SeeCommand(w) \/ SeeNothing(w) \/ Pause(w)
             \/ ForgetDeadline(w) \/ Done(w) \/ Deliver(w) \/ CheckParent(w)
      PROVE  WorkerTyping'
  <2>1. CASE ReceiveDirectories(w) \/ SeeCommand(w) \/ SeeNothing(w) \/ Pause(w)
    BY <2>1 DEF ReceiveDirectories, SeeCommand, SeeNothing, Pause, WorkerTyping, Goto, flags
  <2>2. CASE ForgetDeadline(w) \/ Done(w) \/ Deliver(w) \/ CheckParent(w)
    BY <2>2 DEF ForgetDeadline, Done, Deliver, CheckParent, WorkerTyping, Goto, flags
  <2> QED
    BY <1>9, <2>1, <2>2
<1> QED
  BY <1>2, <1>3, <1>4, <1>5, <1>6, <1>7, <1>8, <1>9, StepCases DEF WorkerMoves, WorkerStep

LEMMA FifoTypingStep ==
  ASSUME JobExecutorTyping, WorkerTyping, FifoTyping, [Next]_vars
  PROVE  FifoTyping'
<1>1. Directories \in Command /\ <<Directories>> \in Seq(Command)
  BY JobExecutorAssumption DEF Directories, Command
<1>2. ASSUME NEW w \in Workers, NEW q \in Seq(Command), cmds' = [cmds EXCEPT ![w] = q],
             answers' = answers \/ answers' = [answers EXCEPT ![w] = <<>>]
      PROVE  FifoTyping'
  BY <1>2, SequenceTypes DEF FifoTyping
<1>3. CASE Send
  <2>1. \A w \in Workers : Append(cmds[w], command) \in Seq(Command)
    BY SequenceTypes DEF FifoTyping, JobExecutorTyping
  <2> QED
    BY <1>3, <2>1 DEF Send, FifoTyping
<1>4. ASSUME NEW w \in Workers, ReadFifo(w) PROVE FifoTyping'
  <2>1. /\ \/ answers' = answers
           \/ answers[w] # <<>> /\ answers' = [answers EXCEPT ![w] = Tail(answers[w])]
        /\ cmds' = cmds
    BY <1>4 DEF ReadFifo
  <2>2. answers[w] # <<>> => Tail(answers[w]) \in Seq(Reply)
    BY SequenceTypes DEF FifoTyping
  <2> QED
    BY <2>1, <2>2 DEF FifoTyping
<1>5. ASSUME NEW w \in Workers, Crash(w) \/ ReceiveDirectories(w) \/ ReadCommand(w)
      PROVE  FifoTyping'
  <2>1. cmds' = [cmds EXCEPT ![w] = <<>>] /\ answers' = answers
    BY <1>5 DEF Crash, ReceiveDirectories, ReadCommand
  <2> QED
    BY <1>2, <2>1, SequenceTypes
<1>6. ASSUME NEW w \in Workers, Restart(w) PROVE FifoTyping'
  <2>1. cmds' = [cmds EXCEPT ![w] = <<Directories>>] /\ answers' = [answers EXCEPT ![w] = <<>>]
    BY <1>6 DEF Restart
  <2> QED
    BY <1>1, <1>2, <2>1
<1>7. ASSUME NEW w \in Workers, Answer(w) PROVE FifoTyping'
  <2>1. PICK r \in Reply : answers' = [answers EXCEPT ![w] = Append(answers[w], r)]
    <3>1. job[w].command.id \in 0..MaxCommands
      BY DEF WorkerTyping, Command
    <3>2. PICK k \in Kind :
            answers' = [answers EXCEPT ![w] = Append(@, [id |-> job[w].command.id, kind |-> k])]
      BY <1>7 DEF Answer, Kind
    <3>3. [id |-> job[w].command.id, kind |-> k] \in Reply
      BY <3>1 DEF Reply
    <3> QED
      BY <3>2, <3>3
  <2>2. Append(answers[w], r) \in Seq(Reply)
    BY SequenceTypes DEF FifoTyping
  <2> QED
    BY <1>7, <2>1, <2>2 DEF Answer, FifoTyping
<1>8. ASSUME UNCHANGED fifos PROVE FifoTyping'
  BY <1>8 DEF FifoTyping, fifos
<1>9. CASE \/ \E d \in BOOLEAN : Notify(d)
            \/ Deadline \/ IgnoreRestarted \/ Alarm \/ PlainMoves \/ UNCHANGED vars
  BY <1>8, <1>9, PlainMovesLeaveRest DEF Notify, Deadline, IgnoreRestarted, Alarm, vars
<1>10. ASSUME NEW w \in Workers,
              \/ SeeCommand(w) \/ SeeNothing(w) \/ Pause(w)
              \/ ForgetDeadline(w) \/ Done(w) \/ Deliver(w) \/ CheckParent(w)
       PROVE  FifoTyping'
  BY <1>8, <1>10 DEF SeeCommand, SeeNothing, Pause, ForgetDeadline, Done, Deliver, CheckParent
<1> QED
  BY <1>3, <1>4, <1>5, <1>6, <1>7, <1>9, <1>10, StepCases DEF WorkerMoves, WorkerStep

-----------------------------------------------------------------------------
(* The way of a command *)

(* A step that leaves worker w and its FIFOs alone. *)
LEMMA NotConcerned ==
  ASSUME NEW w \in Workers, OneCommand(w),
         wPc'[w] = wPc[w], job'[w] = job[w], cmds'[w] = cmds[w], answers'[w] = answers[w],
         command' = command, Waiting(w) => Waiting(w)',
         jePc' = "send" => jePc = "send" /\ finished'[w] = finished[w] /\ restarted'[w] = restarted[w]
  PROVE  OneCommand(w)'
BY DEF OneCommand, Told, Untold, Waiting

(* A worker that moves, but does not read or write. *)
LEMMA MovesOnly ==
  ASSUME NEW w \in Workers, OneCommand(w),
         wPc[w] \notin {"directories", "dead"}, wPc'[w] \notin {"directories", "answer", "dead"},
         UNCHANGED <<cmds, answers, command, finished, restarted, jePc>>
  PROVE  OneCommand(w)'
BY DEF OneCommand, Told, Untold, Waiting

(* An answer, or the end of the FIFO, is read. *)
LEMMA Read ==
  ASSUME FifoTyping, NEW w \in Workers, OneCommand(w),
         \/ answers[w] # <<>> /\ answers'[w] = Tail(answers[w])
         \/ answers[w] = <<>> /\ answers'[w] = <<>> /\ wPc[w] = "dead",
         wPc'[w] = wPc[w], cmds'[w] = cmds[w], command' = command, jePc' # "send"
  PROVE  OneCommand(w)'
<1>1. ~ Told(w) /\ Untold(w) /\ wPc[w] # "answer"
  BY DEF OneCommand
<1>2. answers'[w] = <<>>
  BY TailOfOne DEF OneCommand, FifoTyping
<1>3. ~ Told(w)' /\ Untold(w)'
  BY <1>1 DEF Told, Untold
<1> QED
  BY <1>1, <1>2, <1>3 DEF OneCommand

LEMMA OneCommandAtSend ==
  ASSUME FifoTyping, JobExecutorTyping, NEW w \in Workers, OneCommand(w), Send
  PROVE  OneCommand(w)'
<1>1. /\ jePc = "send" /\ jePc' = "loop" /\ wPc[w] # "dead"
      /\ cmds'[w] = Append(cmds[w], command)
      /\ UNCHANGED <<command, finished, restarted, wPc, answers, job>>
  BY DEF Send, Dead, query, workers, FifoTyping
<1>2. Untold(w) /\ wPc[w] # "answer" /\ answers[w] = <<>> /\ ~finished[w] /\ ~restarted[w]
  BY <1>1 DEF OneCommand, Waiting
<1>3. Told(w)'
  <2>1. command \in Command /\ Directories \in Command
    BY JobExecutorAssumption DEF JobExecutorTyping, Directories, Command
  <2>2. Append(<<Directories>>, command) = <<Directories, command>>
    BY <2>1, AppendToOne
  <2>3. Append(<<>>, command) = <<command>>
    OBVIOUS
  <2> QED
    BY <1>1, <1>2, <2>2, <2>3 DEF Told, Untold
<1>4. Waiting(w)'
  BY <1>1, <1>2 DEF Waiting
<1> QED
  BY <1>1, <1>2, <1>3, <1>4 DEF OneCommand

LEMMA OneCommandAtNotify ==
  ASSUME NEW w \in Workers, OneCommand(w), NEW d \in BOOLEAN, Notify(d)
  PROVE  OneCommand(w)'
<1>1. /\ jePc = "input" /\ finished'[w] = FALSE /\ restarted'[w] = FALSE
      /\ UNCHANGED <<wPc, answers, cmds, job>>
  BY DEF Notify, fifos
<1>2. Untold(w) /\ wPc[w] # "answer" /\ answers[w] = <<>>
  BY <1>1 DEF OneCommand, Waiting
<1>3. \A a, b, c : <<a, b>> # <<c>> /\ <<a>> # <<>>
  OBVIOUS
<1>4. Untold(w)' /\ ~ Told(w)'
  BY <1>1, <1>2, <1>3 DEF Told, Untold
<1> QED
  BY <1>1, <1>2, <1>4 DEF OneCommand

LEMMA OneCommandAtRestart ==
  ASSUME FifoTyping, WorkerTyping, NEW w \in Workers, Restart(w), jePc # "send"
  PROVE  OneCommand(w)'
<1>1. /\ wPc'[w] = "directories" /\ cmds'[w] = <<Directories>> /\ answers'[w] = <<>>
      /\ jePc' # "send"
  BY DEF Restart, Goto, FifoTyping, WorkerTyping, Interrupt
<1>2. \A a, b, c : <<a, b>> # <<c>>
  OBVIOUS
<1>3. Untold(w)' /\ ~ Told(w)'
  BY <1>1, <1>2 DEF Told, Untold
<1> QED
  BY <1>1, <1>3 DEF OneCommand

LEMMA OneCommandAtCrash ==
  ASSUME FifoTyping, WorkerTyping, NEW w \in Workers, OneCommand(w), Crash(w)
  PROVE  OneCommand(w)'
<1>1. /\ wPc'[w] = "dead" /\ cmds'[w] = <<>>
      /\ UNCHANGED <<answers, command, finished, restarted, jePc>>
  BY DEF Crash, Goto, FifoTyping, WorkerTyping, query
<1>2. \A a : <<a>> # <<>>
  OBVIOUS
<1>3. Untold(w)' /\ ~ Told(w)'
  BY <1>1, <1>2 DEF Told, Untold
<1> QED
  BY <1>1, <1>3 DEF OneCommand, Waiting

LEMMA OneCommandInWorker ==
  ASSUME FifoTyping, WorkerTyping, NEW w \in Workers, OneCommand(w),
         WorkerStep(w) \/ Deliver(w) \/ CheckParent(w)
  PROVE  OneCommand(w)'
<1>1. UNCHANGED <<command, finished, restarted, jePc>>
  BY WorkerMovesLeaveJobExecutor DEF WorkerMoves, je, query
<1>2. CASE ReceiveDirectories(w)
  <2>1. /\ wPc[w] = "directories" /\ wPc'[w] = "check" /\ cmds'[w] = <<>> /\ answers' = answers
    BY <1>2 DEF ReceiveDirectories, Goto, FifoTyping, WorkerTyping
  <2>2. answers[w] = <<>> /\ Untold(w)' /\ ~ Told(w)'
    <3>1. \A a : <<a>> # <<>>
      OBVIOUS
    <3> QED
      BY <2>1, <3>1 DEF OneCommand, Untold, Told
  <2> QED
    BY <1>1, <2>1, <2>2 DEF OneCommand
<1>3. CASE \/ SeeCommand(w) \/ SeeNothing(w) \/ Pause(w) \/ ForgetDeadline(w) \/ Done(w)
           \/ CheckParent(w)
  <2>1. /\ wPc[w] \notin {"directories", "dead"} /\ wPc'[w] \notin {"directories", "answer", "dead"}
        /\ UNCHANGED <<cmds, answers>>
    BY <1>3 DEF SeeCommand, SeeNothing, Pause, ForgetDeadline, Done, CheckParent, Goto,
       WorkerTyping, fifos
  <2> QED
    BY <1>1, <2>1, MovesOnly
<1>4. CASE ReadCommand(w)
  <2>1. /\ wPc[w] = "read" /\ cmds[w] # <<>> /\ wPc'[w] = "answer" /\ cmds'[w] = <<>>
        /\ job'[w].command = Head(cmds[w]) /\ answers' = answers
    BY <1>4 DEF ReadCommand, Goto, FifoTyping, WorkerTyping
  <2>2. Told(w) /\ cmds[w] = <<command>>
    BY <2>1 DEF OneCommand, Told, Untold
  <2>3. Head(<<command>>) = command /\ <<command>> # <<>>
    OBVIOUS
  <2>4. Untold(w)' /\ ~ Told(w)'
    BY <1>1, <2>1, <2>3 DEF Told, Untold
  <2> QED
    BY <1>1, <2>1, <2>2, <2>3, <2>4 DEF OneCommand, Waiting
<1>5. CASE Answer(w)
  <2>1. wPc[w] = "answer" /\ wPc'[w] \in {"forget", "done"} /\ cmds' = cmds
    BY <1>5 DEF Answer, Goto, WorkerTyping
  <2>2. Waiting(w) /\ Untold(w) /\ ~ Told(w) /\ answers[w] = <<>> /\ job[w].command = command
    BY <2>1 DEF OneCommand
  <2>3. \E k : answers'[w] = Append(answers[w], [id |-> job[w].command.id, kind |-> k])
    BY <1>5 DEF Answer, FifoTyping
  <2>4. Len(answers'[w]) = 1 /\ answers'[w][1].id = command.id
    <3>1. PICK k : answers'[w] = Append(<<>>, [id |-> command.id, kind |-> k])
      BY <2>2, <2>3
    <3>2. \A r : Append(<<>>, r) = <<r>> /\ Len(<<r>>) = 1 /\ <<r>>[1] = r
      OBVIOUS
    <3> QED
      BY <3>1, <3>2
  <2>5. Untold(w)' /\ ~ Told(w)' /\ Waiting(w)'
    BY <1>1, <2>1, <2>2 DEF Told, Untold, Waiting
  <2> QED
    BY <1>1, <2>1, <2>2, <2>4, <2>5 DEF OneCommand, Waiting
<1>6. CASE Deliver(w)
  <2>1. /\ wPc[w] # "dead" /\ UNCHANGED <<cmds, answers, job>>
        /\ \/ wPc'[w] = wPc[w]
           \/ wPc[w] \in {"pause", "read"} /\ wPc'[w] \in {"check", "undefined"}
    <3>1. wPc'[w] = CASE wPc[w] = "pause"                   -> "check"
                      [] wPc[w] = "read" /\ cmds[w] = <<>> -> "undefined"
                      [] OTHER                             -> wPc[w]
      BY <1>6 DEF Deliver, Goto, WorkerTyping
    <3>2. wPc[w] # "dead" /\ UNCHANGED <<cmds, answers, job>>
      BY <1>6 DEF Deliver, Dead, fifos
    <3>3. CASE wPc[w] = "pause"
      BY <3>1, <3>2, <3>3
    <3>4. CASE wPc[w] = "read" /\ cmds[w] = <<>>
      BY <3>1, <3>2, <3>4
    <3>5. CASE ~ (wPc[w] = "pause") /\ ~ (wPc[w] = "read" /\ cmds[w] = <<>>)
      BY <3>1, <3>2, <3>5
    <3> QED
      BY <3>3, <3>4, <3>5
  <2> QED
    BY <1>1, <2>1, MovesOnly, NotConcerned DEF Waiting
<1> QED
  BY <1>2, <1>3, <1>4, <1>5, <1>6 DEF WorkerStep

(* What a worker does concerns no other worker. *)
LEMMA OthersUntouched ==
  ASSUME FifoTyping, WorkerTyping, NEW u \in Workers, NEW w \in Workers, u # w,
         WorkerStep(u) \/ Deliver(u) \/ CheckParent(u) \/ Crash(u) \/ Restart(u)
  PROVE  /\ wPc'[w] = wPc[w] /\ job'[w] = job[w] /\ cmds'[w] = cmds[w] /\ answers'[w] = answers[w]
BY DEF WorkerStep, ReceiveDirectories, SeeCommand, SeeNothing, Pause, ReadCommand, Answer,
       ForgetDeadline, Done, Deliver, CheckParent, Crash, Restart, Goto, FifoTyping, WorkerTyping,
       fifos

LEMMA InStepStep ==
  ASSUME JobExecutorTyping, WorkerTyping, FifoTyping, Counts, InStep, [Next]_vars
  PROVE  InStep'
<1> SUFFICES ASSUME NEW w \in Workers, w \notin misled' PROVE OneCommand(w)'
  BY DEF InStep
<1>1. ASSUME misled' = misled PROVE OneCommand(w)
  BY <1>1 DEF InStep
<1>2. ASSUME NEW d \in BOOLEAN, Notify(d) PROVE OneCommand(w)'
  BY <1>1, <1>2, OneCommandAtNotify DEF Notify, history
<1>3. CASE Send
  BY <1>1, <1>3, OneCommandAtSend DEF Send, history
<1>4. CASE Deadline
  <2>1. /\ UNCHANGED <<command, finished, restarted, wPc, job, fifos, misled>>
        /\ jePc' = "loop" /\ jePc \in {"loop", "interrupted"}
    BY <1>4 DEF Deadline
  <2> QED
    BY <1>1, <2>1, NotConcerned DEF Waiting, fifos
<1>5. CASE IgnoreRestarted
  <2>1. /\ UNCHANGED <<command, restarted, workers, fifos, misled>>
        /\ jePc' = "loop" /\ jePc = "tested"
        /\ finished'[w] => finished[w] \/ restarted[w]
    BY <1>5 DEF IgnoreRestarted, Unfinished, history
  <2> QED
    BY <1>1, <2>1, NotConcerned DEF Waiting, fifos, workers
<1>6. ASSUME NEW u \in Workers, ReadFifo(u) PROVE OneCommand(w)'
  <2>1. /\ UNCHANGED <<command, restarted, workers, cmds, misled>>
        /\ jePc' \in {"loop", "reading"} /\ jePc = "reading"
        /\ answers[u] # <<>> \/ wPc[u] = "dead"
        /\ finished' = [finished EXCEPT ![u] = TRUE]
        /\ IF answers[u] = <<>> THEN answers' = answers
                                ELSE answers' = [answers EXCEPT ![u] = Tail(answers[u])]
    BY <1>6 DEF ReadFifo, Dead, history
  <2>2. CASE u = w
    <3>1. \/ answers[w] # <<>> /\ answers'[w] = Tail(answers[w])
          \/ answers[w] = <<>> /\ answers'[w] = <<>> /\ wPc[w] = "dead"
      BY <2>1, <2>2 DEF FifoTyping
    <3> QED
      BY <1>1, <2>1, <3>1, Read DEF workers
  <2>3. CASE u # w
    <3>1. answers'[w] = answers[w] /\ finished'[w] = finished[w]
      BY <2>1, <2>3 DEF FifoTyping, JobExecutorTyping
    <3> QED
      BY <1>1, <2>1, <3>1, NotConcerned DEF Waiting, workers
  <2> QED
    BY <2>2, <2>3
<1>7. ASSUME NEW u \in Workers, Crash(u) PROVE OneCommand(w)'
  <2>1. UNCHANGED <<command, finished, restarted, jePc, misled>>
    BY <1>7 DEF Crash, query
  <2>2. CASE u = w
    BY <1>1, <1>7, <2>1, <2>2, OneCommandAtCrash
  <2>3. CASE u # w
    BY <1>1, <1>7, <2>1, <2>3, OthersUntouched, NotConcerned DEF Waiting
  <2> QED
    BY <2>2, <2>3
<1>8. ASSUME NEW u \in Workers, Restart(u) PROVE OneCommand(w)'
  <2>1. /\ misled' = IF jePc = "send" THEN misled \cup {u} ELSE misled \ {u}
        /\ \E later \in BOOLEAN : restarted' = [restarted EXCEPT ![u] = later]
        /\ UNCHANGED <<command, finished>>
    BY <1>8 DEF Restart
  <2>2. CASE u = w
    <3>1. jePc # "send"
      BY <2>1, <2>2
    <3> QED
      BY <1>8, <2>2, <3>1, OneCommandAtRestart
  <2>3. CASE u # w
    <3>1. OneCommand(w) /\ restarted'[w] = restarted[w]
      BY <2>1, <2>3 DEF InStep, JobExecutorTyping
    <3>2. /\ jePc' \in {"input", "send"} => jePc' = jePc
      BY <1>8 DEF Restart, Interrupt
    <3> QED
      BY <1>8, <2>1, <2>3, <3>1, <3>2, OthersUntouched, NotConcerned DEF Waiting
  <2> QED
    BY <2>2, <2>3
<1>9. CASE Alarm
  <2>1. UNCHANGED <<query, workers, fifos, history>> /\ (jePc' \in {"input", "send"} => jePc' = jePc)
    BY <1>9 DEF Alarm, Interrupt
  <2> QED
    BY <1>1, <2>1, NotConcerned DEF Waiting, query, workers, fifos, history
<1>10. CASE PlainMoves
  <2>1. /\ UNCHANGED <<counted, workers, fifos, history>> /\ jePc' # "send"
        /\ jePc' = "input" => remaining = 0
    BY <1>10, PlainMovesLeaveRest
  <2>2. remaining = 0 => finished[w]
    <3>1. remaining = 0 => Unfinished = {}
      BY Sizes, FS_EmptySet DEF Counts
    <3> QED
      BY <3>1 DEF Unfinished
  <2> QED
    BY <1>1, <2>1, <2>2, NotConcerned DEF Waiting, counted, workers, fifos, history
<1>11. ASSUME NEW u \in Workers, WorkerStep(u) \/ Deliver(u) \/ CheckParent(u)
       PROVE  OneCommand(w)'
  <2>1. UNCHANGED je
    BY <1>11, WorkerMovesLeaveJobExecutor DEF WorkerMoves
  <2>2. OneCommand(w)
    BY <1>1, <2>1 DEF je, history
  <2>3. CASE u = w
    BY <1>11, <2>2, <2>3, OneCommandInWorker
  <2>4. CASE u # w
    BY <1>11, <2>1, <2>2, <2>4, OthersUntouched, NotConcerned DEF Waiting, je, query
  <2> QED
    BY <2>3, <2>4
<1>12. CASE UNCHANGED vars
  BY <1>1, <1>12, NotConcerned DEF Waiting, vars, je, query, workers, fifos, history
<1> QED
  BY <1>2, <1>3, <1>4, <1>5, <1>6, <1>7, <1>8, <1>9, <1>10, <1>11, <1>12, StepCases
     DEF WorkerMoves

-----------------------------------------------------------------------------
(* The deadline *)

(* A worker with which nothing new happens is not in more of a hurry. *)
LEMMA NotHurried ==
  ASSUME NEW w \in Workers, ~ Hurried(w), wTimedout'[w] => wTimedout[w],
         "USR2" \in pending'[w] => "USR2" \in pending[w],
         \A i \in DOMAIN answers'[w] :
           (answers'[w][i]).kind = "too late" =>
             \E j \in DOMAIN answers[w] : answers'[w][i] = answers[w][j]
  PROVE  ~ Hurried(w)'
BY DEF Hurried

LEMMA TailElements ==
  ASSUME NEW S, NEW q \in Seq(S), q # <<>>
  PROVE  \A i \in DOMAIN Tail(q) : \E j \in DOMAIN q : Tail(q)[i] = q[j]
<1> SUFFICES ASSUME NEW i \in DOMAIN Tail(q) PROVE \E j \in DOMAIN q : Tail(q)[i] = q[j]
  OBVIOUS
<1>1. i + 1 \in DOMAIN q /\ Tail(q)[i] = q[i + 1]
  OBVIOUS
<1> QED
  BY <1>1

LEMMA QuietStep ==
  ASSUME WorkerTyping, FifoTyping, [Next]_vars, ~ Deadline,
         \A w \in Workers : ~ Hurried(w), NEW w \in Workers
  PROVE  ~ Hurried(w)'
<1>1. /\ wTimedout[w] = FALSE /\ "USR2" \notin pending[w]
      /\ \A i \in DOMAIN answers[w] : answers[w][i].kind # "too late"
  BY DEF Hurried, WorkerTyping
<1>2. ASSUME NEW d \in BOOLEAN, Notify(d) PROVE ~ Hurried(w)'
  <2>1. UNCHANGED <<answers, wTimedout>> /\ "USR2" \notin pending'[w]
    BY <1>1, <1>2 DEF Notify, flags, fifos
  <2> QED
    BY <2>1, NotHurried
<1>3. CASE Send \/ IgnoreRestarted \/ Alarm \/ PlainMoves \/ UNCHANGED vars
  <2>1. UNCHANGED <<answers, wTimedout, pending>>
    BY <1>3, PlainMovesLeaveRest DEF Send, IgnoreRestarted, Alarm, vars, workers, flags, fifos
  <2> QED
    BY <2>1, NotHurried
<1>4. ASSUME NEW u \in Workers, ReadFifo(u) PROVE ~ Hurried(w)'
  <2>1. /\ UNCHANGED <<wTimedout, pending>>
        /\ \/ answers'[w] = answers[w]
           \/ answers[w] # <<>> /\ answers'[w] = Tail(answers[w])
    <3>1. /\ \/ answers' = answers
             \/ answers[u] # <<>> /\ answers' = [answers EXCEPT ![u] = Tail(answers[u])]
          /\ UNCHANGED workers
      BY <1>4 DEF ReadFifo
    <3> QED
      BY <3>1 DEF workers, flags, FifoTyping
  <2>2. CASE answers'[w] = answers[w]
    BY <2>1, <2>2, NotHurried
  <2>3. CASE answers[w] # <<>> /\ answers'[w] = Tail(answers[w])
    <3>1. answers[w] \in Seq(Reply)
      BY DEF FifoTyping
    <3>2. \A i \in DOMAIN answers'[w] : \E j \in DOMAIN answers[w] : answers'[w][i] = answers[w][j]
      BY <2>3, <3>1, TailElements
    <3> QED
      BY <2>1, <3>2, NotHurried
  <2> QED
    BY <2>1, <2>2, <2>3
<1>5. ASSUME NEW u \in Workers,
             \/ Crash(u) \/ ReceiveDirectories(u) \/ SeeCommand(u) \/ SeeNothing(u) \/ Pause(u)
             \/ ReadCommand(u) \/ ForgetDeadline(u) \/ Done(u) \/ CheckParent(u)
      PROVE  ~ Hurried(w)'
  <2>1. /\ answers' = answers /\ (wTimedout'[w] => wTimedout[w])
        /\ pending'[w] \in {pending[w], {}}
    BY <1>5 DEF Crash, ReceiveDirectories, SeeCommand, SeeNothing, Pause, ReadCommand,
       ForgetDeadline, Done, CheckParent, WorkerTyping, flags, fifos
  <2> QED
    BY <2>1, NotHurried
<1>6. ASSUME NEW u \in Workers, Restart(u) PROVE ~ Hurried(w)'
  <2>1. /\ wTimedout'[w] => wTimedout[w]
        /\ pending'[w] \in {pending[w], {}}
        /\ answers'[w] \in {answers[w], <<>>}
    BY <1>6 DEF Restart, WorkerTyping, FifoTyping
  <2>2. DOMAIN <<>> = {}
    OBVIOUS
  <2>3. \A i \in DOMAIN answers'[w] : answers'[w][i] = answers[w][i] /\ i \in DOMAIN answers[w]
    BY <2>1, <2>2
  <2> QED
    BY <2>1, <2>3, NotHurried
<1>7. ASSUME NEW u \in Workers, Deliver(u) PROVE ~ Hurried(w)'
  <2>1. /\ answers' = answers /\ pending'[w] \in {pending[w], {}}
        /\ wTimedout'[w] => wTimedout[w] \/ "USR2" \in pending[w]
    BY <1>7 DEF Deliver, WorkerTyping, fifos
  <2> QED
    BY <1>1, <2>1, NotHurried
<1>8. ASSUME NEW u \in Workers, Answer(u) PROVE ~ Hurried(w)'
  <2>1. UNCHANGED <<wTimedout, pending>>
    BY <1>8 DEF Answer, flags
  <2>2. CASE u # w
    <3>1. answers'[w] = answers[w]
      BY <1>8, <2>2 DEF Answer, FifoTyping
    <3> QED
      BY <2>1, <3>1, NotHurried
  <2>3. CASE u = w
    <3>1. PICK r \in Reply : answers'[w] = Append(answers[w], r) /\ r.kind # "too late"
      <4>1. job[w].command.id \in 0..MaxCommands
        BY DEF WorkerTyping, Command
      <4> DEFINE k == IF ~job[w].found THEN "nothing" ELSE "results"
                 r == [id |-> job[w].command.id, kind |-> k]
      <4>2. answers'[w] = Append(answers[w], r)
        BY <1>1, <1>8, <2>3 DEF Answer, FifoTyping
      <4>3. r \in Reply /\ r.kind # "too late"
        BY <4>1 DEF Reply, Kind
      <4> HIDE DEF r
      <4> QED
        BY <4>2, <4>3
    <3>2. \A i \in DOMAIN answers'[w] : \/ i \in DOMAIN answers[w] /\ answers'[w][i] = answers[w][i]
                                       \/ answers'[w][i] = r
      <4>1. answers[w] \in Seq(Reply)
        BY DEF FifoTyping
      <4>2. \A i \in DOMAIN Append(answers[w], r) :
              \/ i \in DOMAIN answers[w] /\ Append(answers[w], r)[i] = answers[w][i]
              \/ Append(answers[w], r)[i] = r
        BY <4>1, AppendFacts
      <4> QED
        BY <3>1, <4>2
    <3> QED
      BY <2>1, <3>1, <3>2, NotHurried
  <2> QED
    BY <2>2, <2>3
<1> QED
  BY <1>2, <1>3, <1>4, <1>5, <1>6, <1>7, <1>8, StepCases DEF WorkerMoves, WorkerStep

LEMMA NumberIsNatural ==
  ASSUME JobExecutorTyping
  PROVE  command.id \in Nat
BY JobExecutorAssumption DEF JobExecutorTyping, Command

LEMMA SomeBelow ==
  ASSUME NEW n \in Nat, NEW S, S \subseteq 1..n, S # {}
  PROVE  \E k \in S : k <= n
<1>1. PICK k \in S : TRUE
  OBVIOUS
<1>2. k \in 1..n
  BY <1>1
<1>3. k <= n
  BY <1>2
<1> QED
  BY <1>3

LEMMA LatenessStep ==
  ASSUME JobExecutorTyping, WorkerTyping, FifoTyping, Numbered, Lateness, [Next]_vars
  PROVE  Lateness'
<1>1. late \subseteq late' /\ late' \subseteq 1..command'.id
  <2>1. command.id \in Nat /\ late \subseteq 1..command.id
    BY JobExecutorAssumption DEF JobExecutorTyping, Command, Lateness
  <2> DEFINE n == command.id
             m == command'.id
             Goal == late \subseteq late' /\ late' \subseteq 1..m
  <2>2. ASSUME NEW d \in BOOLEAN, Notify(d) PROVE Goal
    <3>1. late' = late /\ m = n + 1
      BY <2>2 DEF Notify, history
    <3> HIDE DEF n, m
    <3>2. n \in Nat /\ late \subseteq 1..n
      BY <2>1 DEF n
    <3> QED
      BY <3>1, <3>2
  <2>3. ASSUME Deadline PROVE Goal
    <3>1. late' = late \cup {n} /\ m = n /\ n > 0
      BY <2>3 DEF Deadline, Numbered
    <3> HIDE DEF n, m
    <3>2. n \in Nat /\ late \subseteq 1..n
      BY <2>1 DEF n
    <3> QED
      BY <3>1, <3>2
  <2>4. ASSUME \/ Send \/ IgnoreRestarted \/ Alarm \/ PlainMoves \/ UNCHANGED vars
               \/ WorkerMoves \/ \E w \in Workers : ReadFifo(w) \/ Crash(w) \/ Restart(w)
        PROVE  Goal
    <3>1. late' = late /\ command' = command
      BY <2>4, PlainMovesLeaveRest, WorkerMovesLeaveJobExecutor
         DEF Send, IgnoreRestarted, Alarm, ReadFifo, Crash, Restart, query, counted, vars, je,
             history
    <3> QED
      BY <2>1, <3>1
  <2> QED
    BY <2>2, <2>3, <2>4, StepCases
<1>2. ASSUME NEW w \in Workers, Hurried(w)' PROVE late' # {}
  <2>1. CASE Deadline
    BY <2>1 DEF Deadline
  <2>2. CASE ~ Deadline
    <3>1. \E u \in Workers : Hurried(u)
      BY <1>2, <2>2, QuietStep
    <3> QED
      BY <1>1, <3>1 DEF Lateness
  <2> QED
    BY <2>1, <2>2
<1> QED
  BY <1>1, <1>2 DEF Lateness

LEMMA ClockworkStep ==
  ASSUME JobExecutorTyping, Clockwork, [Next]_vars
  PROVE  Clockwork'
<1>1. ASSUME UNCHANGED <<clock, command, sentResults, jePc>> PROVE Clockwork'
  BY <1>1 DEF Clockwork, clock
<1>2. ASSUME NEW d \in BOOLEAN, Notify(d) PROVE Clockwork'
  BY <1>2 DEF Notify, Clockwork, clock
<1>3. CASE Send
  BY <1>3 DEF Send, Clockwork, query, JobExecutorTyping, Command
<1>4. CASE Deadline
  BY <1>4 DEF Deadline, Clockwork
<1>5. CASE IgnoreRestarted \/ \E w \in Workers : ReadFifo(w)
  <2>1. /\ UNCHANGED <<clock, command, sentResults>>
        /\ jePc \in {"tested", "reading"} /\ jePc' \in {"loop", "reading"}
    BY <1>5 DEF IgnoreRestarted, ReadFifo
  <2> QED
    BY <2>1 DEF Clockwork, clock
<1>6. CASE Alarm \/ \E w \in Workers : Restart(w)
  <2>1. /\ UNCHANGED <<command, sentResults>>
        /\ \/ UNCHANGED clock
           \/ alarm /\ ~alarm' /\ timedout'
    BY <1>6 DEF Alarm, Restart, query
  <2>2. jePc \in {"input", "send"} \/ jePc' \in {"input", "send"} => jePc' = jePc
    BY <1>6 DEF Alarm, Restart, Interrupt
  <2> QED
    BY <2>1, <2>2 DEF Clockwork, clock
<1>7. CASE \E w \in Workers : Crash(w)
  BY <1>1, <1>7 DEF Crash, query
<1>8. CASE PlainMoves
  <2>1. CASE Finish
    BY <2>1 DEF Finish, Clockwork, query, clock
  <2>2. CASE /\ jePc' \in {"loop", "entering", "select", "tested", "reading", "ended"}
             /\ UNCHANGED <<command, sentResults, clock>>
    BY <2>2 DEF Clockwork, clock
  <2> QED
    BY <1>8, <2>1, <2>2
       DEF PlainMoves, SendFails, EnterSelect, Block, PassFirstTest, FallThrough, SelectReturns,
           Exit, Terminate, query
<1>9. CASE WorkerMoves \/ UNCHANGED vars
  BY <1>1, <1>9, WorkerMovesLeaveJobExecutor DEF vars, je, query
<1> QED
  BY <1>2, <1>3, <1>4, <1>5, <1>6, <1>7, <1>8, <1>9, StepCases

-----------------------------------------------------------------------------

LEMMA InvInit ==
  ASSUME Init
  PROVE  Inv
<1>1. Directories \in Command /\ <<Directories>> \in Seq(Command)
  BY JobExecutorAssumption DEF Directories, Command
<1>2. JobExecutorTyping
  <2>1. Directories \in Command
    BY <1>1
  <2>2. 0 \in 0..MaxCrashes
    BY JobExecutorAssumption
  <2> QED
    BY <2>1, <2>2 DEF Init, JobExecutorTyping
<1>3. WorkerTyping
  BY <1>1 DEF Init, WorkerTyping, NoJob
<1>4. FifoTyping
  BY <1>1, SequenceTypes DEF Init, FifoTyping
<1>5. Numbered
  BY DEF Init, Numbered
<1>6. Counts
  <2>1. Unfinished = {}
    BY DEF Init, Unfinished
  <2> QED
    BY <2>1, FS_EmptySet DEF Init, Counts
<1>7. Selected
  BY DEF Init, Selected
<1>8. InStep
  <2>1. \A a, b, c : <<a, b>> # <<c>>
    OBVIOUS
  <2> QED
    BY <2>1 DEF Init, InStep, OneCommand, Told, Untold
<1>9. Lateness
  <2>1. DOMAIN <<>> = {}
    OBVIOUS
  <2> QED
    BY <2>1 DEF Init, Lateness, Hurried
<1>10. Clockwork
  BY DEF Init, Clockwork
<1> QED
  BY <1>2, <1>3, <1>4, <1>5, <1>6, <1>7, <1>8, <1>9, <1>10 DEF Inv

(* The inductive invariant of the Job Executor and its workers. *)
THEOREM Invariance == Spec => []Inv
<1>1. Inv /\ [Next]_vars => Inv'
  BY JobExecutorTypingStep, WorkerTypingStep, FifoTypingStep, NumberedStep, CountsStep,
     SelectedStep, InStepStep, LatenessStep, ClockworkStep DEF Inv
<1> QED
  BY <1>1, InvInit, PTL DEF Spec

(* Type correctness; the counters never become negative. *)
THEOREM TypeCorrect == Spec => []TypeOK
<1>1. Inv => TypeOK
  <2> SUFFICES ASSUME Inv PROVE TypeOK
    OBVIOUS
  <2>1. remaining \in Nat /\ active \in Nat
    BY Sizes DEF Inv, Counts, JobExecutorTyping
  <2> QED
    BY <2>1 DEF Inv, JobExecutorTyping, WorkerTyping, FifoTyping, Command, Reply, Kind, TypeOK
<1> QED
  BY <1>1, Invariance, PTL

(* The counters of a command agree, whichever way a worker is given up, so *)
(* every answer that is printed and freed has been stored.                 *)
THEOREM CountersAgree == Spec => []EveryActiveStored
<1>1. Inv => EveryActiveStored
  BY DEF Inv, Counts, EveryActiveStored
<1> QED
  BY <1>1, Invariance, PTL

(* A worker that got its command after its signal answers that command and *)
(* no other.                                                               *)
THEOREM AnswersAreCurrent == Spec => []AnswersCurrent
<1>1. Inv => AnswersCurrent
  <2> SUFFICES ASSUME Inv, NEW w \in Workers \ misled, NEW i \in DOMAIN answers[w]
               PROVE  answers[w][i].id = command.id /\ ~finished[w]
    BY DEF AnswersCurrent
  <2>1. OneCommand(w) /\ answers[w] \in Seq(Reply)
    BY DEF Inv, InStep, FifoTyping
  <2>2. answers[w] # <<>>
    BY <2>1
  <2>3. i = 1
    BY <2>1, <2>2, TailOfOne DEF OneCommand
  <2> QED
    BY <2>1, <2>2, <2>3 DEF OneCommand, Waiting
<1> QED
  BY <1>1, Invariance, PTL

(* Between two commands nothing of the last one is left in the FIFOs. *)
THEOREM NothingIsLeft == Spec => []NoLeftovers
<1>1. Inv => NoLeftovers
  BY DEF Inv, InStep, OneCommand, Waiting, Untold, NoLeftovers
<1> QED
  BY <1>1, Invariance, PTL

(* A worker drops what it found only when some deadline has passed. *)
THEOREM DroppedOnlyLate == Spec => []DroppedOnlyAfterDeadline
<1>1. Inv /\ AnswersCurrent => DroppedOnlyAfterDeadline
  <2> SUFFICES ASSUME Inv, AnswersCurrent, NEW w \in Workers \ misled, NEW i \in DOMAIN answers[w],
                      answers[w][i].kind = "too late"
               PROVE  \E k \in late : k <= answers[w][i].id
    BY DEF DroppedOnlyAfterDeadline
  <2> DEFINE n == command.id
  <2>1. late # {} /\ late \subseteq 1..n
    BY DEF Inv, Lateness, Hurried
  <2>2. n \in Nat
    BY NumberIsNatural DEF Inv
  <2>3. answers[w][i].id = n
    BY DEF AnswersCurrent
  <2> HIDE DEF n
  <2>4. \E k \in late : k <= n
    BY <2>1, <2>2, SomeBelow
  <2> QED
    BY <2>3, <2>4
<1> QED
  BY <1>1, Invariance, AnswersAreCurrent, PTL

-----------------------------------------------------------------------------
(* The commands as module Query promises them *)

(* What Query shows of the Job Executor and its workers. *)
Seen == <<Phase, command, Unfinished, Replies, stored, timedout, sentResults, Lost, misled>>

LEMMA UnseenStutters ==
  ASSUME UNCHANGED Seen
  PROVE  UNCHANGED QuerySpec!vars
BY DEF Seen, QuerySpec!vars

LEMMA WhatIsSeen ==
  /\ UNCHANGED finished => UNCHANGED Unfinished
  /\ UNCHANGED <<answers, misled>> => UNCHANGED Replies
  /\ UNCHANGED wPc => UNCHANGED Dead
  /\ UNCHANGED <<Dead, restarted>> => UNCHANGED Lost
  /\ UNCHANGED jePc => UNCHANGED Phase
BY DEF Unfinished, Replies, Dead, Lost, Phase, Over

(* The places of a command that Query does not tell apart. *)
Gathering == {"loop", "entering", "select", "interrupted", "tested", "reading"}

LEMMA PhaseFacts ==
  /\ jePc \in Gathering => Phase = "gathering"
  /\ jePc' \in Gathering => Phase' = "gathering"
  /\ jePc = "input" => Phase = "idle"
  /\ jePc' = "input" => Phase' = "idle"
  /\ jePc = "send" => Phase = "asked"
  /\ jePc' = "send" => Phase' = "asked"
  /\ jePc \in {"ended", "undefined"} => Phase = "over"
  /\ jePc' \in {"ended", "undefined"} => Phase' = "over"
BY DEF Gathering, Phase, Over

(* What is in the FIFO of a worker is its answer to this command. *)
LEMMA ReplyFacts ==
  ASSUME Inv, NEW w \in Workers
  PROVE  /\ w \in misled => Replies[w] = 0
         /\ answers[w] = <<>> => Replies[w] = 0
         /\ w \notin misled /\ answers[w] # <<>> => /\ Replies[w] = command.id
                                                 /\ Waiting(w) /\ Tail(answers[w]) = <<>>
<1>1. w \notin misled => OneCommand(w)
  BY DEF Inv, InStep
<1>2. answers[w] \in Seq(Reply)
  BY DEF Inv, FifoTyping
<1>3. w \notin misled /\ answers[w] # <<>> =>
        Waiting(w) /\ Len(answers[w]) = 1 /\ answers[w][1].id = command.id
  BY <1>1 DEF OneCommand
<1>4. w \notin misled /\ answers[w] # <<>> => Tail(answers[w]) = <<>>
  BY <1>2, <1>3, TailOfOne
<1> QED
  BY <1>3, <1>4 DEF Replies

(* Answers are read: the workers that were heard have none any more. *)
LEMMA RepliesRead ==
  ASSUME Inv, NEW S \in SUBSET Workers, misled' = misled,
         \A w \in Workers : answers'[w] = IF w \in S THEN Tail(answers[w]) ELSE answers[w],
         \A w \in S : answers[w] # <<>>
  PROVE  Replies' = [w \in Workers |-> IF w \in S THEN 0 ELSE Replies[w]]
<1>1. ASSUME NEW w \in Workers
      PROVE  (IF w \in misled \/ answers'[w] = <<>> THEN 0 ELSE answers'[w][1].id)
               = (IF w \in S THEN 0 ELSE Replies[w])
  <2>1. CASE w \in S
    <3>1. w \in misled \/ answers'[w] = <<>>
      BY <2>1, ReplyFacts
    <3> QED
      BY <2>1, <3>1
  <2>2. CASE w \notin S
    <3>1. answers'[w] = answers[w]
      BY <2>2
    <3> QED
      BY <2>2, <3>1 DEF Replies
  <2> QED
    BY <2>1, <2>2
<1> QED
  BY <1>1 DEF Replies

(* Some workers are heard, others given up. *)
LEMMA GatherHolds ==
  ASSUME NEW A \in SUBSET Workers, NEW G \in SUBSET Workers,
         jePc \in Gathering, jePc' \in Gathering,
         A \subseteq Unfinished, G \subseteq Unfinished \ A, G \subseteq Lost,
         \A w \in A \ misled : Replies[w] = command.id,
         \A w \in G \ misled : Replies[w] = 0,
         Unfinished' = Unfinished \ (A \cup G),
         Replies' = [w \in Workers |-> IF w \in A THEN 0 ELSE Replies[w]],
         stored' = stored + Cardinality(A),
         UNCHANGED <<command, restarted, wPc, timedout, sentResults, misled>>
  PROVE  QuerySpec!Gather(A, G)
<1>1. G \subseteq (Unfinished \cap Lost) \ A
  OBVIOUS
<1>2. Phase = "gathering" /\ Phase' = Phase /\ Lost' = Lost
  BY PhaseFacts, WhatIsSeen
<1>3. UNCHANGED <<Phase, command.id, command.deadline, timedout \/ sentResults, sentResults,
                  Lost, misled>>
  BY <1>2
<1>4. QuerySpec!Cardinality(A) = Cardinality(A)
  BY Zenon DEF QuerySpec!Cardinality, Cardinality
<1> QED
  BY <1>1, <1>2, <1>3, <1>4 DEF QuerySpec!Gather

LEMMA AskSimulation ==
  ASSUME Inv, NEW d \in BOOLEAN, Notify(d)
  PROVE  QuerySpec!Ask(d)
<1>1. /\ jePc = "input" /\ jePc' = "send"
      /\ command' = [id |-> command.id + 1, deadline |-> d]
      /\ finished' = [w \in Workers |-> FALSE] /\ restarted' = [w \in Workers |-> FALSE]
      /\ stored' = 0 /\ sentResults' = FALSE
      /\ UNCHANGED <<timedout, wPc, answers, misled>>
  BY DEF Notify, clock, fifos, history
<1>2. ASSUME NEW w \in Workers PROVE Replies[w] = 0
  BY <1>1, <1>2, ReplyFacts DEF Waiting
<1>3. Unfinished' = Workers
  BY <1>1 DEF Unfinished
<1>4. Lost' \subseteq Lost
  BY <1>1 DEF Lost, Dead
<1>5. Phase = "idle" /\ Phase' = "asked" /\ UNCHANGED Replies
  BY <1>1, PhaseFacts, WhatIsSeen
<1>6. (timedout \/ sentResults)' = FALSE
  BY <1>1 DEF Inv, Clockwork
<1> QED
  BY <1>1, <1>2, <1>3, <1>4, <1>5, <1>6 DEF QuerySpec!Ask

LEMMA ReportSimulation ==
  ASSUME Inv, Deadline
  PROVE  QuerySpec!Report
<1>1. /\ jePc \in {"loop", "interrupted"} /\ jePc' = "loop"
      /\ remaining > 0 /\ timedout /\ sentResults' = TRUE
      /\ UNCHANGED <<command, finished, restarted, stored, wPc, answers, misled>>
  BY DEF Deadline, fifos
<1>2. sentResults = FALSE
  BY <1>1 DEF Inv, Clockwork, JobExecutorTyping
<1>3. Unfinished # {}
  BY <1>1, FS_EmptySet DEF Inv, Counts
<1>4. Phase = "gathering" /\ Phase' = "gathering" /\ UNCHANGED <<Unfinished, Replies, Lost>>
  BY <1>1, PhaseFacts, WhatIsSeen DEF Gathering
<1>5. UNCHANGED (timedout \/ sentResults)
  BY <1>1
<1> QED
  BY <1>1, <1>2, <1>3, <1>4, <1>5 DEF QuerySpec!Report

(* The workers that were started again are given up. *)
LEMMA IgnoreSimulation ==
  ASSUME Inv, IgnoreRestarted
  PROVE  \E gone \in SUBSET Workers : QuerySpec!Gather({}, gone)
<1> DEFINE T == {w \in Unfinished : restarted[w]}
<1>1. /\ jePc = "tested" /\ jePc' = "loop"
      /\ finished' = [w \in Workers |-> finished[w] \/ w \in T]
      /\ UNCHANGED <<command, restarted, stored, timedout, sentResults, wPc, answers, misled>>
  BY DEF IgnoreRestarted, clock, workers, fifos, history
<1>2. T \in SUBSET Workers /\ T \subseteq Unfinished
  BY DEF Unfinished
<1>3. T \subseteq Lost
  BY DEF Lost, Unfinished
<1>4. \A w \in T \ misled : Replies[w] = 0
  BY <1>2, ReplyFacts DEF Waiting
<1> HIDE DEF T
<1>5. Unfinished' = Unfinished \ T
  BY <1>1 DEF Unfinished
<1>6. Replies' = [w \in Workers |-> IF w \in {} THEN 0 ELSE Replies[w]]
  BY <1>1 DEF Replies
<1>7. stored' = stored + Cardinality({})
  BY <1>1, FS_EmptySet DEF Inv, JobExecutorTyping
<1>8. QuerySpec!Gather({}, T)
  BY <1>1, <1>2, <1>3, <1>4, <1>5, <1>6, <1>7, GatherHolds DEF Gathering
<1> QED
  BY <1>2, <1>8

(* A worker with an answer is heard, a dead one without is given up. *)
LEMMA ReadSimulation ==
  ASSUME Inv, NEW w \in Workers, ReadFifo(w)
  PROVE  \E answered, gone \in SUBSET Workers : QuerySpec!Gather(answered, gone)
<1>1. /\ jePc = "reading" /\ jePc' \in {"loop", "reading"}
      /\ finished' = [finished EXCEPT ![w] = TRUE]
      /\ w \in Unfinished /\ (answers[w] # <<>> \/ w \in Dead)
      /\ UNCHANGED <<command, restarted, timedout, sentResults, wPc, misled>>
  BY DEF ReadFifo, Inv, Selected, clock, workers, history
<1>2. Unfinished' = Unfinished \ {w}
  BY <1>1 DEF Unfinished, Inv, JobExecutorTyping
<1>3. jePc \in Gathering /\ jePc' \in Gathering /\ {w} \in SUBSET Workers
  BY <1>1 DEF Gathering
<1>4. stored \in Nat /\ Cardinality({}) = 0 /\ Cardinality({w}) = 1
  BY FS_EmptySet, FS_Singleton DEF Inv, JobExecutorTyping
<1>5. CASE answers[w] = <<>>
  <2>1. stored' = stored /\ answers' = answers
    BY <1>5 DEF ReadFifo
  <2>2. w \in Lost /\ Replies[w] = 0
    BY <1>1, <1>5, ReplyFacts DEF Lost
  <2>3. Replies' = [u \in Workers |-> IF u \in {} THEN 0 ELSE Replies[u]]
    BY <1>1, <2>1, RepliesRead
  <2>4. QuerySpec!Gather({}, {w})
    BY <1>1, <1>2, <1>3, <1>4, <2>1, <2>2, <2>3, GatherHolds
  <2> QED
    BY <2>4
<1>6. CASE answers[w] # <<>>
  <2>1. stored' = stored + 1 /\ answers' = [answers EXCEPT ![w] = Tail(answers[w])]
    BY <1>6 DEF ReadFifo
  <2>2. \A u \in Workers : answers'[u] = IF u \in {w} THEN Tail(answers[u]) ELSE answers[u]
    BY <2>1 DEF Inv, FifoTyping
  <2>3. Replies' = [u \in Workers |-> IF u \in {w} THEN 0 ELSE Replies[u]]
    BY <1>1, <1>6, <2>2, RepliesRead
  <2>4. w \notin misled => Replies[w] = command.id
    BY <1>6, ReplyFacts
  <2>5. QuerySpec!Gather({w}, {})
    BY <1>1, <1>2, <1>3, <1>4, <2>1, <2>3, <2>4, GatherHolds
  <2> QED
    BY <2>5
<1> QED
  BY <1>5, <1>6

LEMMA ReplySimulation ==
  ASSUME Inv, NEW w \in Workers, Answer(w)
  PROVE  QuerySpec!Reply(w) \/ UNCHANGED QuerySpec!vars
<1>1. /\ wPc[w] = "answer"
      /\ UNCHANGED <<jePc, command, finished, restarted, stored, timedout, sentResults, misled>>
      /\ \E k : answers' = [answers EXCEPT ![w] =
                              Append(answers[w], [id |-> job[w].command.id, kind |-> k])]
  BY DEF Answer, je, query, clock, history
<1>2. UNCHANGED Dead
  BY DEF Answer, Goto, Dead, Inv, WorkerTyping
<1>3. UNCHANGED <<Phase, Unfinished, Lost>>
  BY <1>1, <1>2, WhatIsSeen
<1>4. \A u \in Workers : u # w => answers'[u] = answers[u]
  BY <1>1 DEF Inv, FifoTyping
<1>5. CASE w \in misled
  <2>1. \A u \in Workers : u \in misled \/ answers'[u] = answers[u]
    BY <1>4, <1>5
  <2>2. UNCHANGED Replies
    BY <1>1, <2>1 DEF Replies
  <2> QED
    BY <1>1, <1>3, <2>2, UnseenStutters DEF Seen
<1>6. CASE w \notin misled
  <2>1. Waiting(w) /\ answers[w] = <<>> /\ job[w].command = command
    BY <1>1, <1>6 DEF Inv, InStep, OneCommand
  <2>2. answers'[w] # <<>> /\ answers'[w][1].id = command.id
    <3>1. PICK k : answers'[w] = Append(<<>>, [id |-> command.id, kind |-> k])
      BY <1>1, <2>1 DEF Inv, FifoTyping
    <3>2. \A r : Append(<<>>, r) # <<>> /\ Append(<<>>, r)[1] = r
      OBVIOUS
    <3> QED
      BY <3>1, <3>2
  <2>3. Replies[w] = 0
    BY <2>1, ReplyFacts
  <2>4. Replies' = [Replies EXCEPT ![w] = command.id]
    <3>1. ASSUME NEW u \in Workers
          PROVE  (IF u \in misled \/ answers'[u] = <<>> THEN 0 ELSE answers'[u][1].id)
                   = (IF u = w THEN command.id ELSE Replies[u])
      <4>1. CASE u = w
        BY <1>6, <2>2, <4>1
      <4>2. CASE u # w
        BY <1>4, <4>2 DEF Replies
      <4> QED
        BY <4>1, <4>2
    <3>2. Replies' = [u \in Workers |-> IF u = w THEN command.id ELSE Replies[u]]
      BY <1>1, <3>1 DEF Replies
    <3> QED
      BY <3>2 DEF Replies
  <2>5. Phase \in {"gathering", "over"} /\ w \in Unfinished
    BY <2>1 DEF Waiting, Phase, Unfinished
  <2>6. QuerySpec!Reply(w)
    BY <1>1, <1>3, <1>6, <2>3, <2>4, <2>5 DEF QuerySpec!Reply
  <2> QED
    BY <2>6
<1> QED
  BY <1>5, <1>6

LEMMA LoseSimulation ==
  ASSUME Inv, NEW w \in Workers, Crash(w)
  PROVE  QuerySpec!Lose(w)
<1>1. /\ wPc' = [wPc EXCEPT ![w] = "dead"]
      /\ UNCHANGED <<jePc, command, finished, restarted, stored, timedout, sentResults, answers,
                     misled>>
  BY DEF Crash, Goto, query, clock
<1>2. Dead' = Dead \cup {w}
  BY <1>1 DEF Dead, Inv, WorkerTyping
<1>3. Lost' = Lost \cup {w}
  BY <1>1, <1>2 DEF Lost
<1>4. UNCHANGED <<Phase, Unfinished, Replies>>
  BY <1>1, WhatIsSeen
<1> QED
  BY <1>1, <1>3, <1>4 DEF QuerySpec!Lose

LEMMA ReplaceSimulation ==
  ASSUME Inv, NEW w \in Workers, Restart(w)
  PROVE  QuerySpec!Replace(w)
<1>1. /\ w \in Dead /\ jePc \notin {"ended", "undefined"}
      /\ wPc' = [wPc EXCEPT ![w] = "directories"]
      /\ answers' = [answers EXCEPT ![w] = <<>>]
      /\ misled' = IF jePc = "send" THEN misled \cup {w} ELSE misled \ {w}
      /\ UNCHANGED <<command, finished, stored, timedout, sentResults>>
  BY DEF Restart, Goto, Over, clock
<1>2. PICK later \in BOOLEAN : restarted' = [restarted EXCEPT ![w] = later]
  BY DEF Restart
<1>3. Lost' \in {Lost, Lost \ {w}}
  <2>1. Dead' = Dead \ {w}
    BY <1>1 DEF Dead, Inv, WorkerTyping
  <2>2. {u \in Workers : restarted'[u]} \in
          {{u \in Workers : restarted[u]} \cup {w}, {u \in Workers : restarted[u]} \ {w}}
    <3>1. CASE later
      BY <1>2, <3>1 DEF Inv, JobExecutorTyping
    <3>2. CASE ~later
      BY <1>2, <3>2 DEF Inv, JobExecutorTyping
    <3> QED
      BY <3>1, <3>2
  <2> QED
    BY <1>1, <2>1, <2>2 DEF Lost
<1>4. Replies' = [Replies EXCEPT ![w] = 0]
  <2>1. ASSUME NEW u \in Workers
        PROVE  (IF u \in misled' \/ answers'[u] = <<>> THEN 0 ELSE answers'[u][1].id)
                 = (IF u = w THEN 0 ELSE Replies[u])
    <3>1. CASE u = w
      BY <1>1, <3>1 DEF Inv, FifoTyping
    <3>2. CASE u # w
      <4>1. answers'[u] = answers[u] /\ (u \in misled' <=> u \in misled)
        BY <1>1, <3>2 DEF Inv, FifoTyping
      <4> QED
        BY <3>2, <4>1 DEF Replies
    <3> QED
      BY <3>1, <3>2
  <2>2. Replies' = [u \in Workers |-> IF u = w THEN 0 ELSE Replies[u]]
    BY <2>1 DEF Replies
  <2> QED
    BY <2>2 DEF Replies
<1>5. /\ Phase # "over"
      /\ UNCHANGED Phase \/ (Phase = "gathering" /\ Phase' = "over")
      /\ Phase = "asked" <=> jePc = "send"
  <2>1. jePc' = jePc \/ (jePc \in Gathering /\ jePc' \in Gathering \cup {"undefined"})
    BY DEF Restart, Interrupt, Gathering
  <2>2. jePc \in Gathering \cup {"input", "send"}
    BY <1>1 DEF Inv, JobExecutorTyping, Gathering
  <2> QED
    BY <2>1, <2>2, PhaseFacts, WhatIsSeen DEF Gathering
<1>6. UNCHANGED Unfinished /\ w \in Lost
  BY <1>1, WhatIsSeen DEF Lost
<1> QED
  BY <1>1, <1>3, <1>4, <1>5, <1>6 DEF QuerySpec!Replace

LEMMA PlainSimulation ==
  ASSUME Inv, PlainMoves
  PROVE  QuerySpec!Stop \/ QuerySpec!End \/ UNCHANGED QuerySpec!vars
<1>1. UNCHANGED <<command, finished, restarted, stored, sentResults, wPc, answers, misled>>
  BY PlainMovesLeaveRest DEF counted, workers, fifos, history
<1>2. UNCHANGED <<Unfinished, Replies, Lost>>
  BY <1>1, WhatIsSeen
<1>3. CASE Finish
  <2>1. /\ jePc = "loop" /\ jePc' = "input" /\ remaining = 0
        /\ IF sentResults \/ ~command.deadline THEN UNCHANGED clock
                                               ELSE timedout' = FALSE
    BY <1>3 DEF Finish
  <2>2. Unfinished = {}
    BY <2>1, Sizes, FS_EmptySet DEF Inv, Counts
  <2>3. Phase = "gathering" /\ Phase' = "idle"
    BY <2>1, PhaseFacts DEF Gathering
  <2>4. timedout' = FALSE
    BY <2>1 DEF Inv, Clockwork, JobExecutorTyping, clock
  <2>5. (timedout \/ sentResults)' = sentResults
    BY <1>1, <2>4 DEF Inv, JobExecutorTyping
  <2> QED
    BY <1>1, <1>2, <2>2, <2>3, <2>5 DEF QuerySpec!End
<1>4. CASE EnterSelect \/ Block \/ PassFirstTest \/ FallThrough \/ SelectReturns
  <2>1. jePc \in Gathering /\ jePc' \in Gathering /\ timedout' = timedout
    BY <1>4 DEF EnterSelect, Block, PassFirstTest, FallThrough, SelectReturns, Gathering, clock
  <2>2. UNCHANGED Phase
    BY <2>1, PhaseFacts
  <2> QED
    BY <1>1, <1>2, <2>1, <2>2, UnseenStutters DEF Seen
<1>5. CASE SendFails \/ Exit \/ Terminate
  <2>1. jePc' = "ended" /\ jePc \notin {"ended", "undefined"} /\ timedout' = timedout
    BY <1>5 DEF SendFails, Exit, Terminate, Over, clock
  <2>2. jePc \in Gathering \cup {"input", "send"}
    BY <2>1 DEF Inv, JobExecutorTyping, Gathering
  <2>3. Phase # "over" /\ Phase' = "over"
    BY <2>1, <2>2, PhaseFacts
  <2> QED
    BY <1>1, <1>2, <2>1, <2>3 DEF QuerySpec!Stop
<1> QED
  BY <1>3, <1>4, <1>5 DEF PlainMoves

LEMMA PassSimulation ==
  ASSUME Inv, Alarm
  PROVE  QuerySpec!Pass
<1>1. /\ alarm /\ jePc \notin {"ended", "undefined"} /\ timedout' = TRUE
      /\ UNCHANGED <<command, finished, restarted, stored, sentResults, wPc, answers, misled>>
  BY DEF Alarm, Over, query, workers, fifos, history
<1>2. /\ command.deadline /\ jePc \notin {"input", "send"}
      /\ (timedout \/ sentResults) = FALSE /\ (timedout \/ sentResults)' = TRUE
  BY <1>1 DEF Inv, Clockwork
<1>3. jePc \in Gathering /\ jePc' \in Gathering \cup {"undefined"}
  <2>1. jePc \in Gathering
    BY <1>1, <1>2 DEF Inv, JobExecutorTyping, Gathering
  <2> QED
    BY <2>1 DEF Alarm, Interrupt, Gathering
<1>4. Phase = "gathering" /\ Phase' \in {"gathering", "over"}
  BY <1>3, PhaseFacts
<1>5. UNCHANGED <<Unfinished, Replies, Lost>>
  BY <1>1, WhatIsSeen
<1> QED
  BY <1>1, <1>2, <1>4, <1>5 DEF QuerySpec!Pass

(* Every step is one that Query allows, or is not seen by it. *)
LEMMA StepSimulation ==
  ASSUME Inv, [Next]_vars
  PROVE  [QuerySpec!Next]_(QuerySpec!vars)
<1>1. ASSUME NEW d \in BOOLEAN, Notify(d) PROVE QuerySpec!Next
  BY <1>1, AskSimulation DEF QuerySpec!Next
<1>2. CASE Send
  <2>1. /\ jePc = "send" /\ jePc' = "loop"
        /\ UNCHANGED <<command, finished, restarted, stored, timedout, sentResults, wPc, answers,
                       misled>>
    BY <1>2 DEF Send, query, workers, history
  <2>2. Phase = "asked" /\ Phase' = "gathering" /\ UNCHANGED <<Unfinished, Replies, Lost>>
    BY <2>1, PhaseFacts, WhatIsSeen DEF Gathering
  <2>3. QuerySpec!Put
    BY <2>1, <2>2 DEF QuerySpec!Put
  <2> QED
    BY <2>3 DEF QuerySpec!Next
<1>3. CASE Deadline
  BY <1>3, ReportSimulation DEF QuerySpec!Next
<1>4. CASE IgnoreRestarted \/ \E w \in Workers : ReadFifo(w)
  <2>1. \E answered, gone \in SUBSET Workers : QuerySpec!Gather(answered, gone)
    BY <1>4, IgnoreSimulation, ReadSimulation
  <2> QED
    BY <2>1 DEF QuerySpec!Next
<1>5. ASSUME NEW w \in Workers, Crash(w) \/ Restart(w) PROVE QuerySpec!Next
  BY <1>5, LoseSimulation, ReplaceSimulation DEF QuerySpec!Next
<1>6. CASE PlainMoves \/ Alarm
  BY <1>6, PlainSimulation, PassSimulation DEF QuerySpec!Next
<1>7. ASSUME NEW w \in Workers, Answer(w) PROVE [QuerySpec!Next]_(QuerySpec!vars)
  BY <1>7, ReplySimulation DEF QuerySpec!Next
<1>8. ASSUME NEW w \in Workers, WorkerStep(w) \/ Deliver(w) \/ CheckParent(w), ~ Answer(w)
      PROVE  UNCHANGED QuerySpec!vars
  <2>1. UNCHANGED je
    BY <1>8, WorkerMovesLeaveJobExecutor DEF WorkerMoves
  <2>2. UNCHANGED <<answers, Dead>>
    <3>1. CASE Deliver(w)
      <4>1. /\ w \notin Dead /\ answers' = answers
            /\ \E l : l # "dead" /\ wPc' = [wPc EXCEPT ![w] = l]
        BY <3>1 DEF Deliver, Goto, Dead, fifos
      <4> QED
        BY <4>1 DEF Dead, Inv, WorkerTyping
    <3>2. CASE WorkerStep(w) \/ CheckParent(w)
      BY <1>8, <3>2 DEF WorkerStep, ReceiveDirectories, SeeCommand, SeeNothing, Pause, ReadCommand,
         ForgetDeadline, Done, CheckParent, Goto, Dead, Inv, WorkerTyping, fifos
    <3> QED
      BY <1>8, <3>1, <3>2
  <2>3. UNCHANGED <<Phase, Unfinished, Replies, Lost>>
    BY <2>1, <2>2, WhatIsSeen DEF je, query, history
  <2> QED
    BY <2>1, <2>3, UnseenStutters DEF Seen, je, query, clock, history
<1>9. CASE UNCHANGED vars
  <2>1. UNCHANGED <<Phase, Unfinished, Replies, Lost>>
    BY <1>9, WhatIsSeen DEF vars, je, query, history, workers, fifos
  <2> QED
    BY <1>9, <2>1, UnseenStutters DEF Seen, vars, je, query, clock, history
<1> QED
  BY <1>1, <1>2, <1>3, <1>4, <1>5, <1>6, <1>7, <1>8, <1>9, StepCases DEF WorkerMoves

LEMMA InitSimulation ==
  ASSUME Init
  PROVE  QuerySpec!Init
<1>1. Phase = "idle" /\ Unfinished = {} /\ Lost = {}
  BY DEF Init, Phase, Unfinished, Lost, Dead
<1>2. Replies = [w \in Workers |-> 0]
  BY DEF Init, Replies
<1> QED
  BY <1>1, <1>2 DEF Init, QuerySpec!Init, Directories

(* A command ends when every worker was heard once, with its answer to it, *)
(* or given up; what workers, signals and deadlines do in between is seen  *)
(* in no other way.                                                        *)
THEOREM QueriesKept == Spec => QueryPromise
<1>1. Inv /\ [Next]_vars => [QuerySpec!Next]_(QuerySpec!vars)
  BY StepSimulation
<1>2. Init => QuerySpec!Init
  BY InitSimulation
<1> QED
  BY <1>1, <1>2, Invariance, PTL DEF Spec, QueryPromise, QuerySpec!Spec

=============================================================================
