-------------------------------- MODULE Corpus --------------------------------
(***************************************************************************)
(* From the pages that were saved to what each worker of the Job Executor  *)
(* searches: main, createWorkers, splitDirectories and sendDirectories of  *)
(* jobExecutor.c and readDocfile of docfile.c, composed with module        *)
(* PageStore, which writes the docfile.  The Job Executor is started when  *)
(* no page is being saved any more (JobExecutorSeesAll of module Crawler). *)
(*                                                                         *)
(* Workers are counted from 1.  A range is that of the C code: directories *)
(* start up to but not including end, counted from 0.                      *)
(***************************************************************************)
EXTENDS PageStore

CONSTANT MaxWorkers   \* the number of workers asked for with -w

ASSUME CorpusAssumption == MaxWorkers \in Nat \ {0}

VARIABLES
  stage,            \* where the Job Executor is
  directoryList,    \* g_directoryList
  numberOfWorkers,  \* g_numberOfWorkers
  created,          \* the workers with a pid
  range,            \* start and end of each worker for which they were set
  given             \* the directories sent to each worker, as places in directoryList

jobExecutor == <<stage, directoryList, numberOfWorkers, created, range, given>>

CorpusInit ==
  /\ Init
  /\ stage = "waiting"
  /\ directoryList = <<>> /\ numberOfWorkers = 0
  /\ created = {} /\ range = <<>> /\ given = <<>>

NumberOfDirs == Len(directoryList)

(* readDocfile: every line, in order; saveFile writes no empty ones.  No   *)
(* more workers than directories.                                          *)
ReadDocfile ==
  /\ stage = "waiting" /\ AllSaved /\ docfile # <<>>
  /\ directoryList' = docfile
  /\ numberOfWorkers' = IF MaxWorkers > Len(docfile) THEN Len(docfile) ELSE MaxWorkers
  /\ stage' = "creating"
  /\ UNCHANGED <<created, range, given>>

(* No docfile, or nothing in it. *)
NothingToRead ==
  /\ stage = "waiting" /\ AllSaved /\ docfile = <<>>
  /\ stage' = "ended"
  /\ UNCHANGED <<directoryList, numberOfWorkers, created, range, given>>

(* A worker whose FIFOs or whose process cannot be made gets pid -1. *)
CreateWorkers ==
  /\ stage = "creating"
  /\ created' \in SUBSET (1..numberOfWorkers)
  /\ stage' = IF created' = {} THEN "ended" ELSE "splitting"
  /\ UNCHANGED <<directoryList, numberOfWorkers, range, given>>

-----------------------------------------------------------------------------
(* splitDirectories *)

(* Fault: the workers that failed get a share. *)
ShareOfAll == NumberOfDirs \div numberOfWorkers

(* Fault: the share is rounded up. *)
ShareRoundedUp == (NumberOfDirs + Cardinality(created) - 1) \div Cardinality(created)

DirsPerWorker == NumberOfDirs \div Cardinality(created)

(* currDir when the loop comes to worker i. *)
CurrDir(i) == Cardinality({j \in created : j < i}) * DirsPerWorker

Share(i) ==
  [start |-> CurrDir(i),
   end   |-> IF i = numberOfWorkers THEN NumberOfDirs ELSE CurrDir(i) + DirsPerWorker]

(* The loop also ends when currDir reaches the end of the list: what is    *)
(* left keeps an uninitialised range.                                      *)
SplitDirectories ==
  /\ stage = "splitting"
  /\ range' = [i \in {k \in created : CurrDir(k) < NumberOfDirs} |-> Share(i)]
  /\ stage' = "sending"
  /\ UNCHANGED <<directoryList, numberOfWorkers, created, given>>

-----------------------------------------------------------------------------

NextWorker(i) ==
  /\ i \in created \ DOMAIN given
  /\ \A j \in created \ DOMAIN given : i <= j

(* sendDirectories: one message with the names from start to end. *)
SendDirectories(i) ==
  /\ stage = "sending" /\ NextWorker(i) /\ i \in DOMAIN range
  /\ given' = [j \in DOMAIN given \cup {i} |->
                 IF j = i THEN (range[i].start + 1)..range[i].end ELSE given[j]]
  /\ stage' = IF created \subseteq DOMAIN given \cup {i} THEN "ready" ELSE "sending"
  /\ UNCHANGED <<directoryList, numberOfWorkers, created, range>>

(* A FIFO cannot be opened or written, or the range was never set.  The    *)
(* worker is stopped and forgotten, so the handler of SIGCHLD, which looks *)
(* for its pid, restarts the element after the last.                       *)
SendDirectoriesFails(i) ==
  /\ stage = "sending" /\ NextWorker(i)
  /\ stage' = "undefined"
  /\ UNCHANGED <<directoryList, numberOfWorkers, created, range, given>>

CorpusStep ==
  \/ ReadDocfile \/ NothingToRead \/ CreateWorkers \/ SplitDirectories
  \/ \E i \in created : SendDirectories(i) \/ SendDirectoriesFails(i)

CorpusNext ==
  \/ Next /\ UNCHANGED jobExecutor
  \/ CorpusStep /\ UNCHANGED vars

CorpusSpec == CorpusInit /\ [][CorpusNext]_<<vars, jobExecutor>>
-----------------------------------------------------------------------------
(* Properties *)

(* The directories are divided: none is searched by two workers, however   *)
(* many workers could be created, no worker is sent names from beyond the  *)
(* list, and none an empty message, for which it would wait for ever.      *)
GivenOnce ==
  /\ \A i \in DOMAIN given : given[i] # {} /\ given[i] \subseteq DOMAIN directoryList
  /\ \A i, j \in DOMAIN given : i # j => given[i] \cap given[j] = {}
  /\ stage \in {"sending", "ready"} => DOMAIN range = created

(* The directories at the end of the list that nobody gets when the last   *)
(* worker was not created.                                                 *)
Remainder ==
  {k \in DOMAIN directoryList :
     /\ numberOfWorkers \notin created
     /\ k > NumberOfDirs - (NumberOfDirs % Cardinality(created))}

(* "print the files in which they were found": a page that was written is  *)
(* searched by some worker, whichever thread created its directory and     *)
(* whichever workers could be created, unless the docfile could not be     *)
(* written when its directory was due, the directory is in the remainder   *)
(* that a missing last worker leaves, or the page is in save_dir itself,   *)
(* which is never listed.                                                  *)
Searchable ==
  stage = "ready" =>
    \A p \in files :
      \/ Path[p] \in unlisted \cup {<<>>}
      \/ \E k \in DOMAIN directoryList :
           /\ directoryList[k] = Path[p]
           /\ k \in Remainder \cup UNION {given[i] : i \in DOMAIN given}

=============================================================================
