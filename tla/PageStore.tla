------------------------------ MODULE PageStore -------------------------------
(***************************************************************************)
(* saveFile of mycrawler.c: each thread of the pool writes the page it has *)
(* received below the directory save_dir, creates the directories on its   *)
(* path that are missing, and appends each of those to the docfile, from   *)
(* which the Job Executor learns what to search.  Only the docfile has a   *)
(* mutex (it guards a single append, which is the step): whether a         *)
(* directory is there (access) and its creation (mkdir) are two steps.     *)
(*                                                                         *)
(* A directory is the sequence of the names that lead to it.               *)
(***************************************************************************)
EXTENDS Naturals, Sequences, FiniteSets

CONSTANTS
  Threads,   \* the threads of the pool
  Pages,     \* the pages of the site
  Path,      \* Path[p]: the directory of page p; <<>> is save_dir itself
  NoPage     \* a thread that saves nothing

ASSUME PageStoreAssumption ==
  /\ IsFiniteSet(Pages) /\ NoPage \notin Pages
  /\ DOMAIN Path = Pages /\ \A p \in Pages : Path[p] \in Seq(STRING)

VARIABLES
  pc,         \* where each thread is
  page,       \* the page it saves
  depth,      \* the local "i": the directories of its path that are done
  dirs,       \* the directories below save_dir
  docfile,    \* the directories in the docfile, in order
  files,      \* the pages written
  received,   \* the pages that threads took on
  failed,     \* history: the pages whose saving ended with an error of the file system
  unlisted,   \* history: the directories that could not be entered in the docfile
  downloaded  \* pagesDownloaded

vars == <<pc, page, depth, dirs, docfile, files, received, failed, unlisted, downloaded>>

Init ==
  /\ pc = [t \in Threads |-> "idle"]
  /\ page = [t \in Threads |-> NoPage]
  /\ depth = [t \in Threads |-> 0]
  /\ dirs = {}
  /\ docfile = <<>>
  /\ files = {} /\ received = {} /\ failed = {} /\ unlisted = {}
  /\ downloaded = 0

Goto(t, l) == pc' = [pc EXCEPT ![t] = l]

(* fullPath in turn "depth" of the loop. *)
Dir(t) == SubSeq(Path[page[t]], 1, depth[t] + 1)

-----------------------------------------------------------------------------

(* The pool requests no page twice (module Crawler, FetchedOnce). *)
StartPage(t, p) ==
  /\ pc[t] = "idle" /\ p \notin received
  /\ received' = received \cup {p}
  /\ page' = [page EXCEPT ![t] = p]
  /\ depth' = [depth EXCEPT ![t] = 0]
  /\ Goto(t, "access")
  /\ UNCHANGED <<dirs, docfile, files, failed, unlisted, downloaded>>

DirExists(t) ==
  /\ pc[t] = "access" /\ depth[t] < Len(Path[page[t]])
  /\ Dir(t) \in dirs
  /\ depth' = [depth EXCEPT ![t] = @ + 1]
  /\ UNCHANGED <<pc, page, dirs, docfile, files, received, failed, unlisted, downloaded>>

DirIsMissing(t) ==
  /\ pc[t] = "access" /\ depth[t] < Len(Path[page[t]])
  /\ Dir(t) \notin dirs
  /\ Goto(t, "mkdir")
  /\ UNCHANGED <<page, depth, dirs, docfile, files, received, failed, unlisted, downloaded>>

(* Fault: what mkdir returns is not looked at. *)
MakeDirUnchecked(t) ==
  /\ pc[t] = "mkdir"
  /\ dirs' = dirs \cup {Dir(t)}
  /\ Goto(t, "list")
  /\ UNCHANGED <<page, depth, docfile, files, received, failed, unlisted, downloaded>>

MakeDir(t) ==
  /\ pc[t] = "mkdir" /\ Dir(t) \notin dirs
  /\ dirs' = dirs \cup {Dir(t)}
  /\ Goto(t, "list")
  /\ UNCHANGED <<page, depth, docfile, files, received, failed, unlisted, downloaded>>

(* mkdir fails, with EEXIST if another thread was faster: the page is not  *)
(* written, but counted like the others.                                   *)
MakeDirFails(t) ==
  /\ pc[t] = "mkdir"
  /\ failed' = IF Dir(t) \in dirs THEN failed ELSE failed \cup {page[t]}
  /\ Goto(t, "count")
  /\ UNCHANGED <<page, depth, dirs, docfile, files, received, unlisted, downloaded>>

(* Fault: the loop is left at the directory that was created. *)
ListDirAndWrite(t) ==
  /\ pc[t] = "list"
  /\ docfile' = Append(docfile, Dir(t))
  /\ depth' = [depth EXCEPT ![t] = Len(Path[page[t]])]
  /\ Goto(t, "access")
  /\ UNCHANGED <<page, dirs, files, received, failed, unlisted, downloaded>>

(* Fault: the thread that created a directory returns as if it had failed. *)
ListDirAndReturn(t) ==
  /\ pc[t] = "list"
  /\ docfile' = Append(docfile, Dir(t))
  /\ Goto(t, "count")
  /\ UNCHANGED <<page, depth, dirs, files, received, failed, unlisted, downloaded>>

ListDir(t) ==
  /\ pc[t] = "list"
  /\ docfile' = Append(docfile, Dir(t))
  /\ depth' = [depth EXCEPT ![t] = @ + 1]
  /\ Goto(t, "access")
  /\ UNCHANGED <<page, dirs, files, received, failed, unlisted, downloaded>>

(* The docfile cannot be opened: the directory is there, but never listed. *)
ListDirFails(t) ==
  /\ pc[t] = "list"
  /\ failed' = failed \cup {page[t]}
  /\ unlisted' = unlisted \cup {Dir(t)}
  /\ Goto(t, "count")
  /\ UNCHANGED <<page, depth, dirs, docfile, files, received, downloaded>>

(* Fault: the page is counted here and in sendRequest. *)
WritePageCounted(t) ==
  /\ pc[t] = "access" /\ depth[t] = Len(Path[page[t]])
  /\ files' = files \cup {page[t]}
  /\ downloaded' = downloaded + 1
  /\ Goto(t, "count")
  /\ UNCHANGED <<page, depth, dirs, docfile, received, failed, unlisted>>

WritePage(t) ==
  /\ pc[t] = "access" /\ depth[t] = Len(Path[page[t]])
  /\ files' = files \cup {page[t]}
  /\ Goto(t, "count")
  /\ UNCHANGED <<page, depth, dirs, docfile, received, failed, unlisted, downloaded>>

WritePageFails(t) ==
  /\ pc[t] = "access" /\ depth[t] = Len(Path[page[t]])
  /\ failed' = failed \cup {page[t]}
  /\ Goto(t, "count")
  /\ UNCHANGED <<page, depth, dirs, docfile, files, received, unlisted, downloaded>>

(* Back in sendRequest. *)
CountDownload(t) ==
  /\ pc[t] = "count"
  /\ downloaded' = downloaded + 1
  /\ page' = [page EXCEPT ![t] = NoPage]
  /\ Goto(t, "idle")
  /\ UNCHANGED <<depth, dirs, docfile, files, received, failed, unlisted>>

AllSaved == received = Pages /\ \A t \in Threads : pc[t] = "idle"

Terminated == AllSaved /\ UNCHANGED vars

Next ==
  \/ \E t \in Threads :
       \/ \E p \in Pages : StartPage(t, p)
       \/ DirExists(t) \/ DirIsMissing(t) \/ MakeDir(t) \/ MakeDirFails(t)
       \/ ListDir(t) \/ ListDirFails(t) \/ WritePage(t) \/ WritePageFails(t)
       \/ CountDownload(t)
  \/ Terminated

Spec == Init /\ [][Next]_vars
-----------------------------------------------------------------------------
(* Properties *)

Listed == {docfile[i] : i \in DOMAIN docfile}

(* The directory of page p and those above it. *)
DirsOf(p) == {SubSeq(Path[p], 1, i) : i \in 1..Len(Path[p])}

TypeOK ==
  /\ pc \in [Threads -> {"idle", "access", "mkdir", "list", "count"}]
  /\ page \in [Threads -> Pages \cup {NoPage}]
  /\ depth \in [Threads -> Nat]
  /\ \A t \in Threads : page[t] # NoPage => depth[t] <= Len(Path[page[t]])
  /\ dirs \subseteq UNION {DirsOf(p) : p \in Pages}
  /\ Listed \subseteq dirs
  /\ files \in SUBSET Pages /\ received \in SUBSET Pages /\ failed \in SUBSET Pages
  /\ unlisted \subseteq dirs
  /\ downloaded \in 0..Cardinality(Pages)

(* The docfile names a directory once, whoever creates it and however many *)
(* threads find it missing: the Job Executor would count and print its     *)
(* pages twice.                                                            *)
ListedOnce == \A i, j \in DOMAIN docfile : docfile[i] = docfile[j] => i = j

(* A page that was written can be found by the Job Executor: the directory *)
(* it is in and those above it, whichever thread created them, are in the  *)
(* docfile, or about to be, unless the docfile could not be written when   *)
(* that directory was due; it is not listed later.                         *)
WrittenListed ==
  \A p \in files : \A d \in DirsOf(p) :
    d \in Listed \cup unlisted \/ \E t \in Threads : pc[t] = "list" /\ Dir(t) = d

(* "downloading every page": of two threads that find the same directory   *)
(* missing one loses its page (mkdir fails with EEXIST).  But without an   *)
(* error of the file system no directory that the Job Executor is told of  *)
(* stays empty: below it some page was written, however the threads race.  *)
NoDirectoryEmpty ==
  AllSaved => \A d \in Listed : \E p \in files \cup failed : d \in DirsOf(p)

=============================================================================
