-------------------------------- MODULE Index ---------------------------------
(***************************************************************************)
(* What the workers of the Job Executor compute: each reads the files of   *)
(* its directories (getFilesInDir of worker.c, readTextfile of textfile.c) *)
(* into a trie (trie.c) and a list of files, and answers a command from    *)
(* them (recvCommand); the Job Executor puts the answers together in the   *)
(* order in which they come (commandMaxMin, commandWC, commandSearch of    *)
(* jobExecutor.c).  Signals and FIFOs are in module JobExecutor, the       *)
(* division of the directories in module Corpus.                           *)
(*                                                                         *)
(* A path is a number, in the order of strcmp.  The trie is the function   *)
(* from words to the postings at their last character, <<>> for NULL.  A   *)
(* word is what is left between blanks when the tags are gone; bytes,      *)
(* which are summed up like words, are left out.                           *)
(***************************************************************************)
EXTENDS Naturals, SequencesExt

CONSTANTS
  Workers,
  Given,      \* Given[w]: the directories sent to w, in order
  Files,      \* Files[d]: the paths of the entries of directory d
  Contents,   \* Contents[f]: what the file f may contain
  Words,      \* the words that occur in texts and commands
  Commands    \* the commands that may be given

(* A text is [lines, flaw]: the words of each line that a new-line ends,   *)
(* and whether something follows the last new-line ("tail"), or a tag is   *)
(* not closed on its line ("open tag").                                    *)
CONSTANT Directory   \* the content of an entry that is a directory

Paths == UNION {Files[d] : d \in DOMAIN Files}

Texts == [lines : Seq(Seq(Words)), flaw : {"none", "tail", "open tag"}]

(* No directory is given twice: ListedOnce of module PageStore and         *)
(* GivenOnce of module Corpus.                                             *)
ASSUME IndexAssumption ==
  /\ Paths \subseteq Nat /\ IsFiniteSet(Paths) /\ Paths \subseteq DOMAIN Contents
  /\ Directory \notin Texts
  /\ \A f \in Paths : Contents[f] \subseteq Texts \cup {Directory}
  /\ \A d, e \in DOMAIN Files : d # e => Files[d] \cap Files[e] = {}
  /\ Given \in [Workers -> Seq(DOMAIN Files)]
  /\ \A w \in Workers : \A i, j \in DOMAIN Given[w] : Given[w][i] = Given[w][j] => i = j
  /\ \A v, w \in Workers : v # w => Range(Given[v]) \cap Range(Given[w]) = {}
  /\ \A c \in Commands :
       /\ c.kind \in {"search", "maxcount", "mincount", "wc"}
       /\ c.kind = "search" => c.keywords \in Seq(Words)
       /\ c.kind \in {"maxcount", "mincount"} => c.word \in Words

VARIABLES
  content,     \* what each file contains
  \* of each worker
  pc,          \* where it is
  todo,        \* the directories that it has not opened
  entries,     \* what readdir has still to return of the open directory
  trie,
  fileList,    \* g_fileList, as paths
  total,       \* totalWords, totalLines
  temp,        \* tempWords, tempLines of the open directory
  gaveUp,      \* history: the directories it could not read
  \* of the Job Executor
  command,     \* the command given
  unfinished,  \* the workers it still waits for
  collected,   \* history: the workers whose answer it used
  best,        \* currValue and currFilename of commandMaxMin, a value of 0 before the first
  sum,         \* of commandWC
  found        \* the results of each worker for commandSearch

worker == <<pc, todo, entries, trie, fileList, total, temp, gaveUp>>
result == <<unfinished, collected, best, sum, found>>
vars   == <<content, worker, command, result>>

None == [words |-> 0, lines |-> 0]
NoBest == [value |-> 0, file |-> 0]
Plus(s, t) == [words |-> s.words + t.words, lines |-> s.lines + t.lines]

Init ==
  /\ content \in {c \in [Paths -> UNION {Contents[f] : f \in Paths}] :
                    \A f \in Paths : c[f] \in Contents[f]}
  /\ pc = [w \in Workers |-> "next"]
  /\ todo = Given
  /\ entries = [w \in Workers |-> {}]
  /\ trie = [w \in Workers |-> [a \in Words |-> <<>>]]
  /\ fileList = [w \in Workers |-> <<>>]
  /\ total = [w \in Workers |-> None] /\ temp = [w \in Workers |-> None]
  /\ gaveUp = [w \in Workers |-> {}]
  /\ command \in Commands
  /\ unfinished = Workers /\ collected = {}
  /\ best = NoBest
  /\ sum = None
  /\ found = [w \in Workers |-> <<>>]

-----------------------------------------------------------------------------
(* The sorted lists of trie.c and worker.c *)

(* Fault: the head of the list is not compared. *)
WalkFromTheHead(keys, key) ==
  CHOOSE k \in 0..Len(keys) :
    /\ k = 0 => keys = <<>>
    /\ \A i \in 2..k : keys[i] < key
    /\ k \in 1..(Len(keys) - 1) => keys[k + 1] >= key

(* How many nodes are passed on the way to the place of key. *)
Walk(keys, key) ==
  CHOOSE k \in 0..Len(keys) :
    /\ \A i \in 1..k : keys[i] < key
    /\ k < Len(keys) => keys[k + 1] >= key

AddLine(lines, n) ==
  LET k == Walk(lines, n)
  IN IF k < Len(lines) /\ lines[k + 1] = n THEN lines ELSE InsertAt(lines, k + 1, n)

PathsOf(list) == [i \in DOMAIN list |-> list[i].path]

(* A word is counted each time it occurs in a file, its line once. *)
UpdatePostings(list, path, n) ==
  LET k == Walk(PathsOf(list), path)
  IN IF k < Len(list) /\ list[k + 1].path = path
     THEN [list EXCEPT ![k + 1] = [path |-> path, frequency |-> @.frequency + 1,
                                   lines |-> AddLine(@.lines, n)]]
     ELSE InsertAt(list, k + 1, [path |-> path, frequency |-> 1, lines |-> <<n>>])

AddFileNode(list, path) == InsertAt(list, Walk(list, path) + 1, path)

-----------------------------------------------------------------------------
(* Reading the directories *)

Goto(w, l) == pc' = [pc EXCEPT ![w] = l]

OpenDir(w) ==
  /\ pc[w] = "next" /\ todo[w] # <<>>
  /\ entries' = [entries EXCEPT ![w] = Files[Head(todo[w])]]
  /\ temp' = [temp EXCEPT ![w] = None]
  /\ Goto(w, "reading")
  /\ UNCHANGED <<content, todo, trie, fileList, total, gaveUp, command, result>>

OpenDirFails(w) ==
  /\ pc[w] = "next" /\ todo[w] # <<>>
  /\ gaveUp' = [gaveUp EXCEPT ![w] = @ \cup {Head(todo[w])}]
  /\ todo' = [todo EXCEPT ![w] = Tail(@)]
  /\ UNCHANGED <<content, pc, entries, trie, fileList, total, temp, command, result>>

(* The words of a text with their lines, in the order of reading. *)
Occurrences(lines) ==
  FlattenSeq([n \in DOMAIN lines |->
                [i \in DOMAIN lines[n] |-> [word |-> lines[n][i], line |-> n]]])

Insert(t, path, lines) ==
  LET read == Occurrences(lines)
      after[n \in 0..Len(read)] ==
        IF n = 0 THEN t
        ELSE [after[n - 1] EXCEPT ![read[n].word] = UpdatePostings(@, path, read[n].line)]
  IN after[Len(read)]

ReadFile(w, f) ==
  /\ pc[w] = "reading" /\ f \in entries[w]
  /\ content[f] # Directory /\ content[f].lines # <<>> /\ content[f].flaw = "none"
  /\ entries' = [entries EXCEPT ![w] = @ \ {f}]
  /\ trie' = [trie EXCEPT ![w] = Insert(@, f, content[f].lines)]
  /\ fileList' = [fileList EXCEPT ![w] = AddFileNode(@, f)]
  /\ temp' = [temp EXCEPT ![w] =
                Plus(@, [words |-> Len(Occurrences(content[f].lines)),
                         lines |-> Len(content[f].lines)])]
  /\ UNCHANGED <<content, pc, todo, total, gaveUp, command, result>>

(* A file without a new-line counts as one that cannot be read, and with   *)
(* it its directory.  What was read of the directory stays in the trie.    *)
ReadFileFails(w, f) ==
  /\ pc[w] = "reading" /\ f \in entries[w]
  /\ content[f] # Directory /\ content[f].lines = <<>>
  /\ gaveUp' = [gaveUp EXCEPT ![w] = @ \cup {Head(todo[w])}]
  /\ todo' = [todo EXCEPT ![w] = Tail(@)]
  /\ Goto(w, "next")
  /\ UNCHANGED <<content, entries, trie, fileList, total, temp, command, result>>

(* The lines are counted by their new-lines and read by getline: one more  *)
(* is written behind the array.                                            *)
ReadTail(w, f) ==
  /\ pc[w] = "reading" /\ f \in entries[w]
  /\ content[f] # Directory /\ content[f].lines # <<>> /\ content[f].flaw = "tail"
  /\ Goto(w, "undefined")
  /\ UNCHANGED <<content, todo, entries, trie, fileList, total, temp, gaveUp, command, result>>

(* The search for the end of the tag goes past the end of the line, and    *)
(* what is in memory there is taken for text.                              *)
ReadOpenTag(w, f) ==
  /\ pc[w] = "reading" /\ f \in entries[w]
  /\ content[f] # Directory /\ content[f].lines # <<>> /\ content[f].flaw = "open tag"
  /\ Goto(w, "undefined")
  /\ UNCHANGED <<content, todo, entries, trie, fileList, total, temp, gaveUp, command, result>>

(* A directory can be opened like a file, but fgetc never sets feof on it: *)
(* countLines does not return.                                             *)
ReadDirectory(w, f) ==
  /\ pc[w] = "reading" /\ f \in entries[w] /\ content[f] = Directory
  /\ Goto(w, "spinning")
  /\ UNCHANGED <<content, todo, entries, trie, fileList, total, temp, gaveUp, command, result>>

CloseDir(w) ==
  /\ pc[w] = "reading" /\ entries[w] = {}
  /\ total' = [total EXCEPT ![w] = Plus(@, temp[w])]
  /\ todo' = [todo EXCEPT ![w] = Tail(@)]
  /\ Goto(w, "next")
  /\ UNCHANGED <<content, entries, trie, fileList, temp, gaveUp, command, result>>

AllRead(w) ==
  /\ pc[w] = "next" /\ todo[w] = <<>>
  /\ Goto(w, "ready")
  /\ UNCHANGED <<content, todo, entries, trie, fileList, total, temp, gaveUp, command, result>>

-----------------------------------------------------------------------------
(* The answers *)

(* mergePostingsLists: the places of each keyword, one after the other. *)
Places(list) ==
  FlattenSeq([i \in DOMAIN list |->
    [n \in DOMAIN list[i].lines |-> [path |-> list[i].path, line |-> list[i].lines[n]]]])

Merge(t, keywords) ==
  LET places == FlattenSeq([k \in DOMAIN keywords |-> Places(t[keywords[k]])])
      merged[n \in 0..Len(places)] ==
        IF n = 0 THEN <<>>
        ELSE UpdatePostings(merged[n - 1], places[n].path, places[n].line)
  IN merged[Len(places)]

(* Every file whose words are in the trie is in the list of files when a   *)
(* command is answered; the code has NULL for one that is not.             *)
FileContents(w, f) ==
  IF f \in Range(fileList[w]) THEN content[f].lines ELSE [n \in Nat |-> <<"NULL">>]

(* The results that are sent: file, line and what is on the line.          *)
SearchAnswer(w, keywords) ==
  LET places == Places(Merge(trie[w], keywords))
  IN [n \in DOMAIN places |->
        [file |-> places[n].path, line |-> places[n].line,
         text |-> FileContents(w, places[n].path)[places[n].line]]]

Better(kind, value, file, than) ==
  \/ IF kind = "maxcount" THEN value > than.value ELSE value < than.value
  \/ value = than.value /\ file < than.file

(* getMaxMinCount: of the postings of a word, starting with the head. *)
WorkerBest(w, kind, word) ==
  LET postings == trie[w][word]
      node(i) == [value |-> postings[i].frequency, file |-> postings[i].path]
      upTo[i \in 0..Len(postings)] ==
        IF i = 0 THEN NoBest
        ELSE LET b == upTo[i - 1]
             IN IF i = 1 \/ Better(kind, node(i).value, node(i).file, b) THEN node(i) ELSE b
  IN upTo[Len(postings)]

Answered(w) ==
  /\ unfinished' = unfinished \ {w}
  /\ collected' = collected \cup {w}

Search(w) ==
  /\ command.kind = "search" /\ w \in unfinished /\ pc[w] = "ready"
  /\ found' = [found EXCEPT ![w] = SearchAnswer(w, command.keywords)]
  /\ Answered(w)
  /\ UNCHANGED <<content, worker, command, best, sum>>

(* Fault: of equal counts the answer that came first stays. *)
MaxMinFirst(w) ==
  /\ command.kind \in {"maxcount", "mincount"} /\ w \in unfinished /\ pc[w] = "ready"
  /\ LET b == WorkerBest(w, command.kind, command.word)
     IN best' = IF b.value > 0 /\ (\/ best.value = 0
                                   \/ Better(command.kind, b.value, best.file, best))
                THEN b ELSE best
  /\ Answered(w)
  /\ UNCHANGED <<content, worker, command, sum, found>>

MaxMin(w) ==
  /\ command.kind \in {"maxcount", "mincount"} /\ w \in unfinished /\ pc[w] = "ready"
  /\ LET b == WorkerBest(w, command.kind, command.word)
     IN best' = IF b.value > 0 /\ (\/ best.value = 0
                                   \/ Better(command.kind, b.value, b.file, best))
                THEN b ELSE best
  /\ Answered(w)
  /\ UNCHANGED <<content, worker, command, sum, found>>

WC(w) ==
  /\ command.kind = "wc" /\ w \in unfinished /\ pc[w] = "ready"
  /\ sum' = Plus(sum, total[w])
  /\ Answered(w)
  /\ UNCHANGED <<content, worker, command, best, found>>

(* A worker that died before it answered is left out.  A search that comes *)
(* after the deadline (module JobExecutor) is answered with nothing, which *)
(* is counted as an answer and adds nothing either.                        *)
Ignore(w) ==
  /\ w \in unfinished
  /\ unfinished' = unfinished \ {w}
  /\ UNCHANGED <<content, worker, command, collected, best, sum, found>>

Terminated == unfinished = {} /\ UNCHANGED vars

Next ==
  \/ \E w \in Workers :
       \/ OpenDir(w) \/ OpenDirFails(w) \/ CloseDir(w) \/ AllRead(w)
       \/ \E f \in Paths :
            \/ ReadFile(w, f) \/ ReadFileFails(w, f)
            \/ ReadTail(w, f) \/ ReadOpenTag(w, f) \/ ReadDirectory(w, f)
       \/ Search(w) \/ MaxMin(w) \/ WC(w) \/ Ignore(w)
  \/ Terminated

Spec == Init /\ [][Next]_vars
-----------------------------------------------------------------------------
(* Properties *)

WholeDirs(w) == Range(Given[w]) \ gaveUp[w]
WholeFiles(w) == UNION {Files[d] : d \in WholeDirs(w)}

Before(r, s) == r.file < s.file \/ (r.file = s.file /\ r.line < s.line)

(* The answer of a worker to a search: every line with one of the keywords *)
(* of every file that it has read, each once even if several keywords are  *)
(* on it, sorted by file and line whatever the order of readdir and of the *)
(* keywords was, with the text of that line.  Nothing is missing from a    *)
(* directory that was read to its end.                                     *)
Hits(f, keywords) ==
  {[file |-> f, line |-> n, text |-> content[f].lines[n]] :
     n \in {m \in DOMAIN content[f].lines : Range(content[f].lines[m]) \cap keywords # {}}}

SearchExact ==
  command.kind = "search" => \A w \in collected :
    /\ \A i, j \in DOMAIN found[w] : i < j => Before(found[w][i], found[w][j])
    /\ WholeFiles(w) \subseteq Range(fileList[w])
    /\ Range(found[w]) = UNION {Hits(f, Range(command.keywords)) : f \in Range(fileList[w])}

(* Once all workers have answered or died, maxcount and mincount have      *)
(* found the right one of all files read by those that answered (of equal  *)
(* ones the first by name), in whatever order they answered, and wc has    *)
(* counted the directories that were read to their end, and only those.    *)
Positions(lines) == UNION {{<<n, i>> : i \in DOMAIN lines[n]} : n \in DOMAIN lines}

Count(f, a) ==
  LET lines == content[f].lines
  IN Cardinality({p \in Positions(lines) : lines[p[1]][p[2]] = a})

(* The words and the lines of the files, counted where they stand. *)
Totals(files) ==
  [words |-> Cardinality(UNION {{f} \X Positions(content[f].lines) : f \in files}),
   lines |-> Cardinality(UNION {{f} \X DOMAIN content[f].lines : f \in files})]

FilesWith(a) == {f \in UNION {Range(fileList[w]) : w \in collected} : Count(f, a) > 0}

BestOf(a) ==
  /\ (best.value = 0) <=> (FilesWith(a) = {})
  /\ best.value > 0 => best.file \in FilesWith(a) /\ best.value = Count(best.file, a)
  /\ \A f \in FilesWith(a) :
       /\ IF command.kind = "maxcount" THEN Count(f, a) <= best.value
                                       ELSE Count(f, a) >= best.value
       /\ Count(f, a) = best.value => best.file <= f

CountsExact ==
  unfinished = {} =>
    /\ command.kind \in {"maxcount", "mincount"} => BestOf(command.word)
    /\ command.kind = "wc" => sum = Totals(UNION {WholeFiles(w) : w \in collected})

=============================================================================
