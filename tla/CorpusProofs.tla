----------------------------- MODULE CorpusProofs -----------------------------
(***************************************************************************)
(* Proofs about saveFile, for any number of threads and any site, whatever *)
(* calls of the file system fail; and about the division of the docfile    *)
(* among the workers, for any number of workers asked for, whichever of    *)
(* them could be created.                                                  *)
(***************************************************************************)
EXTENDS Corpus, SequenceLemmas, FunctionTheorems, FiniteSetTheorems, TLAPS

AllDirs == UNION {DirsOf(p) : p \in Pages}

(* The first n directories on the path of page p. *)
First(p, n) == {SubSeq(Path[p], 1, i) : i \in 1..n}

-----------------------------------------------------------------------------
(* The inductive invariant, in parts. *)

Typing ==
  /\ pc \in [Threads -> {"idle", "access", "mkdir", "list", "count"}]
  /\ page \in [Threads -> Pages \cup {NoPage}]
  /\ depth \in [Threads -> Nat]
  /\ dirs \subseteq AllDirs /\ docfile \in Seq(AllDirs)
  /\ files \in SUBSET Pages /\ received \in SUBSET Pages /\ failed \in SUBSET Pages
  /\ unlisted \subseteq dirs
  /\ downloaded \in Nat

(* A thread that is not idle has a page of its own, and is somewhere on    *)
(* its path.                                                               *)
OnePage ==
  /\ \A t \in Threads : /\ pc[t] = "idle" <=> page[t] = NoPage
                        /\ page[t] # NoPage => page[t] \in received
                        /\ page[t] # NoPage => depth[t] <= Len(Path[page[t]])
                        /\ pc[t] \in {"mkdir", "list"} => depth[t] < Len(Path[page[t]])
  /\ \A t, u \in Threads : page[t] = page[u] /\ page[t] # NoPage => t = u

(* The pages that were received and are not in the hands of a thread have  *)
(* been counted.                                                           *)
InHand == {page[t] : t \in Threads}
Counted == downloaded = Cardinality(received \ InHand)

(* What a thread has behind it is there; the directory that it is about to *)
(* enter in the docfile is there, not entered, and its alone.              *)
Climbing ==
  /\ \A t \in Threads : pc[t] # "idle" => First(page[t], depth[t]) \subseteq dirs
  /\ \A t \in Threads : pc[t] = "list" => Dir(t) \in dirs \ Listed
  /\ \A t, u \in Threads : pc[t] = "list" /\ pc[u] = "list" /\ Dir(t) = Dir(u) => t = u

Entered ==
  /\ Listed \subseteq dirs
  /\ Distinct(docfile)
  /\ \A p \in files : DirsOf(p) \subseteq dirs
  /\ \A d \in dirs : d \in Listed \cup unlisted \/ \E t \in Threads : pc[t] = "list" /\ Dir(t) = d

(* A directory is on the path of a page that was written, or could not be, *)
(* or that a thread still climbs.                                          *)
Behind(t) ==
  IF pc[t] \in {"access", "mkdir"} THEN First(page[t], depth[t])
  ELSE IF pc[t] = "list" THEN First(page[t], depth[t] + 1) ELSE {}
Occupied(d) ==
  \/ \E p \in files \cup failed : d \in DirsOf(p)
  \/ \E t \in Threads : d \in Behind(t)
NoneEmpty == \A d \in dirs : Occupied(d)

Inv == Typing /\ OnePage /\ Counted /\ Climbing /\ Entered /\ NoneEmpty

-----------------------------------------------------------------------------
(* Paths *)

LEMMA PathIsSequence ==
  ASSUME NEW p \in Pages
  PROVE  /\ Path[p] \in Seq(STRING) /\ Len(Path[p]) \in Nat
         /\ DirsOf(p) = First(p, Len(Path[p]))
BY PageStoreAssumption DEF DirsOf, First

LEMMA DirOnPath ==
  ASSUME NEW p \in Pages, NEW n \in Nat, n < Len(Path[p])
  PROVE  /\ SubSeq(Path[p], 1, n + 1) \in DirsOf(p)
         /\ First(p, n + 1) = First(p, n) \cup {SubSeq(Path[p], 1, n + 1)}
<1>1. Len(Path[p]) \in Nat
  BY PathIsSequence
<1>2. n + 1 \in 1..Len(Path[p]) /\ 1..(n + 1) = (1..n) \cup {n + 1}
  BY <1>1
<1>3. SubSeq(Path[p], 1, n + 1) \in DirsOf(p)
  BY <1>2 DEF DirsOf
<1>4. First(p, n + 1) = First(p, n) \cup {SubSeq(Path[p], 1, n + 1)}
  BY <1>2 DEF First
<1> QED
  BY <1>3, <1>4

(* Two paths that share a directory share those above it. *)
LEMMA SharedAbove ==
  ASSUME NEW p \in Pages, NEW n \in Nat, n < Len(Path[p]),
         NEW q \in Pages, NEW m \in Nat, m <= Len(Path[q]),
         SubSeq(Path[p], 1, n + 1) \in First(q, m)
  PROVE  First(p, n) \subseteq First(q, m)
<1>1. /\ Path[p] \in Seq(STRING) /\ Len(Path[p]) \in Nat
      /\ Path[q] \in Seq(STRING) /\ Len(Path[q]) \in Nat
  BY PathIsSequence
<1>2. PICK i \in 1..m : SubSeq(Path[p], 1, n + 1) = SubSeq(Path[q], 1, i)
  BY DEF First
<1>3. i = n + 1
  <2>1. Len(SubSeq(Path[p], 1, n + 1)) = n + 1
    BY <1>1
  <2>2. Len(SubSeq(Path[q], 1, i)) = i
    BY <1>1
  <2> QED
    BY <1>2, <2>1, <2>2
<1>4. \A j \in 1..(n + 1) : Path[p][j] = Path[q][j]
  <2> SUFFICES ASSUME NEW j \in 1..(n + 1) PROVE Path[p][j] = Path[q][j]
    OBVIOUS
  <2>1. SubSeq(Path[p], 1, n + 1)[j] = Path[p][j]
    BY <1>1
  <2>2. SubSeq(Path[q], 1, i)[j] = Path[q][j]
    BY <1>1, <1>3
  <2> QED
    BY <1>2, <2>1, <2>2
<1>5. ASSUME NEW j \in 1..n PROVE SubSeq(Path[p], 1, j) = SubSeq(Path[q], 1, j)
  <2>1. /\ SubSeq(Path[p], 1, j) \in Seq(STRING) /\ Len(SubSeq(Path[p], 1, j)) = j
        /\ \A k \in 1..j : SubSeq(Path[p], 1, j)[k] = Path[p][k]
    BY <1>1
  <2>2. /\ SubSeq(Path[q], 1, j) \in Seq(STRING) /\ Len(SubSeq(Path[q], 1, j)) = j
        /\ \A k \in 1..j : SubSeq(Path[q], 1, j)[k] = Path[q][k]
    BY <1>1, <1>3
  <2> DEFINE l == SubSeq(Path[p], 1, j)
             r == SubSeq(Path[q], 1, j)
  <2> HIDE DEF l, r
  <2>3. l \in Seq(STRING) /\ r \in Seq(STRING) /\ Len(l) = Len(r) /\ \A k \in 1..Len(l) : l[k] = r[k]
    BY <1>4, <2>1, <2>2 DEF l, r
  <2>4. l = r
    BY <2>3
  <2> QED
    BY <2>4 DEF l, r
<1> QED
  BY <1>3, <1>5 DEF First

(* A thread is never on a directory that is behind it. *)
LEMMA AheadOfItself ==
  ASSUME NEW p \in Pages, NEW n \in Nat, n < Len(Path[p])
  PROVE  SubSeq(Path[p], 1, n + 1) \notin First(p, n)
<1>1. Path[p] \in Seq(STRING) /\ Len(Path[p]) \in Nat
  BY PathIsSequence
<1> SUFFICES ASSUME NEW i \in 1..n, SubSeq(Path[p], 1, n + 1) = SubSeq(Path[p], 1, i) PROVE FALSE
  BY DEF First
<1>2. Len(SubSeq(Path[p], 1, n + 1)) = n + 1
  BY <1>1
<1>3. Len(SubSeq(Path[p], 1, i)) = i
  BY <1>1
<1> QED
  BY <1>2, <1>3

LEMMA NothingBehind ==
  ASSUME NEW p
  PROVE  First(p, 0) = {}
BY DEF First

-----------------------------------------------------------------------------

LEMMA TypingStep ==
  ASSUME Typing, OnePage, Climbing, [Next]_vars
  PROVE  Typing'
<1>1. ASSUME NEW t \in Threads, pc[t] \in {"mkdir", "list"}
      PROVE  page[t] \in Pages /\ Dir(t) \in AllDirs
  <2>1. page[t] \in Pages /\ depth[t] \in Nat /\ depth[t] < Len(Path[page[t]])
    BY <1>1 DEF Typing, OnePage
  <2> QED
    BY <2>1, DirOnPath DEF Dir, AllDirs
<1>2. CASE UNCHANGED vars
  BY <1>2 DEF Typing, vars
<1>3. ASSUME NEW t \in Threads, NEW p \in Pages, StartPage(t, p) PROVE Typing'
  BY <1>3 DEF StartPage, Typing, Goto
<1>4. ASSUME NEW t \in Threads, DirExists(t) \/ DirIsMissing(t) PROVE Typing'
  BY <1>4 DEF DirExists, DirIsMissing, Typing, Goto
<1>5. ASSUME NEW t \in Threads, MakeDir(t) PROVE Typing'
  <2>1. Dir(t) \in AllDirs
    BY <1>1, <1>5 DEF MakeDir
  <2> QED
    BY <1>5, <2>1 DEF MakeDir, Typing, Goto
<1>6. ASSUME NEW t \in Threads, MakeDirFails(t) PROVE Typing'
  <2>1. page[t] \in Pages
    BY <1>1, <1>6 DEF MakeDirFails
  <2> QED
    BY <1>6, <2>1 DEF MakeDirFails, Typing, Goto
<1>7. ASSUME NEW t \in Threads, ListDir(t) PROVE Typing'
  <2>1. Dir(t) \in AllDirs
    BY <1>1, <1>7 DEF ListDir
  <2>2. docfile' \in Seq(AllDirs)
    BY <1>7, <2>1, AppendFacts DEF ListDir, Typing
  <2> QED
    BY <1>7, <2>2 DEF ListDir, Typing, Goto
<1>8. ASSUME NEW t \in Threads, ListDirFails(t) PROVE Typing'
  <2>1. page[t] \in Pages /\ Dir(t) \in dirs
    BY <1>1, <1>8 DEF ListDirFails, Climbing
  <2> QED
    BY <1>8, <2>1 DEF ListDirFails, Typing, Goto
<1>9. ASSUME NEW t \in Threads, WritePage(t) \/ WritePageFails(t) PROVE Typing'
  <2>1. page[t] \in Pages
    BY <1>9 DEF WritePage, WritePageFails, Typing, OnePage
  <2> QED
    BY <1>9, <2>1 DEF WritePage, WritePageFails, Typing, Goto
<1>10. ASSUME NEW t \in Threads, CountDownload(t) PROVE Typing'
  BY <1>10 DEF CountDownload, Typing, Goto
<1> QED
  BY <1>2, <1>3, <1>4, <1>5, <1>6, <1>7, <1>8, <1>9, <1>10
     DEF Next, Terminated

LEMMA OnePageStep ==
  ASSUME Typing, OnePage, [Next]_vars
  PROVE  OnePage'
<1>1. CASE UNCHANGED vars
  BY <1>1 DEF OnePage, vars
<1>2. ASSUME NEW t \in Threads, NEW p \in Pages, StartPage(t, p) PROVE OnePage'
  <2>1. p # NoPage /\ Len(Path[p]) \in Nat /\ \A u \in Threads : page[u] # p
    BY <1>2, PathIsSequence, PageStoreAssumption DEF StartPage, OnePage
  <2> QED
    BY <1>2, <2>1 DEF StartPage, OnePage, Typing, Goto
<1>3. ASSUME NEW t \in Threads, DirExists(t) PROVE OnePage'
  <2>1. page[t] # NoPage /\ page[t] \in Pages
    BY <1>3 DEF DirExists, OnePage, Typing
  <2>2. Len(Path[page[t]]) \in Nat /\ depth[t] \in Nat
    BY <2>1, PathIsSequence DEF Typing
  <2>3. /\ page' = page /\ received' = received /\ pc' = pc /\ pc[t] = "access"
        /\ depth' = [depth EXCEPT ![t] = depth[t] + 1] /\ depth[t] < Len(Path[page[t]])
    BY <1>3 DEF DirExists
  <2> QED
    BY <2>2, <2>3 DEF OnePage, Typing
<1>4. ASSUME NEW t \in Threads, DirIsMissing(t) PROVE OnePage'
  <2>1. /\ page' = page /\ received' = received /\ depth' = depth
        /\ pc' = [pc EXCEPT ![t] = "mkdir"] /\ pc[t] = "access"
        /\ depth[t] < Len(Path[page[t]])
    BY <1>4 DEF DirIsMissing, Goto
  <2> QED
    BY <2>1 DEF OnePage, Typing
<1>5. ASSUME NEW t \in Threads,
             MakeDir(t) \/ MakeDirFails(t) \/ ListDirFails(t) \/ WritePage(t) \/ WritePageFails(t)
      PROVE  OnePage'
  BY <1>5 DEF MakeDir, MakeDirFails, ListDirFails, WritePage, WritePageFails, OnePage,
              Typing, Goto
<1>6. ASSUME NEW t \in Threads, ListDir(t) PROVE OnePage'
  <2>1. page[t] # NoPage /\ page[t] \in Pages
    BY <1>6 DEF ListDir, OnePage, Typing
  <2>2. Len(Path[page[t]]) \in Nat /\ depth[t] \in Nat
    BY <2>1, PathIsSequence DEF Typing
  <2> QED
    BY <1>6, <2>1, <2>2 DEF ListDir, OnePage, Typing, Goto
<1>7. ASSUME NEW t \in Threads, CountDownload(t) PROVE OnePage'
  BY <1>7 DEF CountDownload, OnePage, Typing, Goto
<1> QED
  BY <1>1, <1>2, <1>3, <1>5, <1>6, <1>7, <1>4 DEF Next, Terminated

LEMMA CountedStep ==
  ASSUME Typing, OnePage, Counted, [Next]_vars
  PROVE  Counted'
<1>1. ASSUME received' = received, page' = page, downloaded' = downloaded
      PROVE  Counted'
  BY <1>1 DEF Counted, InHand
<1>2. ASSUME NEW t \in Threads, NEW p \in Pages, StartPage(t, p) PROVE Counted'
  <2>1. page[t] = NoPage /\ NoPage \notin received
    BY <1>2, PageStoreAssumption DEF StartPage, OnePage, Typing
  <2>2. InHand' \cup {NoPage} = InHand \cup {p, NoPage}
    BY <1>2, <2>1 DEF StartPage, InHand, Typing
  <2>3. received' \ InHand' = received \ InHand
    BY <1>2, <2>1, <2>2, PageStoreAssumption DEF StartPage
  <2> QED
    BY <1>2, <2>3 DEF StartPage, Counted
<1>3. ASSUME NEW t \in Threads, CountDownload(t) PROVE Counted'
  <2>1. page[t] # NoPage /\ page[t] \in received /\ NoPage \notin received
    BY <1>3, PageStoreAssumption DEF CountDownload, OnePage, Typing
  <2>2. \A u \in Threads : page'[u] = IF u = t THEN NoPage ELSE page[u]
    BY <1>3 DEF CountDownload, Typing
  <2>3. received' = received /\ page[t] \in InHand
    BY <1>3 DEF CountDownload, InHand
  <2>4. \A x \in received : x \in InHand' <=> x \in InHand /\ x # page[t]
    BY <2>1, <2>2 DEF InHand, OnePage
  <2>5. received' \ InHand' = (received \ InHand) \cup {page[t]}
    BY <2>1, <2>3, <2>4
  <2>6. IsFiniteSet(received \ InHand)
    BY FS_Subset, PageStoreAssumption DEF Typing
  <2>7. Cardinality((received \ InHand) \cup {page[t]}) = Cardinality(received \ InHand) + 1
    BY <2>3, <2>6, FS_AddElement
  <2> QED
    BY <1>3, <2>5, <2>7 DEF CountDownload, Counted
<1> QED
  BY <1>1, <1>2, <1>3 DEF Next, Terminated, vars, DirExists, DirIsMissing, MakeDir, MakeDirFails,
     ListDir, ListDirFails, WritePage, WritePageFails
(* A thread in the loop has a page, and the directory of its turn extends  *)
(* what it has behind it.                                                  *)
LEMMA InLoop ==
  ASSUME Typing, OnePage, NEW t \in Threads, pc[t] # "idle"
  PROVE  /\ page[t] \in Pages /\ depth[t] \in Nat /\ Len(Path[page[t]]) \in Nat
         /\ DirsOf(page[t]) = First(page[t], Len(Path[page[t]]))
         /\ depth[t] < Len(Path[page[t]])
              => /\ First(page[t], depth[t] + 1) = First(page[t], depth[t]) \cup {Dir(t)}
                 /\ Dir(t) \in DirsOf(page[t])
<1>1. page[t] \in Pages /\ depth[t] \in Nat
  BY DEF Typing, OnePage
<1> QED
  BY <1>1, PathIsSequence, DirOnPath DEF Dir

(* What is behind a thread is the beginning of its path. *)
LEMMA BehindIsFirst ==
  ASSUME Typing, OnePage, NEW t \in Threads, Behind(t) # {}
  PROVE  \E m \in Nat : m <= Len(Path[page[t]]) /\ Behind(t) = First(page[t], m)
<1>1. pc[t] # "idle"
  BY DEF Behind
<1>2. depth[t] \in Nat /\ Len(Path[page[t]]) \in Nat /\ page[t] # NoPage
  BY <1>1, InLoop DEF OnePage
<1>3. CASE pc[t] \in {"access", "mkdir"}
  BY <1>2, <1>3 DEF Behind, OnePage
<1>4. CASE pc[t] = "list"
  <2>1. depth[t] + 1 \in Nat /\ depth[t] + 1 <= Len(Path[page[t]])
    BY <1>2, <1>4 DEF OnePage
  <2> QED
    BY <1>4, <2>1 DEF Behind
<1> QED
  BY <1>3, <1>4 DEF Behind

LEMMA BehindOnPath ==
  ASSUME Typing, OnePage, NEW t \in Threads, pc[t] # "idle"
  PROVE  Behind(t) \subseteq DirsOf(page[t])
<1>1. DirsOf(page[t]) = First(page[t], Len(Path[page[t]])) /\ Len(Path[page[t]]) \in Nat
  BY InLoop
<1>2. CASE Behind(t) # {}
  BY <1>1, <1>2, BehindIsFirst DEF First
<1> QED
  BY <1>2

LEMMA ListedGrows ==
  ASSUME Typing, NEW t \in Threads, Dir(t) \in AllDirs, ListDir(t)
  PROVE  Listed' = Listed \cup {Dir(t)}
<1>1. docfile' = Append(docfile, Dir(t)) /\ docfile \in Seq(AllDirs)
  BY DEF Typing, ListDir
<1>2. ASSUME NEW S, NEW q \in Seq(S), NEW e \in S
      PROVE  {Append(q, e)[i] : i \in DOMAIN Append(q, e)} = {q[i] : i \in DOMAIN q} \cup {e}
  BY <1>2, AppendFacts
<1>3. {Append(docfile, Dir(t))[i] : i \in DOMAIN Append(docfile, Dir(t))} = Listed \cup {Dir(t)}
  BY <1>1, <1>2 DEF Listed
<1> QED
  BY <1>1, <1>3 DEF Listed

LEMMA ClimbingStep ==
  ASSUME Typing, OnePage, Climbing, Listed \subseteq dirs, [Next]_vars
  PROVE  Climbing'
<1>1. CASE UNCHANGED vars
  BY <1>1 DEF Climbing, Dir, Listed, vars
<1>2. ASSUME NEW t \in Threads, NEW p \in Pages, StartPage(t, p) PROVE Climbing'
  <2>1. /\ pc'[t] = "access" /\ page'[t] = p /\ depth'[t] = 0
        /\ \A u \in Threads \ {t} : /\ pc'[u] = pc[u] /\ page'[u] = page[u]
                                     /\ depth'[u] = depth[u] /\ Dir(u)' = Dir(u)
        /\ dirs' = dirs /\ Listed' = Listed
    BY <1>2 DEF StartPage, Typing, Goto, Dir, Listed
  <2> QED
    BY <2>1, NothingBehind DEF Climbing
<1>3. ASSUME NEW t \in Threads, DirExists(t) PROVE Climbing'
  <2>1. /\ pc' = pc /\ page' = page /\ pc[t] = "access" /\ depth'[t] = depth[t] + 1
        /\ \A u \in Threads \ {t} : depth'[u] = depth[u] /\ Dir(u)' = Dir(u)
        /\ dirs' = dirs /\ Listed' = Listed
    BY <1>3 DEF DirExists, Typing, Dir, Listed
  <2>2. First(page[t], depth[t] + 1) \subseteq dirs
    BY <1>3, <2>1, InLoop DEF DirExists, Climbing
  <2> QED
    BY <2>1, <2>2 DEF Climbing
<1>4. ASSUME NEW t \in Threads, DirIsMissing(t) \/ MakeDirFails(t) \/ ListDirFails(t)
                                \/ WritePage(t) \/ WritePageFails(t)
      PROVE  Climbing'
  <2>1. /\ pc[t] # "idle" /\ pc'[t] \in {"mkdir", "count"} /\ page' = page /\ depth' = depth
        /\ \A u \in Threads : Dir(u)' = Dir(u)
        /\ \A u \in Threads \ {t} : pc'[u] = pc[u]
        /\ dirs' = dirs /\ Listed' = Listed
    BY <1>4 DEF DirIsMissing, MakeDirFails, ListDirFails, WritePage, WritePageFails,
                Typing, Goto, Dir, Listed
  <2> QED
    BY <2>1 DEF Climbing
<1>5. ASSUME NEW t \in Threads, CountDownload(t) PROVE Climbing'
  <2>1. /\ pc'[t] = "idle"
        /\ \A u \in Threads \ {t} : /\ pc'[u] = pc[u] /\ page'[u] = page[u]
                                     /\ depth'[u] = depth[u] /\ Dir(u)' = Dir(u)
        /\ dirs' = dirs /\ Listed' = Listed
    BY <1>5 DEF CountDownload, Typing, Goto, Dir, Listed
  <2> QED
    BY <2>1 DEF Climbing
<1>6. ASSUME NEW t \in Threads, MakeDir(t) PROVE Climbing'
  <2>1. /\ pc[t] = "mkdir" /\ pc'[t] = "list" /\ page' = page /\ depth' = depth
        /\ \A u \in Threads : Dir(u)' = Dir(u)
        /\ \A u \in Threads \ {t} : pc'[u] = pc[u]
        /\ Dir(t) \notin dirs /\ dirs' = dirs \cup {Dir(t)} /\ Listed' = Listed
    BY <1>6 DEF MakeDir, Typing, Goto, Dir, Listed
  <2> QED
    BY <2>1 DEF Climbing
<1>7. ASSUME NEW t \in Threads, ListDir(t) PROVE Climbing'
  <2>1. /\ pc[t] = "list" /\ pc'[t] = "access" /\ page' = page /\ depth'[t] = depth[t] + 1
        /\ \A u \in Threads \ {t} : /\ pc'[u] = pc[u] /\ depth'[u] = depth[u]
                                     /\ Dir(u)' = Dir(u)
        /\ dirs' = dirs
    BY <1>7 DEF ListDir, Typing, Goto, Dir
  <2>2. depth[t] < Len(Path[page[t]])
    BY <2>1 DEF OnePage
  <2>3. /\ First(page[t], depth[t] + 1) = First(page[t], depth[t]) \cup {Dir(t)}
        /\ Dir(t) \in AllDirs /\ Dir(t) \in dirs
    BY <2>1, <2>2, InLoop DEF AllDirs, Climbing
  <2>4. Listed' = Listed \cup {Dir(t)}
    BY <1>7, <2>3, ListedGrows
  <2> QED
    BY <2>1, <2>3, <2>4 DEF Climbing
<1> QED
  BY <1>1, <1>2, <1>3, <1>4, <1>5, <1>6, <1>7 DEF Next, Terminated

LEMMA EnteredStep ==
  ASSUME Typing, OnePage, Climbing, Entered, [Next]_vars
  PROVE  Entered'
<1>1. CASE UNCHANGED vars
  BY <1>1 DEF Entered, Dir, Listed, vars
<1>2. ASSUME NEW t \in Threads,
             \/ \E p \in Pages : StartPage(t, p)
             \/ DirExists(t) \/ DirIsMissing(t) \/ MakeDirFails(t) \/ WritePageFails(t)
             \/ CountDownload(t)
      PROVE  Entered'
  <2>1. /\ pc[t] # "list" /\ pc'[t] # "list"
        /\ \A u \in Threads \ {t} : pc'[u] = pc[u] /\ Dir(u)' = Dir(u)
        /\ dirs' = dirs /\ Listed' = Listed /\ docfile' = docfile /\ unlisted' = unlisted
        /\ files' = files
    BY <1>2 DEF StartPage, DirExists, DirIsMissing, MakeDirFails, WritePageFails, CountDownload,
                Typing, Goto, Dir, Listed
  <2> QED
    BY <2>1 DEF Entered
<1>3. ASSUME NEW t \in Threads, MakeDir(t) PROVE Entered'
  <2>1. /\ pc[t] = "mkdir" /\ pc'[t] = "list"
        /\ \A u \in Threads : Dir(u)' = Dir(u)
        /\ \A u \in Threads \ {t} : pc'[u] = pc[u]
        /\ dirs' = dirs \cup {Dir(t)} /\ Listed' = Listed /\ docfile' = docfile
        /\ unlisted' = unlisted /\ files' = files
    BY <1>3 DEF MakeDir, Typing, Goto, Dir, Listed
  <2> QED
    BY <2>1 DEF Entered
<1>4. ASSUME NEW t \in Threads, ListDir(t) PROVE Entered'
  <2>1. /\ pc[t] = "list" /\ pc'[t] = "access"
        /\ \A u \in Threads \ {t} : pc'[u] = pc[u] /\ Dir(u)' = Dir(u)
        /\ dirs' = dirs /\ docfile' = Append(docfile, Dir(t))
        /\ unlisted' = unlisted /\ files' = files
    BY <1>4 DEF ListDir, Typing, Goto, Dir
  <2>2. Dir(t) \in dirs /\ Dir(t) \notin Listed /\ Dir(t) \in AllDirs
    BY <2>1 DEF Climbing, Typing
  <2>3. Listed' = Listed \cup {Dir(t)}
    BY <1>4, <2>2, ListedGrows
  <2>4. Distinct(docfile')
    BY <2>1, <2>2, AppendDistinct DEF Entered, Typing, Listed, Elements
  <2> QED
    BY <2>1, <2>2, <2>3, <2>4 DEF Entered
<1>5. ASSUME NEW t \in Threads, ListDirFails(t) PROVE Entered'
  <2>1. /\ pc[t] = "list" /\ pc'[t] = "count"
        /\ \A u \in Threads : Dir(u)' = Dir(u)
        /\ \A u \in Threads \ {t} : pc'[u] = pc[u]
        /\ dirs' = dirs /\ docfile' = docfile /\ Listed' = Listed
        /\ unlisted' = unlisted \cup {Dir(t)} /\ files' = files
    BY <1>5 DEF ListDirFails, Typing, Goto, Dir, Listed
  <2> QED
    BY <2>1 DEF Entered
<1>6. ASSUME NEW t \in Threads, WritePage(t) PROVE Entered'
  <2>1. /\ pc[t] = "access" /\ pc'[t] = "count" /\ depth[t] = Len(Path[page[t]])
        /\ \A u \in Threads : Dir(u)' = Dir(u)
        /\ \A u \in Threads \ {t} : pc'[u] = pc[u]
        /\ dirs' = dirs /\ docfile' = docfile /\ Listed' = Listed
        /\ unlisted' = unlisted /\ files' = files \cup {page[t]}
    BY <1>6 DEF WritePage, Typing, Goto, Dir, Listed
  <2>2. DirsOf(page[t]) \subseteq dirs
    BY <2>1, InLoop DEF Climbing
  <2> QED
    BY <2>1, <2>2 DEF Entered
<1> QED
  BY <1>1, <1>2, <1>3, <1>4, <1>5, <1>6 DEF Next, Terminated

(* A directory stays occupied while what is behind a thread only grows, or *)
(* the page of that thread is written or given up.                         *)
LEMMA StaysOccupied ==
  ASSUME NEW d, NEW t \in Threads, Occupied(d),
         files \subseteq files', failed \subseteq failed',
         \A u \in Threads \ {t} : Behind(u)' = Behind(u),
         d \in Behind(t) => Occupied(d)'
  PROVE  Occupied(d)'
BY DEF Occupied

LEMMA NoneEmptyStep ==
  ASSUME Typing, OnePage, NoneEmpty, [Next]_vars
  PROVE  NoneEmpty'
<1>1. CASE UNCHANGED vars
  BY <1>1 DEF NoneEmpty, Occupied, Behind, vars
<1>2. ASSUME NEW t \in Threads,
             \/ \E p \in Pages : StartPage(t, p)
             \/ DirExists(t) \/ DirIsMissing(t) \/ ListDir(t) \/ CountDownload(t)
      PROVE  NoneEmpty'
  <2>1. /\ \A u \in Threads \ {t} : Behind(u)' = Behind(u)
        /\ dirs' = dirs /\ files' = files /\ failed' = failed
    BY <1>2 DEF StartPage, DirExists, DirIsMissing, ListDir, CountDownload, Typing, Goto, Behind
  <2>2. Behind(t) \subseteq Behind(t)'
    <3>1. CASE (\E p \in Pages : StartPage(t, p)) \/ CountDownload(t)
      BY <3>1 DEF StartPage, CountDownload, Behind
    <3>2. CASE DirIsMissing(t)
      BY <3>2 DEF DirIsMissing, Behind, Typing, Goto
    <3>3. CASE DirExists(t)
      <4>1. Behind(t) = First(page[t], depth[t]) /\ Behind(t)' = First(page[t], depth[t] + 1)
        BY <3>3 DEF DirExists, Behind, Typing
      <4> QED
        BY <3>3, <4>1, InLoop DEF DirExists
    <3>4. CASE ListDir(t)
      <4>1. Behind(t) = First(page[t], depth[t] + 1) /\ Behind(t)' = First(page[t], depth[t] + 1)
        BY <3>4 DEF ListDir, Behind, Typing, Goto
      <4> QED
        BY <4>1
    <3> QED
      BY <1>2, <3>1, <3>2, <3>3, <3>4
  <2>3. ASSUME NEW d, d \in Behind(t) PROVE Occupied(d)'
    BY <2>2, <2>3 DEF Occupied
  <2> QED
    BY <2>1, <2>3, StaysOccupied DEF NoneEmpty
<1>3. ASSUME NEW t \in Threads, MakeDir(t) PROVE NoneEmpty'
  <2>1. /\ \A u \in Threads \ {t} : Behind(u)' = Behind(u)
        /\ dirs' = dirs \cup {Dir(t)} /\ files' = files /\ failed' = failed
        /\ Behind(t) = First(page[t], depth[t]) /\ Behind(t)' = First(page[t], depth[t] + 1)
        /\ pc[t] = "mkdir" /\ depth[t] < Len(Path[page[t]])
    BY <1>3 DEF MakeDir, Typing, Goto, Behind, OnePage
  <2>2. Behind(t)' = Behind(t) \cup {Dir(t)}
    BY <2>1, InLoop
  <2>3. ASSUME NEW d, d \in Behind(t) \cup {Dir(t)} PROVE Occupied(d)'
    BY <2>2, <2>3 DEF Occupied
  <2> QED
    BY <2>1, <2>3, StaysOccupied DEF NoneEmpty
<1>4. ASSUME NEW t \in Threads,
             \/ ListDirFails(t) \/ WritePage(t) \/ WritePageFails(t)
             \/ MakeDirFails(t) /\ Dir(t) \notin dirs
      PROVE  NoneEmpty'
  <2>1. /\ \A u \in Threads \ {t} : Behind(u)' = Behind(u)
        /\ dirs' = dirs /\ files \subseteq files' /\ failed \subseteq failed'
        /\ page[t] \in files' \cup failed' /\ pc[t] # "idle"
    BY <1>4 DEF ListDirFails, WritePage, WritePageFails, MakeDirFails, Typing, Goto, Behind
  <2>2. Behind(t) \subseteq DirsOf(page[t])
    BY <2>1, BehindOnPath
  <2>3. ASSUME NEW d, d \in Behind(t) PROVE Occupied(d)'
    BY <2>1, <2>2, <2>3 DEF Occupied
  <2> QED
    BY <2>1, <2>3, StaysOccupied DEF NoneEmpty
<1>5. ASSUME NEW t \in Threads, MakeDirFails(t), Dir(t) \in dirs PROVE NoneEmpty'
  <2>1. /\ \A u \in Threads \ {t} : Behind(u)' = Behind(u)
        /\ dirs' = dirs /\ files' = files /\ failed' = failed
        /\ pc[t] = "mkdir" /\ depth[t] < Len(Path[page[t]])
        /\ Behind(t) = First(page[t], depth[t])
    BY <1>5 DEF MakeDirFails, Typing, Goto, Behind, OnePage
  <2>2. page[t] \in Pages /\ depth[t] \in Nat
    BY <2>1, InLoop
  <2>3. ASSUME NEW q \in Pages, NEW m \in Nat, m <= Len(Path[q]), Dir(t) \in First(q, m)
        PROVE  Behind(t) \subseteq First(q, m)
    BY <2>1, <2>2, <2>3, SharedAbove DEF Dir
  <2>4. CASE \E q \in files \cup failed : Dir(t) \in DirsOf(q)
    <3>1. PICK q \in files \cup failed : Dir(t) \in DirsOf(q)
      BY <2>4
    <3>2. q \in Pages /\ DirsOf(q) = First(q, Len(Path[q])) /\ Len(Path[q]) \in Nat
      BY PathIsSequence DEF Typing
    <3>3. Behind(t) \subseteq DirsOf(q)
      BY <2>3, <3>1, <3>2
    <3>4. ASSUME NEW d, d \in Behind(t) PROVE Occupied(d)'
      BY <2>1, <3>1, <3>3, <3>4 DEF Occupied
    <3> QED
      BY <2>1, <3>4, StaysOccupied DEF NoneEmpty
  <2>5. CASE \E u \in Threads : Dir(t) \in Behind(u)
    <3>1. PICK u \in Threads : Dir(t) \in Behind(u)
      BY <2>5
    <3>2. u # t
      BY <2>1, <2>2, <3>1, AheadOfItself DEF Dir
    <3>3. Behind(t) \subseteq Behind(u)
      <4>1. PICK m \in Nat : m <= Len(Path[page[u]]) /\ Behind(u) = First(page[u], m)
        BY <3>1, BehindIsFirst
      <4>2. page[u] \in Pages
        BY <3>1, InLoop DEF Behind
      <4> QED
        BY <2>3, <3>1, <4>1, <4>2
    <3>4. ASSUME NEW d, d \in Behind(t) PROVE Occupied(d)'
      BY <2>1, <3>2, <3>3, <3>4 DEF Occupied
    <3> QED
      BY <2>1, <3>4, StaysOccupied DEF NoneEmpty
  <2> QED
    BY <1>5, <2>4, <2>5 DEF NoneEmpty, Occupied
<1> QED
  BY <1>1, <1>2, <1>3, <1>4, <1>5 DEF Next, Terminated

-----------------------------------------------------------------------------

LEMMA InvInit ==
  ASSUME Init
  PROVE  Inv
<1>1. InHand \subseteq {NoPage} /\ NoPage \notin Pages /\ received = {}
  BY PageStoreAssumption DEF Init, InHand
<1>2. Counted
  BY <1>1, FS_EmptySet DEF Init, Counted
<1>3. Typing /\ OnePage /\ Climbing
  BY PageStoreAssumption DEF Init, Typing, OnePage, Climbing
<1>4. Entered
  BY DEF Init, Entered, Distinct, Listed
<1>5. NoneEmpty
  BY DEF Init, NoneEmpty
<1> QED
  BY <1>2, <1>3, <1>4, <1>5 DEF Inv

LEMMA InvariantStep ==
  ASSUME Inv, [Next]_vars
  PROVE  Inv'
BY TypingStep, OnePageStep, CountedStep, ClimbingStep, EnteredStep, NoneEmptyStep
   DEF Inv, Entered

(* The inductive invariant of saveFile. *)
THEOREM Invariance == Spec => []Inv
BY InvInit, InvariantStep, PTL DEF Spec

(* Type correctness; no page is counted twice, so pagesDownloaded never    *)
(* exceeds the pages of the site.                                          *)
THEOREM TypeCorrect == Spec => []TypeOK
<1>1. Inv => TypeOK
  <2> SUFFICES ASSUME Inv PROVE TypeOK
    OBVIOUS
  <2>1. downloaded \in 0..Cardinality(Pages)
    <3>1. received \ InHand \subseteq Pages /\ IsFiniteSet(Pages)
      BY PageStoreAssumption DEF Inv, Typing
    <3>2. Cardinality(received \ InHand) <= Cardinality(Pages)
      BY <3>1, FS_Subset
    <3>3. Cardinality(Pages) \in Nat
      BY <3>1, FS_CardinalityType
    <3> QED
      BY <3>2, <3>3 DEF Inv, Counted, Typing
  <2> QED
    BY <2>1 DEF Inv, Typing, OnePage, Entered, TypeOK, AllDirs
<1> QED
  BY <1>1, Invariance, PTL

(* The docfile names a directory once, however many threads find it        *)
(* missing at the same time.                                               *)
THEOREM NoDirectoryTwice == Spec => []ListedOnce
<1>1. Inv => ListedOnce
  BY DEF Inv, Entered, Distinct, ListedOnce
<1> QED
  BY <1>1, Invariance, PTL

(* The directories of a page that was written are listed, or about to be,  *)
(* unless the docfile could not be written when they were due.             *)
THEOREM WrittenIsListed == Spec => []WrittenListed
<1>1. Inv => WrittenListed
  BY DEF Inv, Entered, WrittenListed
<1> QED
  BY <1>1, Invariance, PTL

(* Of two threads that find a directory missing one loses its page, but    *)
(* below every directory of the docfile some page was written, unless the  *)
(* file system failed there.                                               *)
THEOREM NoEmptyDirectory == Spec => []NoDirectoryEmpty
<1>1. Inv => NoDirectoryEmpty
  BY DEF Inv, Entered, NoneEmpty, Occupied, Behind, AllSaved, NoDirectoryEmpty
<1> QED
  BY <1>1, Invariance, PTL

-----------------------------------------------------------------------------
(* The division of the docfile *)

(* Rank(i): the workers created before worker i. *)
Before(i) == {j \in created : j < i}
Rank(i) == Cardinality(Before(i))

-----------------------------------------------------------------------------
(* Arithmetic *)

LEMMA Multiples ==
  ASSUME NEW r \in Nat, NEW s \in Nat, NEW d \in Nat, r + 1 <= s
  PROVE  r * d \in Nat /\ s * d \in Nat /\ r * d + d <= s * d
<1>1. PICK k \in Nat : s = r + 1 + k
  <2>1. s - (r + 1) \in Nat /\ s = r + 1 + (s - (r + 1))
    OBVIOUS
  <2> QED
    BY <2>1
<1>2. s * d = r * d + d + k * d
  BY <1>1
<1>3. r * d \in Nat /\ k * d \in Nat
  OBVIOUS
<1> QED
  BY <1>2, <1>3

LEMMA Quotient ==
  ASSUME NEW n \in Nat, NEW a \in Nat, a > 0, a <= n
  PROVE  /\ n \div a \in Nat /\ n \div a >= 1
         /\ a * (n \div a) <= n
         /\ n - (n % a) = a * (n \div a)
<1> DEFINE q == n \div a
           r == n % a
<1>1. q \in Int
  OBVIOUS
<1>2. r \in Nat /\ r < a
  OBVIOUS
<1>3. n = a * q + r
  OBVIOUS
<1> HIDE DEF q, r
<1>4. q >= 1
  <2> SUFFICES ASSUME q <= 0 PROVE FALSE
    BY <1>1
  <2>1. a * q <= 0 /\ a * q \in Int
    BY <1>1
  <2> DEFINE m == a * q
  <2> HIDE DEF m
  <2>2. m \in Int /\ m <= 0 /\ n = m + r
    BY <1>3, <2>1 DEF m
  <2> QED
    BY <1>2, <2>2
<1>5. a * q \in Nat
  BY <1>1, <1>4
<1>6. q \in Nat /\ q >= 1 /\ a * q <= n /\ n - r = a * q
  BY <1>1, <1>2, <1>3, <1>4, <1>5
<1> QED
  BY <1>6 DEF q, r

-----------------------------------------------------------------------------
(* What splitDirectories relies on *)

(* Some worker was created, and there are no more workers than directories. *)
Splittable ==
  /\ NumberOfDirs \in Nat /\ numberOfWorkers \in 1..NumberOfDirs
  /\ created \subseteq 1..numberOfWorkers /\ created # {}

LEMMA CreatedFinite ==
  ASSUME Splittable
  PROVE  /\ IsFiniteSet(created)
         /\ Cardinality(created) \in 1..NumberOfDirs
<1>1. /\ IsFiniteSet(1..numberOfWorkers) /\ Cardinality(1..numberOfWorkers) = numberOfWorkers
  BY FS_Interval DEF Splittable
<1>2. IsFiniteSet(created) /\ Cardinality(created) <= numberOfWorkers
  BY <1>1, FS_Subset DEF Splittable
<1>3. Cardinality(created) \in Nat /\ Cardinality(created) # 0
  BY <1>2, FS_CardinalityType, FS_EmptySet DEF Splittable
<1> QED
  BY <1>2, <1>3 DEF Splittable

LEMMA ShareIsPositive ==
  ASSUME Splittable
  PROVE  /\ DirsPerWorker \in Nat /\ DirsPerWorker >= 1
         /\ Cardinality(created) * DirsPerWorker <= NumberOfDirs
         /\ NumberOfDirs - (NumberOfDirs % Cardinality(created))
              = Cardinality(created) * DirsPerWorker
BY CreatedFinite, Quotient DEF DirsPerWorker, Splittable

LEMMA RankType ==
  ASSUME Splittable, NEW i \in created
  PROVE  Rank(i) \in Nat /\ Rank(i) + 1 <= Cardinality(created) /\ IsFiniteSet(Before(i))
<1>1. IsFiniteSet(Before(i)) /\ Before(i) \subseteq created
  BY CreatedFinite, FS_Subset DEF Before
<1>2. Cardinality(Before(i) \cup {i}) = Rank(i) + 1
  <2>1. i \notin Before(i)
    BY DEF Before, Splittable
  <2> QED
    BY <1>1, <2>1, FS_AddElement DEF Rank
<1>3. Cardinality(Before(i) \cup {i}) <= Cardinality(created)
  BY <1>1, CreatedFinite, FS_Subset
<1> QED
  BY <1>1, <1>2, <1>3, FS_CardinalityType DEF Rank

LEMMA RankGrows ==
  ASSUME Splittable, NEW i \in created, NEW j \in created, i < j
  PROVE  Rank(i) + 1 <= Rank(j)
<1>1. IsFiniteSet(Before(i)) /\ IsFiniteSet(Before(j))
  BY RankType
<1>2. i \notin Before(i) /\ Before(i) \cup {i} \subseteq Before(j)
  <2>1. \A x \in created : x \in Nat
    BY DEF Splittable
  <2> QED
    BY <2>1 DEF Before
<1>3. Cardinality(Before(i) \cup {i}) = Rank(i) + 1
  BY <1>1, <1>2, FS_AddElement DEF Rank
<1> QED
  BY <1>1, <1>2, <1>3, FS_Subset DEF Rank

(* Every rank is that of some worker. *)
LEMMA EveryRank ==
  ASSUME Splittable, NEW r \in Nat, r < Cardinality(created)
  PROVE  \E i \in created : Rank(i) = r
<1> DEFINE a == Cardinality(created)
           R == 0..(a - 1)
           f == [i \in created |-> Rank(i)]
<1>1. a \in Nat /\ a > 0 /\ IsFiniteSet(created)
  BY CreatedFinite
<1>2. IsFiniteSet(R) /\ Cardinality(R) = a
  <2> HIDE DEF a
  <2>1. 0 \in Int /\ a - 1 \in Int /\ ~ (0 > a - 1) /\ (a - 1) - 0 + 1 = a
    BY <1>1
  <2> QED
    BY <2>1, FS_Interval
<1>3. f \in [created -> R]
  BY <1>1, RankType
<1>4. ASSUME NEW i \in created, NEW j \in created, f[i] = f[j] PROVE i = j
  <2>1. Rank(i) = Rank(j) /\ Rank(i) \in Nat
    BY <1>4, RankType
  <2>2. i \in Nat /\ j \in Nat
    BY DEF Splittable
  <2>3. ~ (i < j) /\ ~ (j < i)
    BY <2>1, <2>2, RankGrows
  <2> QED
    BY <2>2, <2>3
<1> HIDE DEF R, f
<1>5. f \in Injection(created, R)
  BY <1>3, <1>4, Fun_IsInj
<1>6. f \in Surjection(created, R)
  BY <1>1, <1>2, <1>5, FS_Injection
<1>7. \E i \in created : f[i] = r
  <2>1. r \in R
    BY <1>1 DEF R
  <2> QED
    BY <1>6, <2>1, Fun_SurjectionProperties
<1> QED
  BY <1>7 DEF f

(* The ranges lie one behind the other; none is empty and none reaches     *)
(* beyond the list.                                                        *)
LEMMA ShareBounds ==
  ASSUME Splittable, NEW i \in created
  PROVE  /\ Share(i).start \in Nat /\ Share(i).end \in Nat
         /\ Share(i).start = Rank(i) * DirsPerWorker
         /\ Share(i).start < Share(i).end /\ Share(i).end <= NumberOfDirs
         /\ Share(i).end >= Rank(i) * DirsPerWorker + DirsPerWorker
         /\ i # numberOfWorkers
              => Share(i).end = Rank(i) * DirsPerWorker + DirsPerWorker
<1> DEFINE d == DirsPerWorker
           c == CurrDir(i)
           a == Cardinality(created)
<1>1. a \in Nat /\ d \in Nat /\ d >= 1 /\ NumberOfDirs \in Nat /\ Rank(i) \in Nat
  BY CreatedFinite, ShareIsPositive, RankType DEF Splittable
<1>2. c = Rank(i) * d
  BY DEF CurrDir, Rank, Before
<1>3. c \in Nat /\ a * d \in Nat /\ c + d <= a * d
  BY <1>1, <1>2, RankType, Multiples
<1>4. a * d <= NumberOfDirs
  BY ShareIsPositive
<1>5. /\ Share(i).start = c
      /\ Share(i).end = IF i = numberOfWorkers THEN NumberOfDirs ELSE c + d
  BY DEF Share
<1> HIDE DEF c, d, a
<1>6. c < NumberOfDirs /\ c + d <= NumberOfDirs /\ c < c + d /\ c + d \in Nat
  <2> DEFINE m == a * d
  <2>1. m \in Nat /\ c + d <= m /\ m <= NumberOfDirs
    BY <1>3, <1>4
  <2> HIDE DEF m
  <2> QED
    BY <1>1, <1>3, <2>1
<1>7. /\ Share(i).start \in Nat /\ Share(i).end \in Nat /\ Share(i).start = c
      /\ Share(i).start < Share(i).end /\ Share(i).end <= NumberOfDirs
      /\ Share(i).end >= c + d
      /\ i # numberOfWorkers => Share(i).end = c + d
  BY <1>1, <1>3, <1>5, <1>6
<1> QED
  BY <1>2, <1>7 DEF d

LEMMA SharesApart ==
  ASSUME Splittable, NEW i \in created, NEW j \in created, i < j
  PROVE  Share(i).end <= Share(j).start
<1>1. i # numberOfWorkers
  BY DEF Splittable
<1>2. /\ Rank(i) \in Nat /\ Rank(j) \in Nat /\ DirsPerWorker \in Nat
      /\ Rank(i) + 1 <= Rank(j)
  BY RankType, RankGrows, ShareIsPositive
<1>3. Rank(i) * DirsPerWorker + DirsPerWorker <= Rank(j) * DirsPerWorker
  BY <1>2, Multiples
<1> QED
  BY <1>1, <1>3, ShareBounds

(* Every directory is in some range, or in the remainder. *)
LEMMA SharesCover ==
  ASSUME Splittable, NEW k \in 1..NumberOfDirs, k \notin Remainder, DOMAIN directoryList = 1..NumberOfDirs
  PROVE  \E i \in created : k \in (Share(i).start + 1)..Share(i).end
<1> DEFINE d == DirsPerWorker
           a == Cardinality(created)
           m == a * d
<1>1. /\ a \in Nat /\ a > 0 /\ d \in Nat /\ d >= 1 /\ NumberOfDirs \in Nat
      /\ m \in Nat /\ m <= NumberOfDirs
  BY CreatedFinite, ShareIsPositive DEF Splittable
<1>2. CASE k <= m
  <2> DEFINE q == (k - 1) \div d
             r == (k - 1) % d
  <2>1. q \in Int /\ r \in Nat /\ r < d /\ k - 1 = d * q + r
    BY <1>1
  <2> HIDE DEF q, r, d, a
  <2>2. d * q \in Int /\ d * q <= k - 1 /\ k <= d * q + d
    BY <1>1, <2>1
  <2>3. q \in Nat
    <3> SUFFICES ASSUME q <= -1 PROVE FALSE
      BY <2>1
    <3>1. d * q <= -d
      BY <1>1, <2>1
    <3> QED
      BY <1>1, <2>2, <3>1
  <2>4. q < a
    <3> SUFFICES ASSUME a <= q PROVE FALSE
      BY <1>1, <2>3
    <3>1. a * d <= d * q
      BY <1>1, <2>3
    <3> QED
      BY <1>1, <1>2, <2>2, <3>1
  <2>5. PICK i \in created : Rank(i) = q
    BY <2>3, <2>4, EveryRank DEF a
  <2>6. /\ Share(i).start \in Nat /\ Share(i).end \in Nat
        /\ Share(i).start = q * d /\ Share(i).end >= q * d + d
    BY <2>5, ShareBounds DEF d
  <2>7. q * d = d * q
    BY <1>1, <2>3
  <2>8. k >= Share(i).start + 1 /\ k <= Share(i).end
    BY <1>1, <2>2, <2>6, <2>7
  <2> QED
    BY <2>6, <2>8
<1>3. CASE k > m
  <2>1. numberOfWorkers \in created
    BY <1>1, <1>3, ShareIsPositive DEF Remainder
  <2> DEFINE i == numberOfWorkers
  <2>2. /\ Share(i).start \in Nat /\ Share(i).start = Rank(i) * d
        /\ Share(i).end = NumberOfDirs
    BY <2>1, ShareBounds DEF Share
  <2>3. Rank(i) * d \in Nat /\ Rank(i) * d + d <= m
    BY <1>1, <2>1, RankType, Multiples
  <2>4. k >= Share(i).start + 1 /\ k <= Share(i).end
    BY <1>1, <1>3, <2>2, <2>3
  <2> QED
    BY <1>1, <2>1, <2>2, <2>4
<1> QED
  BY <1>1, <1>2, <1>3

-----------------------------------------------------------------------------
(* The inductive invariant *)

Stages ==
  {"waiting", "creating", "splitting", "sending", "ready", "undefined", "ended"}

(* What the Job Executor read is what saveFile wrote, and stays so. *)
Settled ==
  IF stage = "waiting" THEN directoryList = <<>> ELSE AllSaved /\ directoryList = docfile

Divided ==
  /\ stage \in Stages
  /\ stage = "creating" => numberOfWorkers \in 1..NumberOfDirs
  /\ stage \in {"splitting", "sending", "ready", "undefined"} => Splittable
  /\ stage \in {"sending", "ready", "undefined"}
       => DOMAIN range = created /\ \A i \in created : range[i] = Share(i)
  /\ stage \notin {"sending", "ready", "undefined"} => DOMAIN given = {}
  /\ DOMAIN given \subseteq created
  /\ \A i \in DOMAIN given : given[i] = (Share(i).start + 1)..Share(i).end
  /\ stage = "ready" => created \subseteq DOMAIN given

CorpusInv == Inv /\ Settled /\ Divided

(* Once every page is saved, saveFile does nothing any more. *)
LEMMA NothingMoreSaved ==
  ASSUME AllSaved, [Next]_vars
  PROVE  UNCHANGED vars
BY DEF AllSaved, Next, Terminated, StartPage, DirExists, DirIsMissing, MakeDir, MakeDirFails,
       ListDir, ListDirFails, WritePage, WritePageFails, CountDownload

LEMMA SettledStep ==
  ASSUME Settled, [CorpusNext]_<<vars, jobExecutor>>
  PROVE  Settled'
<1>1. ASSUME [Next]_vars, UNCHANGED jobExecutor PROVE Settled'
  <2>1. CASE stage = "waiting"
    BY <1>1, <2>1 DEF Settled, jobExecutor
  <2>2. CASE stage # "waiting"
    <3>1. UNCHANGED vars
      BY <1>1, <2>2, NothingMoreSaved DEF Settled
    <3> QED
      BY <1>1, <3>1 DEF Settled, AllSaved, jobExecutor, vars
  <2> QED
    BY <2>1, <2>2
<1>2. ASSUME CorpusStep, UNCHANGED vars PROVE Settled'
  BY <1>2 DEF CorpusStep, ReadDocfile, NothingToRead, CreateWorkers, SplitDirectories,
              SendDirectories, SendDirectoriesFails, Settled, AllSaved, vars
<1> QED
  BY <1>1, <1>2 DEF CorpusNext

LEMMA DividedStep ==
  ASSUME Typing, Settled, Divided, [CorpusNext]_<<vars, jobExecutor>>
  PROVE  Divided'
<1>1. CASE UNCHANGED jobExecutor
  BY <1>1 DEF Divided, jobExecutor, Splittable, Share, CurrDir, DirsPerWorker, NumberOfDirs
<1>2. CASE ReadDocfile
  <2>1. Len(docfile) \in Nat /\ Len(docfile) > 0
    BY <1>2 DEF ReadDocfile, Typing
  <2>2. numberOfWorkers' \in 1..NumberOfDirs'
    BY <1>2, <2>1, CorpusAssumption DEF ReadDocfile, NumberOfDirs
  <2>3. stage = "waiting" /\ stage' = "creating" /\ given' = given /\ created' = created
    BY <1>2 DEF ReadDocfile
  <2> QED
    BY <2>2, <2>3 DEF Divided, Stages
<1>3. CASE NothingToRead
  BY <1>3 DEF NothingToRead, Divided, Stages
<1>4. CASE CreateWorkers
  <2>1. /\ stage = "creating" /\ created' \subseteq 1..numberOfWorkers
        /\ stage' = IF created' = {} THEN "ended" ELSE "splitting"
        /\ numberOfWorkers' = numberOfWorkers /\ NumberOfDirs' = NumberOfDirs
        /\ given' = given /\ DOMAIN given = {}
    BY <1>4 DEF CreateWorkers, NumberOfDirs, Divided
  <2>2. NumberOfDirs \in Nat
    BY <2>1 DEF Settled, Typing, NumberOfDirs
  <2>3. stage' = "splitting" => Splittable'
    BY <2>1, <2>2 DEF Divided, Splittable
  <2> QED
    BY <2>1, <2>3 DEF Divided, Stages
<1>5. CASE SplitDirectories
  <2>1. /\ stage = "splitting" /\ stage' = "sending" /\ Splittable
        /\ numberOfWorkers' = numberOfWorkers /\ directoryList' = directoryList
        /\ created' = created /\ given' = given /\ DOMAIN given = {}
        /\ range' = [i \in {k \in created : CurrDir(k) < NumberOfDirs} |-> Share(i)]
    BY <1>5 DEF SplitDirectories, Divided
  <2>2. \A i \in created : CurrDir(i) < NumberOfDirs
    <3> SUFFICES ASSUME NEW i \in created PROVE CurrDir(i) < NumberOfDirs
      OBVIOUS
    <3>1. Share(i).start = CurrDir(i) /\ NumberOfDirs \in Nat
      BY <2>1 DEF Share, Splittable
    <3> QED
      BY <2>1, <3>1, ShareBounds
  <2>3. \A i \in created : Share(i)' = Share(i)
    BY <2>1 DEF Share, CurrDir, DirsPerWorker, NumberOfDirs
  <2>4. DOMAIN range' = created /\ \A i \in created : range'[i] = Share(i)
    BY <2>1, <2>2
  <2>5. Splittable'
    BY <2>1 DEF Splittable, NumberOfDirs
  <2> QED
    BY <2>1, <2>3, <2>4, <2>5 DEF Divided, Stages
<1>6. ASSUME NEW i \in created, SendDirectories(i) PROVE Divided'
  <2>1. /\ stage = "sending" /\ Splittable /\ i \in created
        /\ numberOfWorkers' = numberOfWorkers /\ directoryList' = directoryList
        /\ created' = created /\ range' = range
        /\ DOMAIN given' = DOMAIN given \cup {i}
        /\ \A j \in DOMAIN given' :
             given'[j] = IF j = i THEN (range[i].start + 1)..range[i].end ELSE given[j]
        /\ stage' \in {"sending", "ready"}
        /\ stage' = "ready" => created \subseteq DOMAIN given \cup {i}
    BY <1>6 DEF SendDirectories, Divided
  <2>2. \A j \in created : Share(j)' = Share(j)
    BY <2>1 DEF Share, CurrDir, DirsPerWorker, NumberOfDirs
  <2>3. Splittable'
    BY <2>1 DEF Splittable, NumberOfDirs
  <2> QED
    BY <2>1, <2>2, <2>3 DEF Divided, Stages
<1>7. ASSUME NEW i \in created, SendDirectoriesFails(i) PROVE Divided'
  <2>1. /\ stage = "sending" /\ stage' = "undefined"
        /\ numberOfWorkers' = numberOfWorkers /\ directoryList' = directoryList
        /\ created' = created /\ range' = range /\ given' = given
    BY <1>7 DEF SendDirectoriesFails
  <2>2. \A j \in created : Share(j)' = Share(j)
    BY <2>1 DEF Share, CurrDir, DirsPerWorker, NumberOfDirs
  <2>3. Splittable => Splittable'
    BY <2>1 DEF Splittable, NumberOfDirs
  <2> QED
    BY <2>1, <2>2, <2>3 DEF Divided, Stages
<1> QED
  BY <1>1, <1>2, <1>3, <1>4, <1>5, <1>6, <1>7 DEF CorpusNext, CorpusStep

-----------------------------------------------------------------------------

LEMMA SplittableList ==
  ASSUME CorpusInv, stage \in {"sending", "ready", "undefined"}
  PROVE  Splittable /\ DOMAIN directoryList = 1..NumberOfDirs /\ directoryList = docfile
<1>1. directoryList \in Seq(AllDirs)
  BY DEF CorpusInv, Settled, Inv, Typing
<1> QED
  BY <1>1 DEF CorpusInv, Settled, Divided, NumberOfDirs

(* What saveFile promises holds when the Job Executor follows it. *)
THEOREM CorpusInvariance == CorpusSpec => []CorpusInv
<1>1. CorpusInit => CorpusInv
  <2> SUFFICES ASSUME CorpusInit PROVE CorpusInv
    OBVIOUS
  <2>1. Inv
    BY InvInit DEF CorpusInit
  <2>2. Settled /\ Divided
    BY DEF CorpusInit, Settled, Divided, Stages
  <2> QED
    BY <2>1, <2>2 DEF CorpusInv
<1>2. CorpusInv /\ [CorpusNext]_<<vars, jobExecutor>> => CorpusInv'
  <2> SUFFICES ASSUME CorpusInv, [CorpusNext]_<<vars, jobExecutor>> PROVE CorpusInv'
    OBVIOUS
  <2>1. [Next]_vars
    BY DEF CorpusNext
  <2>2. Inv'
    BY <2>1, InvariantStep DEF CorpusInv
  <2> QED
    BY <2>2, SettledStep, DividedStep DEF CorpusInv, Inv
<1> QED
  BY <1>1, <1>2, PTL DEF CorpusSpec

(* The directories are divided: no directory is sent to two workers, no    *)
(* worker is sent one that is not in the list or none at all, however many *)
(* workers could be created.                                               *)
THEOREM EachGivenOnce == CorpusSpec => []GivenOnce
<1>1. CorpusInv => GivenOnce
  <2> SUFFICES ASSUME CorpusInv PROVE GivenOnce
    OBVIOUS
  <2>1. DOMAIN given # {} => stage \in {"sending", "ready", "undefined"}
    BY DEF CorpusInv, Divided
  <2>2. ASSUME NEW i \in DOMAIN given
        PROVE  given[i] # {} /\ given[i] \subseteq DOMAIN directoryList
    <3>1. /\ Splittable /\ DOMAIN directoryList = 1..NumberOfDirs /\ i \in created
          /\ given[i] = (Share(i).start + 1)..Share(i).end /\ NumberOfDirs \in Nat
      BY <2>1, SplittableList DEF CorpusInv, Divided, Splittable
    <3>2. /\ Share(i).start \in Nat /\ Share(i).end \in Nat
          /\ Share(i).start < Share(i).end /\ Share(i).end <= NumberOfDirs
      BY <3>1, ShareBounds
    <3>3. Share(i).end \in given[i]
      BY <3>1, <3>2
    <3> QED
      BY <3>1, <3>2, <3>3
  <2>3. ASSUME NEW i \in DOMAIN given, NEW j \in DOMAIN given, i < j
        PROVE  given[i] \cap given[j] = {}
    <3>1. /\ Splittable /\ i \in created /\ j \in created
          /\ given[i] = (Share(i).start + 1)..Share(i).end
          /\ given[j] = (Share(j).start + 1)..Share(j).end
      BY <2>1, SplittableList DEF CorpusInv, Divided
    <3>2. /\ Share(i).start \in Nat /\ Share(i).end \in Nat /\ Share(j).start \in Nat
          /\ Share(j).end \in Nat /\ Share(i).end <= Share(j).start
      BY <2>3, <3>1, ShareBounds, SharesApart
    <3> QED
      BY <3>1, <3>2
  <2>4. \A i, j \in DOMAIN given : i # j => i < j \/ j < i
    BY <2>1, SplittableList DEF CorpusInv, Divided, Splittable
  <2>5. stage \in {"sending", "ready"} => DOMAIN range = created
    BY DEF CorpusInv, Divided
  <2> QED
    BY <2>2, <2>3, <2>4, <2>5 DEF GivenOnce
<1> QED
  BY <1>1, CorpusInvariance, PTL

(* A page that was written is searched by some worker, except in the three *)
(* cases that the property names.                                          *)
THEOREM EachSearchable == CorpusSpec => []Searchable
<1>1. CorpusInv => Searchable
  <2> SUFFICES ASSUME CorpusInv, stage = "ready", NEW p \in files,
                      Path[p] \notin unlisted \cup {<<>>}
               PROVE  \E k \in DOMAIN directoryList :
                        /\ directoryList[k] = Path[p]
                        /\ k \in Remainder \cup UNION {given[i] : i \in DOMAIN given}
    BY DEF Searchable
  <2>1. /\ Splittable /\ DOMAIN directoryList = 1..NumberOfDirs /\ directoryList = docfile
        /\ created \subseteq DOMAIN given
        /\ \A i \in DOMAIN given : given[i] = (Share(i).start + 1)..Share(i).end
    BY SplittableList DEF CorpusInv, Divided
  <2>2. Path[p] \in DirsOf(p)
    <3>1. Path[p] \in Seq(STRING) /\ Len(Path[p]) \in Nat /\ Path[p] # <<>>
      BY PathIsSequence DEF CorpusInv, Inv, Typing
    <3>2. Len(Path[p]) \in 1..Len(Path[p]) /\ SubSeq(Path[p], 1, Len(Path[p])) = Path[p]
      BY <3>1
    <3> QED
      BY <3>2 DEF DirsOf
  <2>3. Path[p] \in Listed
    BY <2>2 DEF CorpusInv, Inv, Entered, Settled, AllSaved
  <2>4. PICK k \in DOMAIN directoryList : directoryList[k] = Path[p]
    BY <2>1, <2>3 DEF Listed
  <2>5. k \in Remainder \/ \E i \in created : k \in (Share(i).start + 1)..Share(i).end
    BY <2>1, <2>4, SharesCover
  <2>6. k \in Remainder \cup UNION {given[i] : i \in DOMAIN given}
    BY <2>1, <2>5
  <2> QED
    BY <2>4, <2>6
<1> QED
  BY <1>1, CorpusInvariance, PTL

=============================================================================
