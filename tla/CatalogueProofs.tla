-------------------------- MODULE CatalogueProofs --------------------------
(***************************************************************************)
(* That the snapshot is merged as ADR-010 says, follows pkg's files and is *)
(* followed by the watches and the announce, for any repositories,         *)
(* packages and catalogues and any number of updates.                      *)
(***************************************************************************)
EXTENDS Catalogue, FiniteSetTheorems, SequenceTheorems, TLAPS

Contents == [NameVersion -> Build \cup {None, Malformed}]

(***************************************************************************)
(* The order ownCatalogueFirst gives the files.                            *)
(***************************************************************************)
Before(a, b) ==
  \/ a \in Ours \cap sources /\ b \notin Ours \cap sources
  \/ (a \in Ours \cap sources <=> b \in Ours \cap sources) /\ a < b

(* The files this reload has passed. *)
Passed == {paths[i] : i \in 1..(next - 1)}

(***************************************************************************)
(* A row of the merge so far comes from the first of the files that hold   *)
(* one, and it is missing only if none does.  A reload starts afresh.      *)
(***************************************************************************)
Merging ==
  /\ pc # "rows" => merged = Nothing /\ read = [r \in Repo |-> Nothing]
  /\ pc \notin {"sources", "rows"} => next = 1 /\ sources = {}
  /\ pc = "rows" =>
       /\ \A i, j \in 1..Len(paths) : i < j => Before(paths[i], paths[j])
       /\ \A nv \in NameVersion :
            \/ merged[nv] = None /\ \A r \in Repo : read[r][nv] \notin Build
            \/ \E h \in Passed :
                 /\ read[h][nv] \in Build /\ merged[nv] = read[h][nv]
                 /\ \A r \in Repo : read[r][nv] \in Build => r = h \/ Before(h, r)

(***************************************************************************)
(* No change is on its way to the watcher, none passed it by, and no error *)
(* met the latest reload.                                                  *)
(***************************************************************************)
Quiet ==
  /\ ~missed /\ ~erred /\ timer = "off" /\ events \cap {"repository", "db"} = {}
  /\ \A r \in Repo : db[r].st # "torn"

(***************************************************************************)
(* While nothing is pending, a reload in progress has read every file it   *)
(* has passed as it is now, and a finished one left the current snapshot.  *)
(***************************************************************************)
Current ==
  Quiet =>
    /\ pc \in {"watch", "rewatch", "select"} => Fresh
    /\ pc \in {"sources", "rows"} => \A r \in Repo :
         (\E i \in 1..Len(paths) : paths[i] = r) <=> db[r].st = "whole"
    /\ pc = "sources" => sources = Passed
    /\ pc = "rows" =>
         /\ \A i \in 1..Len(paths) : paths[i] \in sources
         /\ \A r \in Repo : read[r] = IF r \in Passed THEN db[r].rows ELSE Nothing

(***************************************************************************)
(* A directory without its watch has a reload on its way, unless the       *)
(* latest addWatches failed, and a snapshot that is not the announced one  *)
(* an announce, unless the latest failed.                                  *)
(***************************************************************************)
Followed ==
  /\ pc \in {"rewatch", "select"} => Started
  /\ Started /\ watched # Tree =>
       \/ "repository" \in events \/ timer # "off" \/ unwatched
       \/ pc \in {"list", "sources", "rows", "rewatch"}
  /\ \/ filtered = rows \/ changed \/ unsent
     \/ pc = "rewatch" /\ ok
     \/ pc \in {"watch", "dead"}

(***************************************************************************)
(* TypeOK without its Booleans, which are proved apart.                    *)
(***************************************************************************)
Shape ==
  /\ dir \subseteq Repo
  /\ db \in [Repo -> {NoFile} \cup {Torn(c) : c \in Catalogues}
                              \cup {Whole(c) : c \in Catalogues}]
  /\ \A r \in Repo \ dir : db[r] = NoFile
  /\ rows \in Snapshot /\ merged \in Snapshot /\ filtered \in Snapshot
  /\ pc \in {"list", "sources", "rows", "watch", "rewatch", "select", "dead"}
  /\ paths \in Seq(Repo) /\ next \in 1..(Len(paths) + 1)
  /\ sources \subseteq Repo
  /\ watched \subseteq dir \cup {Root}
  /\ events \subseteq {"repository", "lock", "db"}
  /\ timer \in {"off", "armed", "due"}
  /\ updates \in 0..MaxUpdates /\ faults \in 0..MaxFaults

Booleans ==
  /\ ok \in BOOLEAN /\ changed \in BOOLEAN /\ missed \in BOOLEAN
  /\ erred \in BOOLEAN /\ unwatched \in BOOLEAN /\ unsent \in BOOLEAN

(* What a reload has read is what a file can hold. *)
History == read \in [Repo -> Contents]

-----------------------------------------------------------------------------
(* The model's operators. *)

(***************************************************************************)
(* A listing is a sequence that names every member.                        *)
(***************************************************************************)
LEMMA ListingsAreSequences ==
  ASSUME NEW S, IsFiniteSet(S), NEW q \in Listings(S)
  PROVE  /\ q \in Seq(S) /\ DOMAIN q = 1..Len(q) /\ Len(q) \in Nat
         /\ \A r : r \in S <=> \E i \in 1..Len(q) : q[i] = r
<1>1. Cardinality(S) \in Nat
  BY FS_CardinalityType
<1>2. q \in [1..Cardinality(S) -> S] /\ Range(q) = S
  BY DEF Listings
<1>3. q \in Seq(S)
  BY <1>1, <1>2, SeqDef
<1>4. DOMAIN q = 1..Len(q) /\ Len(q) \in Nat
  BY <1>3, LenProperties
<1>5. \A r : r \in S <=> \E i \in 1..Len(q) : q[i] = r
  BY <1>2, <1>4 DEF Range
<1> QED
  BY <1>3, <1>4, <1>5

(***************************************************************************)
(* repositoryDatabases lists the files it found.                           *)
(***************************************************************************)
LEMMA DatabasesListed ==
  ASSUME dir \subseteq Repo, NEW found \in SUBSET HasDatabase,
         NEW ps \in repositoryDatabases(found)
  PROVE  /\ ps \in Seq(Repo) /\ Len(ps) \in Nat
         /\ \A r : r \in found <=> \E i \in 1..Len(ps) : ps[i] = r
<1>1. found \subseteq Repo
  BY DEF HasDatabase
<1>2. IsFiniteSet(found)
  BY <1>1, CatalogueAssumption, FS_Subset
<1>3. ps \in Listings(found)
  BY DEF repositoryDatabases
<1>4. /\ ps \in Seq(found) /\ Len(ps) \in Nat
      /\ \A r : r \in found <=> \E i \in 1..Len(ps) : ps[i] = r
  BY <1>2, <1>3, ListingsAreSequences
<1>5. ps \in Seq(Repo)
  BY <1>1, <1>4, SeqDef
<1> QED
  BY <1>4, <1>5

(***************************************************************************)
(* ownCatalogueFirst lists the same files, in the order of Before.         *)
(***************************************************************************)
LEMMA OrderedPaths ==
  ASSUME paths \in Seq(Repo), NEW q \in ownCatalogueFirst(paths, sources)
  PROVE  /\ q \in Seq(Repo) /\ Len(q) \in Nat
         /\ \A r : (\E i \in 1..Len(paths) : paths[i] = r) <=> \E i \in 1..Len(q) : q[i] = r
         /\ \A i, j \in 1..Len(q) : i < j => Before(q[i], q[j])
<1> DEFINE S == Range(paths)
<1>1. /\ DOMAIN paths = 1..Len(paths)
      /\ \A r : r \in S <=> \E i \in 1..Len(paths) : paths[i] = r
      /\ S \subseteq Repo
  <2>1. DOMAIN paths = 1..Len(paths) /\ \A i \in 1..Len(paths) : paths[i] \in Repo
    BY LenProperties, ElementOfSeq
  <2> QED
    BY <2>1 DEF Range
<1>2. IsFiniteSet(S)
  BY <1>1, CatalogueAssumption, FS_Subset
<1>3. /\ q \in Listings(S)
      /\ \A i, j \in DOMAIN q : i < j =>
           \/ q[i] \in Ours \cap sources /\ q[j] \notin Ours \cap sources
           \/ (q[i] \in Ours \cap sources <=> q[j] \in Ours \cap sources) /\ q[i] < q[j]
  BY DEF ownCatalogueFirst
<1>4. /\ q \in Seq(S) /\ DOMAIN q = 1..Len(q) /\ Len(q) \in Nat
      /\ \A r : r \in S <=> \E i \in 1..Len(q) : q[i] = r
  <2> HIDE DEF S
  <2> QED
    BY <1>2, <1>3, ListingsAreSequences
<1>5. q \in Seq(Repo)
  <2> HIDE DEF S
  <2> QED
    BY <1>1, <1>4, SeqDef
<1>6. \A i, j \in 1..Len(q) : i < j => Before(q[i], q[j])
  BY <1>3, <1>4 DEF Before
<1> QED
  <2> HIDE DEF S
  <2> QED
    BY <1>1, <1>4, <1>5, <1>6

(***************************************************************************)
(* The least of a set of numbers is the one that none precedes.            *)
(***************************************************************************)
LEMMA MinIs ==
  ASSUME NEW S \in SUBSET Nat, NEW m \in S, \A y \in S : y = m \/ m < y
  PROVE  Min(S) = m
<1>1. \A y \in S : m =< y
  OBVIOUS
<1>2. \A x \in S : (\A y \in S : x =< y) => x = m
  BY <1>1
<1> QED
  BY <1>1, <1>2 DEF Min

(***************************************************************************)
(* A row that precedes every other usable one is the preferred one.        *)
(***************************************************************************)
LEMMA FirstIsPreferred ==
  ASSUME History, NEW nv \in NameVersion, NEW h \in Repo, read[h][nv] \in Build,
         \A r \in Repo : read[r][nv] \in Build => r = h \/ Before(h, r)
  PROVE  Preferred(read, sources)[nv] = read[h][nv]
<1> DEFINE holders == {r \in Repo : read[r][nv] \in Build}
           mine    == holders \cap Ours \cap sources
           pool    == IF mine # {} THEN mine ELSE holders
<1>1. Preferred(read, sources)[nv] = IF pool = {} THEN None ELSE read[Min(pool)][nv]
  BY DEF Preferred
<1>2. h \in pool /\ pool \subseteq Nat /\ \A y \in pool : y = h \/ h < y
  BY CatalogueAssumption DEF Before
<1>3. Min(pool) = h
  <2> HIDE DEF pool
  <2> QED
    BY <1>2, MinIs
<1> QED
  BY <1>1, <1>2, <1>3

(***************************************************************************)
(* The rows a file yields are rows a file can hold, and of a complete one  *)
(* all of them.                                                            *)
(***************************************************************************)
LEMMA QueryReads ==
  ASSUME Shape, NEW r \in Repo, NEW c \in Query(db[r])
  PROVE  /\ c \in Contents /\ Verified(c) \in Snapshot
         /\ db[r].st = "whole" => c = db[r].rows
<1>1. Nothing \in Contents /\ Catalogues \subseteq Contents
  BY CatalogueAssumption DEF Nothing, Contents
<1>2. db[r].rows \in Contents
  BY <1>1 DEF Shape, NoFile, Torn, Whole
<1>3. c \in Contents /\ (db[r].st = "whole" => c = db[r].rows)
  BY <1>2 DEF Query, Contents
<1>4. Verified(c) \in Snapshot
  BY <1>3 DEF Verified, Snapshot, Contents
<1> QED
  BY <1>3, <1>4

-----------------------------------------------------------------------------
(* Types. *)

(***************************************************************************)
(* pkg's steps change the files and tell the watcher; nothing else moves.  *)
(***************************************************************************)
LEMMA PkgShape ==
  ASSUME Shape, Pkg
  PROVE  Shape' /\ UNCHANGED unmoved
<1> USE CatalogueAssumption DEF Root, ka, errors
<1>1. ASSUME NEW d, NEW name \in {"repository", "lock", "db"}, Notify(d, name)
      PROVE  events' \subseteq {"repository", "lock", "db"}
  BY <1>1 DEF Notify, Shape
<1>2. ASSUME updates < MaxUpdates, updates' = updates + 1
      PROVE  updates' \in 0..MaxUpdates
  BY <1>2 DEF Shape
<1>3. PICK r \in Repo : \/ EnableRepository(r) \/ TouchLock(r) \/ BeginRewrite(r)
                        \/ FinishRewrite(r) \/ RemoveRepository(r)
  BY DEF Pkg
<1>4. CASE EnableRepository(r)
  <2>1. /\ events' \subseteq {"repository", "lock", "db"}
        /\ dir' = dir \cup {r} /\ UNCHANGED <<db, updates, watched, unmoved>>
    BY <1>1, <1>4 DEF EnableRepository
  <2> QED
    BY <2>1 DEF Shape, unmoved, reload
<1>5. CASE TouchLock(r)
  <2>1. events' \subseteq {"repository", "lock", "db"} /\ UNCHANGED <<disk, watched, unmoved>>
    BY <1>5 DEF TouchLock, Shape
  <2> QED
    BY <2>1 DEF Shape, unmoved, reload, disk
<1>6. CASE BeginRewrite(r)
  <2>1. /\ events' \subseteq {"repository", "lock", "db"} /\ updates' \in 0..MaxUpdates
        /\ UNCHANGED <<dir, watched, unmoved>>
    BY <1>1, <1>2, <1>6 DEF BeginRewrite
  <2>2. r \in dir /\ \E c \in Catalogues : db' = [db EXCEPT ![r] = Torn(c)]
    BY <1>6 DEF BeginRewrite
  <2>3. /\ db' \in [Repo -> {NoFile} \cup {Torn(c) : c \in Catalogues}
                                    \cup {Whole(c) : c \in Catalogues}]
        /\ \A x \in Repo \ dir : db'[x] = NoFile
    BY <2>2 DEF Shape
  <2> QED
    BY <2>1, <2>3 DEF Shape, unmoved, reload
<1>7. CASE FinishRewrite(r)
  <2>1. /\ events' \subseteq {"repository", "lock", "db"}
        /\ UNCHANGED <<dir, updates, watched, unmoved>>
    BY <1>1, <1>7 DEF FinishRewrite
  <2>2. db[r].st = "torn" /\ db' = [db EXCEPT ![r] = Whole(db[r].rows)]
    BY <1>7 DEF FinishRewrite
  <2>3. PICK c \in Catalogues : db[r] = Torn(c)
    BY <2>2 DEF Shape, NoFile, Whole, Torn
  <2>4. r \in dir /\ db' = [db EXCEPT ![r] = Whole(c)]
    <3>1. db[r].rows = c
      BY <2>3 DEF Torn
    <3>2. db[r] # NoFile
      BY <2>2 DEF NoFile
    <3> QED
      BY <2>2, <3>1, <3>2 DEF Shape
  <2>5. /\ db' \in [Repo -> {NoFile} \cup {Torn(x) : x \in Catalogues}
                                    \cup {Whole(x) : x \in Catalogues}]
        /\ \A x \in Repo \ dir : db'[x] = NoFile
    BY <2>4 DEF Shape
  <2> QED
    BY <2>1, <2>5 DEF Shape, unmoved, reload
<1>8. CASE RemoveRepository(r)
  <2>1. /\ events' \subseteq {"repository", "lock", "db"} /\ updates' \in 0..MaxUpdates
        /\ dir' = dir \ {r} /\ watched' = watched \ {r} /\ UNCHANGED unmoved
    BY <1>1, <1>2, <1>8 DEF RemoveRepository
  <2>2. db' = [db EXCEPT ![r] = NoFile]
    BY <1>8 DEF RemoveRepository
  <2>3. /\ db' \in [Repo -> {NoFile} \cup {Torn(c) : c \in Catalogues}
                                    \cup {Whole(c) : c \in Catalogues}]
        /\ \A x \in Repo \ dir' : db'[x] = NoFile
    BY <2>1, <2>2 DEF Shape
  <2> QED
    BY <2>1, <2>3 DEF Shape, unmoved, reload
<1> QED
  BY <1>3, <1>4, <1>5, <1>6, <1>7, <1>8

(***************************************************************************)
(* A reload's steps keep to the files that were listed and to rows that    *)
(* can be used.                                                            *)
(***************************************************************************)
LEMMA ReloadShape ==
  ASSUME Shape, History, Merging, Reload
  PROVE  Shape' /\ History'
<1> USE DEF quiet, disk, ka
<1>0. ASSUME Fault \/ UNCHANGED faults
      PROVE  faults' \in 0..MaxFaults
  BY <1>0, CatalogueAssumption DEF Fault, Shape
<1>fails. ASSUME ReloadFails, UNCHANGED quiet, faults' \in 0..MaxFaults
          PROVE  Shape' /\ History'
  <2>1. <<>> \in Seq(Repo) /\ Len(<<>>) = 0
    OBVIOUS
  <2>2. Nothing \in Snapshot /\ [r \in Repo |-> Nothing] \in [Repo -> Contents]
    BY DEF Nothing, Snapshot, Contents
  <2>3. /\ paths' = <<>> /\ next' = 1 /\ sources' = {} /\ merged' = Nothing
        /\ read' = [r \in Repo |-> Nothing]
        /\ pc' \in {"rewatch", "dead"} /\ UNCHANGED <<rows, quiet>>
    BY <1>fails DEF ReloadFails, Return
  <2> QED
    BY <1>fails, <2>1, <2>2, <2>3 DEF Shape, History
<1>1. Nothing \in Snapshot /\ Nothing \in Contents /\ [r \in Repo |-> Nothing] \in [Repo -> Contents]
  BY DEF Nothing, Snapshot, Contents
<1>2. ASSUME ListDatabases
      PROVE  Shape' /\ History'
  <2>1. PICK found \in SUBSET HasDatabase :
          \/ ReloadFails
          \/ /\ paths' \in repositoryDatabases(found) /\ pc' = "sources"
             /\ UNCHANGED <<rows, next, sources, merged, read>>
    BY <1>2 DEF ListDatabases
  <2>2. UNCHANGED quiet /\ faults' \in 0..MaxFaults
    BY <1>0, <1>2 DEF ListDatabases
  <2>3. CASE ReloadFails
    BY <1>fails, <2>2, <2>3
  <2>4. CASE /\ paths' \in repositoryDatabases(found) /\ pc' = "sources"
             /\ UNCHANGED <<rows, next, sources, merged, read>>
    <3>1. paths' \in Seq(Repo) /\ Len(paths') \in Nat
      BY <2>4, DatabasesListed DEF Shape
    <3>2. next' \in 1..(Len(paths') + 1)
      BY <1>2, <2>4, <3>1 DEF ListDatabases, Merging
    <3> QED
      BY <2>2, <2>4, <3>1, <3>2 DEF Shape, History
  <2> QED
    BY <2>1, <2>3, <2>4
<1>3. ASSUME loadRepositorySource
      PROVE  Shape' /\ History'
  <2>1. paths[next] \in Repo /\ next' \in 1..(Len(paths) + 1)
    BY <1>3, LenProperties, ElementOfSeq DEF loadRepositorySource, Shape
  <2>2. sources' \subseteq Repo /\ UNCHANGED <<rows, pc, paths, merged, read, quiet>>
    BY <1>3, <2>1 DEF loadRepositorySource, Shape
  <2>3. faults' \in 0..MaxFaults
    BY <1>0, <1>3 DEF loadRepositorySource, errors
  <2> QED
    BY <2>1, <2>2, <2>3 DEF Shape, History
<1>4. ASSUME OrderPaths
      PROVE  Shape' /\ History'
  <2>1. paths' \in Seq(Repo) /\ Len(paths') \in Nat /\ next' \in 1..(Len(paths') + 1)
    BY <1>4, OrderedPaths DEF OrderPaths, Shape
  <2>2. pc' = "rows" /\ UNCHANGED <<rows, sources, merged, read, quiet, faults>>
    BY <1>4 DEF OrderPaths, errors
  <2> QED
    BY <2>1, <2>2 DEF Shape, History
<1>5. ASSUME loadRepositoryDatabase
      PROVE  Shape' /\ History'
  <2>1. paths[next] \in Repo /\ next + 1 \in 1..(Len(paths) + 1)
    BY <1>5, LenProperties, ElementOfSeq DEF loadRepositoryDatabase, Shape
  <2>2. UNCHANGED quiet /\ faults' \in 0..MaxFaults
    BY <1>0, <1>5 DEF loadRepositoryDatabase, errors
  <2>3. CASE ReloadFails
    BY <1>fails, <2>2, <2>3
  <2>4. CASE /\ \E c \in Query(db[paths[next]]) :
                  /\ merged' = FirstWins(merged, Verified(c))
                  /\ read' = [read EXCEPT ![paths[next]] = c]
             /\ next' = next + 1 /\ UNCHANGED <<rows, pc, paths, sources>>
    <3>1. PICK c \in Query(db[paths[next]]) :
             /\ merged' = FirstWins(merged, Verified(c))
             /\ read' = [read EXCEPT ![paths[next]] = c]
      BY <2>4
    <3>2. c \in Contents /\ Verified(c) \in Snapshot
      BY <2>1, <3>1, QueryReads
    <3>3. merged' \in Snapshot /\ read' \in [Repo -> Contents]
      BY <3>1, <3>2 DEF FirstWins, Snapshot, Shape, History
    <3> QED
      BY <2>1, <2>2, <2>4, <3>3 DEF Shape, History
  <2> QED
    BY <1>5, <2>3, <2>4 DEF loadRepositoryDatabase
<1>6. ASSUME Swap
      PROVE  Shape' /\ History'
  <2>1. /\ rows' = merged /\ pc' \in {"rewatch", "watch"}
        /\ paths' = <<>> /\ next' = 1 /\ sources' = {} /\ merged' = Nothing
        /\ read' = [r \in Repo |-> Nothing] /\ UNCHANGED <<quiet, faults>>
    BY <1>6 DEF Swap, Return, errors
  <2>2. <<>> \in Seq(Repo) /\ Len(<<>>) = 0
    OBVIOUS
  <2> QED
    BY <1>1, <2>1, <2>2 DEF Shape, History
<1> QED
  BY <1>2, <1>3, <1>4, <1>5, <1>6 DEF Reload

(***************************************************************************)
(* The watcher's and the keep-alive's steps leave the files and a reload's *)
(* progress alone.                                                         *)
(***************************************************************************)
LEMMA LoopShape ==
  ASSUME Shape, Loop \/ Settle \/ Announce
  PROVE  /\ Shape'
         /\ UNCHANGED <<disk, rows, paths, next, sources, merged, read, basis, missed, erred>>
<1> USE DEF disk, reload, watcher, ka, errors
<1>0. ASSUME Fault \/ UNCHANGED faults
      PROVE  faults' \in 0..MaxFaults
  BY <1>0, CatalogueAssumption DEF Fault, Shape
<1>1. CASE WatcherStart \/ Rewatch
  <2>1. watched' \subseteq dir \cup {Root} /\ faults' \in 0..MaxFaults
    BY <1>0, <1>1 DEF WatcherStart, Rewatch, addWatches, addWatchesFails, Tree, Shape
  <2> QED
    BY <1>1, <2>1 DEF WatcherStart, Rewatch, Shape
<1>2. CASE \E e \in events : HandleEvent(e)
  BY <1>2 DEF HandleEvent, Shape
<1>3. CASE Fire
  BY <1>3 DEF Fire, Shape
<1>4. CASE Settle
  BY <1>4 DEF Settle, Shape
<1>5. CASE Announce
  <2>1. faults' \in 0..MaxFaults
    BY <1>0, <1>5 DEF Announce
  <2> QED
    BY <1>5, <2>1 DEF Announce, Shape
<1> QED
  BY <1>1, <1>2, <1>3, <1>4, <1>5 DEF Loop

(***************************************************************************)
(* The Booleans, with the Boolean-valued variables in Zenon's hands.       *)
(***************************************************************************)
LEMMA BooleansStep ==
  ASSUME Booleans, [Next]_vars
  PROVE  Booleans'
<1> USE DEF disk, reload, watcher, ka, errors, quiet, unmoved
<1>1. CASE Pkg
  <2>1. UNCHANGED <<ok, changed, erred, unwatched, unsent>>
    BY <1>1, Zenon DEF Pkg, EnableRepository, TouchLock, BeginRewrite, FinishRewrite,
                       RemoveRepository
  <2>2. missed' = TRUE \/ missed' = missed
    BY <1>1, Zenon DEF Pkg, EnableRepository, TouchLock, BeginRewrite, FinishRewrite,
                       RemoveRepository, Notify
  <2> QED
    BY <2>1, <2>2, Zenon DEF Booleans
<1>2. CASE Reload
  <2>1. (ok' = TRUE \/ ok' = FALSE \/ ok' = ok) /\ UNCHANGED <<changed, unwatched, unsent>>
    BY <1>2, Zenon DEF Reload, ListDatabases, loadRepositorySource, OrderPaths,
                       loadRepositoryDatabase, Swap, ReloadFails
  <2>2. missed' = FALSE \/ missed' = missed
    BY <1>2, Zenon DEF Reload, ListDatabases, loadRepositorySource, OrderPaths,
                       loadRepositoryDatabase, Swap
  <2>3. erred' = TRUE \/ erred' = FALSE \/ erred' = erred
    BY <1>2, Zenon DEF Reload, ListDatabases, loadRepositorySource, OrderPaths,
                       loadRepositoryDatabase, Swap
  <2> QED
    BY <2>1, <2>2, <2>3, Zenon DEF Booleans
<1>3. CASE Loop \/ Settle \/ Announce
  <2>1. UNCHANGED <<ok, missed, erred>>
    BY <1>3, Zenon DEF Loop, WatcherStart, HandleEvent, Fire, Rewatch, Settle, Announce
  <2>2. changed' = TRUE \/ changed' = FALSE \/ changed' = changed \/ changed' = (changed \/ ok)
    BY <1>3, Zenon DEF Loop, WatcherStart, HandleEvent, Fire, Rewatch, Settle, Announce
  <2>3. unwatched' = TRUE \/ unwatched' = FALSE \/ unwatched' = unwatched
    BY <1>3, Zenon DEF Loop, WatcherStart, HandleEvent, Fire, Rewatch, Settle, Announce,
                       addWatches, addWatchesFails
  <2>4. unsent' = TRUE \/ unsent' = FALSE \/ unsent' = unsent
    BY <1>3, Zenon DEF Loop, WatcherStart, HandleEvent, Fire, Rewatch, Settle, Announce
  <2> QED
    BY <2>1, <2>2, <2>3, <2>4, Zenon DEF Booleans
<1>4. CASE Exited \/ UNCHANGED vars
  BY <1>4, Zenon DEF Exited, vars, Booleans
<1> QED
  BY <1>1, <1>2, <1>3, <1>4, Zenon DEF Next

-----------------------------------------------------------------------------
(* The merge. *)

(***************************************************************************)
(* A step that leaves a reload's progress alone leaves the merge.          *)
(***************************************************************************)
LEMMA MergeUntouched ==
  ASSUME Merging, MergeIsOwnFirst,
         UNCHANGED <<rows, paths, next, sources, merged, read, basis>>,
         pc' = pc \/ {pc, pc'} \cap {"sources", "rows"} = {}
  PROVE  Merging' /\ MergeIsOwnFirst'
<1>1. UNCHANGED Passed /\ \A a, b : Before(a, b)' <=> Before(a, b)
  BY DEF Passed, Before
<1>2. Merging'
  BY <1>1 DEF Merging
<1>3. MergeIsOwnFirst'
  BY DEF MergeIsOwnFirst
<1> QED
  BY <1>2, <1>3

(***************************************************************************)
(* Reading the next file: a row that is merged already comes from a file   *)
(* before it, and one that is not can only come from it.                   *)
(***************************************************************************)
LEMMA MergeOne ==
  ASSUME Shape, History, Merging, pc = "rows", next <= Len(paths),
         NEW c \in Query(db[paths[next]]),
         merged' = FirstWins(merged, Verified(c)),
         read' = [read EXCEPT ![paths[next]] = c],
         next' = next + 1, UNCHANGED <<pc, paths, sources>>
  PROVE  Merging'
<1> DEFINE p == paths[next]
<1>1. /\ p \in Repo /\ Len(paths) \in Nat /\ next \in 1..Len(paths)
      /\ \A i \in 1..Len(paths) : paths[i] \in Repo
  BY LenProperties, ElementOfSeq DEF Shape
<1>2. c \in Contents
  BY <1>1, QueryReads
<1>3. \A a, b : Before(a, b)' <=> Before(a, b)
  BY DEF Before
<1>4. /\ Passed' = Passed \cup {p}
      /\ \A h \in Passed : h \in Repo /\ Before(h, p) /\ h # p
  <2>1. 1..(next' - 1) = 1..(next - 1) \cup {next}
    BY <1>1
  <2>2. Passed' = Passed \cup {p}
    BY <2>1 DEF Passed
  <2>3. \A h \in Passed : h \in Repo /\ Before(h, p)
    BY <1>1 DEF Passed, Merging
  <2>4. ~Before(p, p)
    <3>1. p \in Nat
      BY <1>1, CatalogueAssumption
    <3>2. ~(p < p)
      BY <3>1
    <3> QED
      BY <3>2, Zenon DEF Before
  <2> QED
    BY <2>2, <2>3, <2>4
<1>5. \A r \in Repo : read'[r] = IF r = p THEN c ELSE read[r]
  BY <1>1 DEF History
<1>6. ASSUME NEW nv \in NameVersion
      PROVE  \/ merged'[nv] = None /\ \A r \in Repo : read'[r][nv] \notin Build
             \/ \E h \in Passed' :
                  /\ read'[h][nv] \in Build /\ merged'[nv] = read'[h][nv]
                  /\ \A r \in Repo : read'[r][nv] \in Build => r = h \/ Before(h, r)
  <2> HIDE DEF p
  <2>1. merged'[nv] = IF merged[nv] # None THEN merged[nv]
                      ELSE IF c[nv] \in Build THEN c[nv] ELSE None
    BY DEF FirstWins, Verified
  <2>2. CASE merged[nv] = None /\ \A r \in Repo : read[r][nv] \notin Build
    <3>1. CASE c[nv] \in Build
      BY <1>1, <1>4, <1>5, <2>1, <2>2, <3>1
    <3>2. CASE c[nv] \notin Build
      BY <1>5, <2>1, <2>2, <3>2
    <3> QED
      BY <3>1, <3>2
  <2>3. CASE \E h \in Passed :
                /\ read[h][nv] \in Build /\ merged[nv] = read[h][nv]
                /\ \A r \in Repo : read[r][nv] \in Build => r = h \/ Before(h, r)
    <3>1. PICK h \in Passed :
                /\ read[h][nv] \in Build /\ merged[nv] = read[h][nv]
                /\ \A r \in Repo : read[r][nv] \in Build => r = h \/ Before(h, r)
      BY <2>3
    <3>2. h \in Passed' /\ h \in Repo /\ h # p /\ Before(h, p)
      BY <1>4
    <3>3. read'[h][nv] = read[h][nv] /\ merged'[nv] = read[h][nv]
      BY <1>5, <2>1, <3>1, <3>2, CatalogueAssumption
    <3> QED
      BY <1>5, <3>1, <3>2, <3>3
  <2> QED
    BY <2>2, <2>3 DEF Merging
<1> QED
  BY <1>3, <1>6 DEF Merging

(***************************************************************************)
(* When every file is read, the merge is the preferred rows of what was    *)
(* read.                                                                   *)
(***************************************************************************)
LEMMA MergeDone ==
  ASSUME Shape, History, Merging, pc = "rows"
  PROVE  merged = Preferred(read, sources)
<1>1. ASSUME NEW nv \in NameVersion
      PROVE  merged[nv] = Preferred(read, sources)[nv]
  <2>1. CASE merged[nv] = None /\ \A r \in Repo : read[r][nv] \notin Build
    BY <2>1 DEF Preferred
  <2>2. CASE \E h \in Passed :
                /\ read[h][nv] \in Build /\ merged[nv] = read[h][nv]
                /\ \A r \in Repo : read[r][nv] \in Build => r = h \/ Before(h, r)
    <3>1. Passed \subseteq Repo
      BY LenProperties, ElementOfSeq DEF Passed, Shape
    <3> QED
      BY <2>2, <3>1, FirstIsPreferred
  <2> QED
    BY <2>1, <2>2 DEF Merging
<1> QED
  BY <1>1 DEF Shape, Snapshot, Preferred

(***************************************************************************)
(* Every step: only a finished reload replaces the snapshot.               *)
(***************************************************************************)
LEMMA MergeStep ==
  ASSUME Shape, History, Merging, MergeIsOwnFirst, [Next]_vars
  PROVE  Merging' /\ MergeIsOwnFirst'
<1>1. CASE Pkg
  BY <1>1, PkgShape, MergeUntouched DEF unmoved, reload
<1>2. CASE Reload
  <2>1. CASE ListDatabases
    <3>1. /\ pc' # "rows" /\ merged' = Nothing /\ read' = [r \in Repo |-> Nothing]
          /\ next' = 1 /\ sources' = {} /\ UNCHANGED <<rows, basis>>
      BY <2>1 DEF ListDatabases, ReloadFails, Return, Merging
    <3>2. MergeIsOwnFirst'
      BY <3>1 DEF MergeIsOwnFirst
    <3> QED
      BY <3>1, <3>2 DEF Merging
  <2>2. CASE loadRepositorySource
    <3>1. pc = "sources" /\ UNCHANGED <<rows, pc, merged, read, basis>>
      BY <2>2 DEF loadRepositorySource
    <3>2. MergeIsOwnFirst'
      BY <3>1 DEF MergeIsOwnFirst
    <3> QED
      BY <3>1, <3>2 DEF Merging
  <2>3. CASE OrderPaths
    <3>1. /\ pc = "sources" /\ pc' = "rows"
          /\ paths' \in ownCatalogueFirst(paths, sources)
          /\ UNCHANGED <<rows, sources, merged, read, basis>>
      BY <2>3 DEF OrderPaths
    <3>2. \A i, j \in 1..Len(paths') : i < j => Before(paths'[i], paths'[j])
      BY <3>1, OrderedPaths DEF Shape
    <3>3. \A a, b : Before(a, b)' <=> Before(a, b)
      BY <3>1 DEF Before
    <3>4. \A nv \in NameVersion :
            merged'[nv] = None /\ \A r \in Repo : read'[r][nv] \notin Build
      BY <3>1, CatalogueAssumption DEF Merging, Nothing
    <3>5. MergeIsOwnFirst'
      BY <3>1 DEF MergeIsOwnFirst
    <3> QED
      BY <3>1, <3>2, <3>3, <3>4, <3>5 DEF Merging
  <2>4. CASE loadRepositoryDatabase
    <3>1. UNCHANGED <<rows, basis>>
      BY <2>4 DEF loadRepositoryDatabase, ReloadFails
    <3>2. MergeIsOwnFirst'
      BY <3>1 DEF MergeIsOwnFirst
    <3>3. CASE ReloadFails
      BY <3>2, <3>3 DEF Merging, ReloadFails, Return
    <3>4. CASE /\ \E c \in Query(db[paths[next]]) :
                    /\ merged' = FirstWins(merged, Verified(c))
                    /\ read' = [read EXCEPT ![paths[next]] = c]
               /\ next' = next + 1 /\ UNCHANGED <<pc, paths, sources>>
      <4>1. pc = "rows" /\ next <= Len(paths)
        BY <2>4 DEF loadRepositoryDatabase
      <4> QED
        BY <3>2, <3>4, <4>1, MergeOne
    <3> QED
      BY <2>4, <3>3, <3>4 DEF loadRepositoryDatabase
  <2>5. CASE Swap
    <3>1. /\ rows' = merged /\ pc' \in {"rewatch", "watch"} /\ pc = "rows"
          /\ basis' = Preferred(read, sources) /\ Return
      BY <2>5 DEF Swap
    <3>2. MergeIsOwnFirst'
      BY <3>1, MergeDone DEF MergeIsOwnFirst
    <3> QED
      BY <3>1, <3>2 DEF Merging, Return
  <2> QED
    BY <1>2, <2>1, <2>2, <2>3, <2>4, <2>5 DEF Reload
<1>3. CASE Loop \/ Settle \/ Announce
  <2>1. pc' = pc \/ {pc, pc'} \cap {"sources", "rows"} = {}
    BY <1>3 DEF Loop, WatcherStart, HandleEvent, Fire, Rewatch, Settle, Announce, reload
  <2> QED
    BY <1>3, <2>1, LoopShape, MergeUntouched
<1>4. CASE Exited \/ UNCHANGED vars
  BY <1>4, MergeUntouched DEF Exited, vars, reload
<1> QED
  BY <1>1, <1>2, <1>3, <1>4 DEF Next

-----------------------------------------------------------------------------
(* The watcher's duties. *)

(***************************************************************************)
(* A change to a directory that is watched is an event, and one to a       *)
(* directory that is not is a missed one.                                  *)
(***************************************************************************)
LEMMA PkgEndsQuiet ==
  ASSUME Shape, Pkg
  PROVE  (UNCHANGED disk /\ (Quiet' => Quiet)) \/ ~Quiet'
<1>1. ASSUME NEW d, NEW name \in {"repository", "db"}, Notify(d, name)
      PROVE  ~Quiet'
  BY <1>1 DEF Notify, Quiet
<1>2. PICK r \in Repo : \/ EnableRepository(r) \/ TouchLock(r) \/ BeginRewrite(r)
                        \/ FinishRewrite(r) \/ RemoveRepository(r)
  BY DEF Pkg
<1>3. CASE TouchLock(r)
  BY <1>3 DEF TouchLock, Quiet, disk, unmoved, errors
<1>4. CASE EnableRepository(r) \/ BeginRewrite(r) \/ FinishRewrite(r) \/ RemoveRepository(r)
  BY <1>1, <1>4 DEF EnableRepository, BeginRewrite, FinishRewrite, RemoveRepository
<1> QED
  BY <1>2, <1>3, <1>4

(***************************************************************************)
(* With the files and a reload's progress alone, so is what is current.    *)
(***************************************************************************)
LEMMA CurrentUntouched ==
  ASSUME Current, UNCHANGED <<dir, db, rows, paths, next, sources, read>>,
         Quiet' => Quiet,
         \/ pc' = pc
         \/ pc \in {"watch", "rewatch", "select"} /\ pc' = "select"
         \/ pc' \in {"list", "dead"}
  PROVE  Current'
<1>1. UNCHANGED Passed
  BY DEF Passed
<1>2. Fresh => Fresh'
  <2>1. [r \in Repo |-> db'[r].rows] = [r \in Repo |-> db[r].rows]
    OBVIOUS
  <2>2. Preferred([r \in Repo |-> db'[r].rows], Repo) = Preferred([r \in Repo |-> db[r].rows], Repo)
    BY <2>1
  <2> QED
    BY <2>2 DEF Fresh
<1> QED
  BY <1>1, <1>2 DEF Current

(***************************************************************************)
(* Every step of a reload that is not disturbed reads what is there.       *)
(***************************************************************************)
LEMMA ReloadCurrent ==
  ASSUME Shape, History, Merging, Current, Reload
  PROVE  Current'
<1> USE DEF quiet, disk, errors
<1>1. \A r \in Repo : /\ db[r].st \in {"none", "torn", "whole"}
                      /\ r \notin dir => db[r].st = "none"
                      /\ db[r].st = "none" => db[r].rows = Nothing
  BY DEF Shape, NoFile, Torn, Whole
<1>2. /\ Len(paths) \in Nat /\ next \in 1..(Len(paths) + 1)
      /\ \A i \in 1..Len(paths) : paths[i] \in Repo
  BY LenProperties, ElementOfSeq DEF Shape
<1>3. ASSUME ListDatabases, Quiet'
      PROVE  Current'
  <2>1. /\ \A r \in Repo : db[r].st # "torn"
        /\ UNCHANGED <<rows, dir, db>> /\ pc = "list"
        /\ \/ HasDatabase = {} /\ pc' \in {"rewatch", "dead"}
           \/ /\ paths' \in repositoryDatabases(HasDatabase) /\ pc' = "sources"
              /\ UNCHANGED <<next, sources>>
    BY <1>3 DEF ListDatabases, ReloadFails, Quiet
  <2>2. CASE paths' \in repositoryDatabases(HasDatabase) /\ pc' = "sources"
             /\ UNCHANGED <<next, sources>>
    <3>1. \A r : r \in HasDatabase <=> \E i \in 1..Len(paths') : paths'[i] = r
      BY <2>2, DatabasesListed DEF Shape
    <3>2. Passed' = {} /\ sources' = {}
      BY <2>1, <2>2 DEF Passed, Merging
    <3>3. \A r \in Repo : r \in HasDatabase <=> db'[r].st = "whole"
      BY <1>1, <2>1 DEF HasDatabase
    <3> QED
      BY <2>2, <3>1, <3>2, <3>3 DEF Current
  <2>3. CASE HasDatabase = {} /\ pc' \in {"rewatch", "dead"}
    <3>1. \A r \in Repo : db[r].st # "whole"
      BY <1>1, <2>3 DEF HasDatabase
    <3>2. Fresh'
      BY <2>1, <3>1 DEF Fresh
    <3> QED
      BY <2>3, <3>2 DEF Current
  <2> QED
    BY <2>1, <2>2, <2>3
<1>4. ASSUME loadRepositorySource, Quiet'
      PROVE  Current'
  <2>1. /\ pc = "sources" /\ UNCHANGED <<db, pc, paths>> /\ next' = next + 1
        /\ next \in 1..Len(paths) /\ Quiet
    BY <1>2, <1>4 DEF loadRepositorySource, Quiet
  <2>2. db[paths[next]].st = "whole"
    BY <1>2, <2>1 DEF Current
  <2>3. sources' = sources \cup {paths[next]}
    BY <1>4, <2>2 DEF loadRepositorySource, Quiet
  <2>4. Passed' = Passed \cup {paths[next]}
    <3>1. 1..(next' - 1) = 1..(next - 1) \cup {next}
      BY <2>1
    <3> QED
      BY <2>1, <3>1 DEF Passed
  <2> QED
    BY <2>1, <2>3, <2>4 DEF Current
<1>5. ASSUME OrderPaths, Quiet'
      PROVE  Current'
  <2>1. /\ pc = "sources" /\ pc' = "rows" /\ paths' \in ownCatalogueFirst(paths, sources)
        /\ next' = 1 /\ UNCHANGED <<db, sources, read>> /\ next = Len(paths) + 1 /\ Quiet
    BY <1>2, <1>5 DEF OrderPaths, Quiet
  <2>2. \A r : (\E i \in 1..Len(paths) : paths[i] = r) <=> \E i \in 1..Len(paths') : paths'[i] = r
    BY <2>1, OrderedPaths DEF Shape
  <2>3. \A i \in 1..Len(paths) : paths[i] \in sources
    BY <1>2, <2>1 DEF Current, Passed
  <2>4. \A i \in 1..Len(paths') : paths'[i] \in sources'
    BY <2>1, <2>2, <2>3
  <2>5. Passed' = {}
    BY <2>1 DEF Passed
  <2>6. \A r \in Repo : read'[r] = Nothing
    BY <2>1 DEF Merging
  <2> QED
    BY <2>1, <2>2, <2>4, <2>5, <2>6 DEF Current
<1>6. ASSUME loadRepositoryDatabase, Quiet'
      PROVE  Current'
  <2>1. /\ pc = "rows" /\ UNCHANGED db
        /\ next \in 1..Len(paths) /\ Quiet
    BY <1>2, <1>6 DEF loadRepositoryDatabase, Quiet
  <2>2. paths[next] \in Repo /\ db[paths[next]].st = "whole"
    BY <1>2, <2>1 DEF Current
  <2>3. PICK c \in Query(db[paths[next]]) :
            /\ read' = [read EXCEPT ![paths[next]] = c] /\ next' = next + 1
            /\ UNCHANGED <<pc, paths, sources>>
    BY <1>6, <2>2 DEF loadRepositoryDatabase, Quiet
  <2>4. c = db[paths[next]].rows
    BY <2>2, <2>3, QueryReads
  <2>5. Passed' = Passed \cup {paths[next]}
    <3>1. 1..(next' - 1) = 1..(next - 1) \cup {next}
      BY <2>1, <2>3
    <3> QED
      BY <2>1, <2>3, <3>1 DEF Passed
  <2>6. \A r \in Repo : read'[r] = IF r \in Passed' THEN db[r].rows ELSE Nothing
    BY <2>1, <2>2, <2>3, <2>4, <2>5 DEF Current, History
  <2> QED
    BY <2>1, <2>3, <2>6 DEF Current
<1>7. ASSUME Swap, Quiet'
      PROVE  Current'
  <2>1. /\ pc = "rows" /\ next = Len(paths) + 1 /\ rows' = merged
        /\ pc' \in {"rewatch", "watch"} /\ UNCHANGED db /\ Quiet
    BY <1>2, <1>7 DEF Swap, Quiet
  <2>2. \A r \in Repo : r \in Passed <=> db[r].st = "whole"
    BY <1>2, <2>1 DEF Current, Passed
  <2>3. read = [r \in Repo |-> db[r].rows]
    <3>1. \A r \in Repo : read[r] = db[r].rows
      BY <1>1, <2>1, <2>2 DEF Current, Quiet
    <3> QED
      BY <3>1 DEF History
  <2>4. \A r \in Repo : db[r].st = "whole" => r \in sources
    BY <2>1 DEF Current
  <2>5. ASSUME NEW nv \in NameVersion, NEW r \in Repo, read[r][nv] \in Build
        PROVE  r \in sources
    BY <1>1, <2>1, <2>3, <2>4, <2>5, CatalogueAssumption DEF Nothing, Quiet
  <2>6. Preferred(read, sources) = Preferred(read, Repo)
    <3>1. \A nv \in NameVersion :
            {r \in Repo : read[r][nv] \in Build} \cap Ours \cap sources
              = {r \in Repo : read[r][nv] \in Build} \cap Ours \cap Repo
      BY <2>5
    <3> QED
      BY <3>1 DEF Preferred
  <2>7. rows' = Preferred([r \in Repo |-> db'[r].rows], Repo)
    BY <2>1, <2>3, <2>6, MergeDone
  <2>8. Fresh'
    <3>1. \A r \in Repo : db'[r].st # "torn"
      BY <1>7 DEF Quiet
    <3> QED
      BY <2>1, <2>7, <3>1 DEF Fresh, Preferred
  <2> QED
    BY <2>1, <2>8 DEF Current
<1>8. ~Quiet' => Current'
  BY DEF Current
<1> QED
  BY <1>3, <1>4, <1>5, <1>6, <1>7, <1>8 DEF Reload

(***************************************************************************)
(* Every step: a change, an event handled or a timer run out ends the      *)
(* quiet until a reload begins.                                            *)
(***************************************************************************)
LEMMA CurrentStep ==
  ASSUME Shape, History, Merging, Current, [Next]_vars
  PROVE  Current'
<1>1. CASE Pkg
  <2>1. UNCHANGED <<rows, reload>>
    BY <1>1, PkgShape DEF unmoved
  <2>2. CASE ~Quiet'
    BY <2>2 DEF Current
  <2>3. CASE UNCHANGED disk /\ (Quiet' => Quiet)
    BY <2>1, <2>3, CurrentUntouched DEF reload, disk
  <2> QED
    BY <1>1, <2>2, <2>3, PkgEndsQuiet
<1>2. CASE Reload
  BY <1>2, ReloadCurrent
<1>3. CASE Loop \/ Settle \/ Announce
  <2>1. UNCHANGED <<disk, rows, paths, next, sources, merged, read, basis, missed, erred>>
    BY <1>3, LoopShape
  <2>2. CASE \E e \in events : HandleEvent(e)
    <3>1. UNCHANGED pc /\ (Quiet' => Quiet)
      BY <2>1, <2>2 DEF HandleEvent, Quiet, reload, disk
    <3> QED
      BY <2>1, <3>1, CurrentUntouched DEF disk
  <2>3. CASE WatcherStart \/ Rewatch
    <3>1. pc \in {"watch", "rewatch"} /\ pc' \in {"select", "dead"} /\ (Quiet' => Quiet)
      BY <2>1, <2>3 DEF WatcherStart, Rewatch, Quiet, disk
    <3> QED
      BY <2>1, <3>1, CurrentUntouched DEF disk
  <2>4. CASE Fire
    BY <2>4 DEF Fire, Current
  <2>5. CASE Settle
    BY <2>5 DEF Settle, Current, Quiet
  <2>6. CASE Announce
    <3>1. UNCHANGED pc /\ (Quiet' => Quiet)
      BY <2>1, <2>6 DEF Announce, Quiet, reload, disk, watcher
    <3> QED
      BY <2>1, <3>1, CurrentUntouched DEF disk
  <2> QED
    BY <1>3, <2>2, <2>3, <2>4, <2>5, <2>6 DEF Loop
<1>4. CASE Exited \/ UNCHANGED vars
  <2>1. UNCHANGED <<disk, rows, reload, watcher, missed, erred>>
    BY <1>4 DEF Exited, vars, errors
  <2>2. Quiet' => Quiet
    BY <2>1 DEF Quiet, disk, watcher
  <2> QED
    BY <2>1, <2>2, CurrentUntouched DEF reload, disk
<1> QED
  BY <1>1, <1>2, <1>3, <1>4 DEF Next

(***************************************************************************)
(* pkg's steps: a directory that comes is an event once the root is        *)
(* watched, and one that goes takes its watch along.                       *)
(***************************************************************************)
LEMMA PkgFollowed ==
  ASSUME Shape, Followed, Pkg
  PROVE  Followed'
<1> USE DEF Root, Tree
<1>1. UNCHANGED unmoved
  BY PkgShape
<1>2. UNCHANGED <<rows, pc, timer, ok, unwatched, changed, filtered, unsent>>
  BY <1>1 DEF unmoved, reload, ka
<1>3. ASSUME NEW d, NEW name, Notify(d, name)
      PROVE  "repository" \in events => "repository" \in events'
  BY <1>3 DEF Notify
<1>4. PICK r \in Repo : \/ EnableRepository(r) \/ TouchLock(r) \/ BeginRewrite(r)
                        \/ FinishRewrite(r) \/ RemoveRepository(r)
  BY DEF Pkg
<1>5. CASE EnableRepository(r) \/ RemoveRepository(r)
  <2>1. Notify(Root, "repository") /\ (watched' = watched \/ watched' = watched \ {r}) /\ r # Root
    BY <1>5, CatalogueAssumption DEF EnableRepository, RemoveRepository
  <2>2. Started' <=> Started
    BY <2>1 DEF Started
  <2>3. Started => "repository" \in events'
    BY <2>1 DEF Notify, Started
  <2> QED
    BY <1>2, <2>2, <2>3 DEF Followed
<1>6. CASE TouchLock(r) \/ BeginRewrite(r) \/ FinishRewrite(r)
  <2>1. UNCHANGED <<dir, watched>> /\ ("repository" \in events => "repository" \in events')
    BY <1>3, <1>6 DEF TouchLock, BeginRewrite, FinishRewrite, disk
  <2> QED
    BY <1>2, <2>1 DEF Followed, Started
<1> QED
  BY <1>4, <1>5, <1>6

(***************************************************************************)
(* A reload leads to the watches, whatever comes of it, and a new snapshot *)
(* to an announce.                                                         *)
(***************************************************************************)
LEMMA ReloadFollowed ==
  ASSUME Shape, Followed, Reload
  PROVE  Followed'
<1> USE DEF Tree
<1>1. UNCHANGED <<dir, watched, events, timer, unwatched, changed, filtered, unsent>>
  BY DEF Reload, ListDatabases, loadRepositorySource, OrderPaths, loadRepositoryDatabase,
         Swap, quiet, disk, ka
<1>2. Started' <=> Started
  BY <1>1 DEF Started
<1>3. CASE Swap
  <2>1. ok' /\ pc' = IF Started THEN "rewatch" ELSE "watch"
    BY <1>3 DEF Swap
  <2> QED
    BY <1>1, <1>2, <2>1 DEF Followed
<1>4. CASE UNCHANGED rows /\ pc \in {"list", "rows"} /\ pc' = IF Started THEN "rewatch" ELSE "dead"
  BY <1>1, <1>2, <1>4 DEF Followed
<1>5. CASE UNCHANGED rows /\ pc \in {"list", "sources", "rows"} /\ pc' \in {"sources", "rows"}
  BY <1>1, <1>2, <1>5 DEF Followed
<1> QED
  BY <1>3, <1>4, <1>5 DEF Reload, ListDatabases, loadRepositorySource, OrderPaths,
       loadRepositoryDatabase, ReloadFails

(***************************************************************************)
(* Every step.                                                             *)
(***************************************************************************)
LEMMA FollowedStep ==
  ASSUME Shape, Followed, [Next]_vars
  PROVE  Followed'
<1> USE DEF Tree, ka, watcher
<1>1. CASE Pkg
  BY <1>1, PkgFollowed
<1>2. CASE Reload
  BY <1>2, ReloadFollowed
<1>3. CASE WatcherStart \/ Rewatch
  <2>1. watched' = Tree' \/ unwatched'
    BY <1>3, Zenon DEF WatcherStart, Rewatch, addWatches, addWatchesFails, disk
  <2>2. pc' = "select" => Root \in watched'
    BY <1>3 DEF WatcherStart, Rewatch, addWatches, addWatchesFails, Followed, Started
  <2>3. /\ UNCHANGED <<rows, filtered, unsent>> /\ pc \in {"watch", "rewatch"}
        /\ pc' = "dead" \/ (pc' = "select" /\ (pc = "watch" \/ changed \/ ok => changed'))
    BY <1>3 DEF WatcherStart, Rewatch
  <2> QED
    BY <2>1, <2>2, <2>3 DEF Followed, Started
<1>4. CASE \E e \in events : HandleEvent(e)
  <2>1. PICK e \in events : HandleEvent(e)
    BY <1>4
  <2>2. /\ UNCHANGED <<dir, rows, pc, watched, ok, unwatched, changed, filtered, unsent>>
        /\ events' = events \ {e} /\ timer' = IF e = "lock" THEN timer ELSE "armed"
    BY <2>1 DEF HandleEvent, disk, reload
  <2> QED
    BY <2>2 DEF Followed, Started
<1>5. CASE Fire
  <2>1. pc = "select" /\ pc' = "list" /\ UNCHANGED <<rows, changed, filtered, unsent>>
    BY <1>5 DEF Fire
  <2> QED
    BY <2>1 DEF Followed
<1>6. CASE Settle
  <2>1. timer' = "due" /\ UNCHANGED <<dir, rows, pc, watched, ok, changed, filtered, unsent>>
    BY <1>6 DEF Settle, disk, reload
  <2> QED
    BY <2>1 DEF Followed, Started
<1>7. CASE Announce
  <2>1. /\ filtered' = rows' \/ unsent'
        /\ UNCHANGED <<dir, pc, watched, events, timer, unwatched>>
    BY <1>7 DEF Announce, disk, reload, watcher
  <2> QED
    BY <2>1 DEF Followed, Started
<1>8. CASE Exited \/ UNCHANGED vars
  <2>1. UNCHANGED <<dir, rows, pc, watched, events, timer, ok, unwatched, changed, filtered,
                    unsent>>
    BY <1>8 DEF Exited, vars, disk, reload, watcher
  <2> QED
    BY <2>1 DEF Followed, Started
<1> QED
  BY <1>1, <1>2, <1>3, <1>4, <1>5, <1>6, <1>7, <1>8 DEF Next, Loop

-----------------------------------------------------------------------------
(* The inductive invariant and the theorems. *)

Inv == Shape /\ Booleans /\ History /\ Merging /\ MergeIsOwnFirst /\ Current /\ Followed

(***************************************************************************)
(* It holds when the daemon starts, with an empty snapshot.                *)
(***************************************************************************)
LEMMA InvInit == Init => Inv
<1> SUFFICES ASSUME Init PROVE Inv
  OBVIOUS
<1>1. Nothing \in Snapshot /\ Nothing \in Contents
  BY DEF Nothing, Snapshot, Contents
<1>2. Shape
  <2>1. <<>> \in Seq(Repo) /\ Len(<<>>) = 0
    OBVIOUS
  <2> QED
    BY <1>1, <2>1, CatalogueAssumption DEF Init, Shape
<1>3. Booleans
  BY Zenon DEF Init, Booleans
<1>4. History
  BY <1>1 DEF Init, History
<1>5. Merging /\ Current
  BY DEF Init, Merging, Current
<1>6. MergeIsOwnFirst
  BY DEF Init, MergeIsOwnFirst
<1>7. Followed
  BY DEF Init, Followed, Started
<1> QED
  BY <1>2, <1>3, <1>4, <1>5, <1>6, <1>7 DEF Inv

(***************************************************************************)
(* Every step keeps it.                                                    *)
(***************************************************************************)
LEMMA InvNext == Inv /\ [Next]_vars => Inv'
<1> SUFFICES ASSUME Inv, [Next]_vars PROVE Inv'
  OBVIOUS
<1>1. Shape /\ Booleans /\ History /\ Merging /\ MergeIsOwnFirst /\ Current /\ Followed
  BY DEF Inv
<1>2. Shape' /\ History'
  <2>1. CASE Pkg
    BY <1>1, <2>1, PkgShape DEF History, unmoved, reload
  <2>2. CASE Reload
    BY <1>1, <2>2, ReloadShape
  <2>3. CASE Loop \/ Settle \/ Announce
    BY <1>1, <2>3, LoopShape DEF History
  <2>4. CASE Exited \/ UNCHANGED vars
    BY <1>1, <2>4 DEF Exited, vars, disk, reload, watcher, ka, errors, Shape, History
  <2> QED
    BY <2>1, <2>2, <2>3, <2>4 DEF Next
<1>3. Booleans'
  BY <1>1, BooleansStep
<1>4. Merging' /\ MergeIsOwnFirst'
  BY <1>1, MergeStep
<1>5. Current'
  BY <1>1, CurrentStep
<1>6. Followed'
  BY <1>1, FollowedStep
<1> QED
  BY <1>2, <1>3, <1>4, <1>5, <1>6 DEF Inv

(***************************************************************************)
(* The inductive invariant holds in every reachable state.                 *)
(***************************************************************************)
LEMMA InvAlways == Spec => []Inv
  BY InvInit, InvNext, PTL DEF Spec

(***************************************************************************)
(* The state of the catalogue and its watcher is well formed: the snapshot *)
(* holds only rows that can be verified, a reload never runs past the      *)
(* files it listed, and only directories that exist are watched.           *)
(***************************************************************************)
THEOREM TypeCorrect == Spec => []TypeOK
<1>1. Inv => TypeOK
  BY DEF Inv, Shape, Booleans, TypeOK
<1> QED
  BY <1>1, InvAlways, PTL

(***************************************************************************)
(* Reload: the snapshot is always the preferred rows, the daemon's own     *)
(* first and then by path, of the files one successful reload read.        *)
(***************************************************************************)
THEOREM SnapshotIsOwnFirst == Spec => []MergeIsOwnFirst
<1>1. Inv => MergeIsOwnFirst
  BY DEF Inv
<1> QED
  BY <1>1, InvAlways, PTL

(***************************************************************************)
(* RepoWatcher: with pkg done and every event handled, the snapshot is     *)
(* what a reload would read, unless a change fell where no watch was or an *)
(* I/O or database error met the latest reload.                            *)
(***************************************************************************)
THEOREM SnapshotIsCurrentUnlessMissedOrErred == Spec => []StaleOnlyIfMissedOrErred
<1>1. Inv => StaleOnlyIfMissedOrErred
  BY DEF Inv, Current, Quiet, StaleOnlyIfMissedOrErred, CaughtUp, Idle
<1> QED
  BY <1>1, InvAlways, PTL

(***************************************************************************)
(* reloadNow: once no reload is owed every repository is watched, unless   *)
(* the latest addWatches failed; and unless an announce is pending or the  *)
(* latest one failed, the announced list was filtered with the snapshot in *)
(* force.                                                                  *)
(***************************************************************************)
THEOREM ReloadsAreFollowedUp == Spec => []ReloadFollowedUp
<1>1. Inv => ReloadFollowedUp
  BY DEF Inv, Followed, ReloadFollowedUp, Idle
<1> QED
  BY <1>1, InvAlways, PTL
=============================================================================
