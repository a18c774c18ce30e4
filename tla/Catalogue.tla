----------------------------- MODULE Catalogue -----------------------------
(***************************************************************************)
(* The repository catalogue: how Repositories.Reload builds its snapshot   *)
(* from pkg's database files (internal/daemon/repodb.go), and how          *)
(* RepoWatcher decides when to (internal/daemon/repowatcher.go), while pkg *)
(* creates, rewrites and removes those files.                              *)
(*                                                                         *)
(* A reload reads one file at a time and pkg may act between any two       *)
(* reads.  Time is abstracted to the one fact the settle delay rests on:   *)
(* a rewrite in a watched directory produces events closer together than   *)
(* the delay, so the timer cannot run out in the middle of one.            *)
(***************************************************************************)
EXTENDS Naturals, Sequences, FiniteSetsExt

CONSTANTS Repo,         \* repositories, numbered in path order
          Ours,         \* those whose recorded source is a loopback URL
          NameVersion,
          Build,        \* a checksum and size a row can hold
          None,         \* no row
          Malformed,    \* a row whose checksum or size cannot be used
          Present,      \* repositories whose directory exists when the daemon starts
          Catalogues,   \* what pkg can write into a db file
          PkgAtStart,   \* whether pkg may be active before the watches are set
          MaxUpdates,   \* bound on rewrites and removals
          MaxFaults     \* bound on I/O, database and network errors

ASSUME CatalogueAssumption ==
  /\ Repo \subseteq Nat \ {0} /\ IsFiniteSet(Repo)
  /\ Ours \subseteq Repo /\ Present \subseteq Repo
  /\ {None, Malformed} \cap Build = {} /\ None # Malformed
  /\ Catalogues \subseteq [NameVersion -> Build \cup {None, Malformed}]
  /\ PkgAtStart \in BOOLEAN
  /\ MaxUpdates \in Nat /\ MaxFaults \in Nat

VARIABLES dir,      \* which repository directories exist
          db,       \* db[r]: r's db file
          rows,     \* Repositories.rows, the snapshot
          \* Repositories.Reload in progress:
          pc, paths, next, sources, merged,
          \* RepoWatcher:
          watched, events, timer, ok,
          changed,  \* the keep-alive's nudge channel
          filtered, \* the snapshot the tracker's list was filtered with
          updates, faults,
          \* History, read by the properties only:
          read,     \* what this reload has read of each file
          basis,    \* the rows preferred of all that the latest successful reload read
          missed,   \* a change the watcher was not told of, since a reload began
          erred,    \* an I/O or database error met the latest reload, not pkg at work
          unwatched, \* the latest addWatches failed
          unsent    \* the latest announce failed

disk    == <<dir, db, updates>>
reload  == <<pc, paths, next, sources, merged, read>>
watcher == <<watched, events, timer, ok, unwatched>>
ka      == <<changed, filtered, unsent>>
errors  == <<erred, faults>>
vars    == <<disk, rows, reload, watcher, ka, basis, missed, errors>>

-----------------------------------------------------------------------------
Root == 0

Nothing == [nv \in NameVersion |-> None]

(* A db file: not there, being rewritten, or complete. *)
NoFile    == [st |-> "none",  rows |-> Nothing]
Torn(c)   == [st |-> "torn",  rows |-> c]
Whole(c)  == [st |-> "whole", rows |-> c]

Started == Root \in watched

(***************************************************************************)
(* The rows of one file that loadRepositoryDatabase keeps.                 *)
(***************************************************************************)
BugKeepsMalformed(c) == c

Verified(c) == [nv \in NameVersion |-> IF c[nv] \in Build THEN c[nv] ELSE None]

(***************************************************************************)
(* What a query can return: a complete file's rows, or, of a file being    *)
(* rewritten, whichever of them are already there.                         *)
(***************************************************************************)
Query(f) ==
  IF f.st = "whole" THEN {f.rows}
  ELSE {[nv \in NameVersion |-> IF nv \in s THEN f.rows[nv] ELSE None] :
          s \in SUBSET NameVersion}

(* The ways to list a set. *)
Listings(S) == {s \in [1..Cardinality(S) -> S] : Range(s) = S}

(***************************************************************************)
(* ownCatalogueFirst: the catalogues known to be this daemon's, then the   *)
(* others, each in path order.  There is one such list.                    *)
(***************************************************************************)
BugPathOrder(ps, src) == {ps}

ownCatalogueFirst(ps, src) ==
  LET ours == Ours \cap src
  IN {q \in Listings(Range(ps)) :
        \A i, j \in DOMAIN q : i < j =>
          \/ q[i] \in ours /\ q[j] \notin ours
          \/ (q[i] \in ours <=> q[j] \in ours) /\ q[i] < q[j]}

(***************************************************************************)
(* Reload's merge of one file: a row already there stays.                  *)
(***************************************************************************)
BugLastWins(m, c) ==
  [nv \in NameVersion |-> IF c[nv] # None THEN c[nv] ELSE m[nv]]

FirstWins(m, c) ==
  [nv \in NameVersion |-> IF m[nv] # None THEN m[nv] ELSE c[nv]]

(***************************************************************************)
(* repositoryDatabases: the directories found to hold a db file, in path   *)
(* order.  A file whose status cannot be read is taken not to be there.    *)
(***************************************************************************)
HasDatabase == {r \in dir : db[r].st # "none"}

repositoryDatabases(found) ==
  {ps \in Listings(found) : \A i, j \in DOMAIN ps : i < j => ps[i] < ps[j]}

(***************************************************************************)
(* ADR-010's rule, stated without an order of merging: of the catalogues   *)
(* that hold a usable row, this daemon's own come before the others, and   *)
(* among equals the first in path order decides.                           *)
(***************************************************************************)
Preferred(cs, src) ==
  [nv \in NameVersion |->
     LET holders == {r \in Repo : cs[r][nv] \in Build}
         mine    == holders \cap Ours \cap src
         pool    == IF mine # {} THEN mine ELSE holders
     IN IF pool = {} THEN None ELSE cs[Min(pool)][nv]]

-----------------------------------------------------------------------------
Init ==
  /\ dir = Present
  /\ db \in {f \in [Repo -> {NoFile} \cup {Whole(c) : c \in Catalogues}] :
               \A r \in Repo \ Present : f[r] = NoFile}
  /\ rows = Nothing
  /\ pc = "list" /\ paths = <<>> /\ next = 1 /\ sources = {} /\ merged = Nothing
  /\ watched = {} /\ events = {} /\ timer = "off" /\ ok = TRUE
  /\ changed = FALSE /\ filtered = Nothing
  /\ updates = 0 /\ faults = 0
  /\ read = [r \in Repo |-> Nothing]
  /\ basis = Nothing
  /\ missed = FALSE /\ erred = FALSE /\ unwatched = FALSE /\ unsent = FALSE

-----------------------------------------------------------------------------
(* pkg, an external program. *)

PkgMayAct == PkgAtStart \/ Started

(***************************************************************************)
(* A change to the entry `name' of directory d: an event if d is watched.  *)
(***************************************************************************)
Notify(d, name) ==
  IF d \in watched
  THEN events' = events \cup {name} /\ UNCHANGED missed
  ELSE missed' = TRUE /\ UNCHANGED events

unmoved == <<rows, reload, timer, ok, unwatched, ka, basis, errors>>

(* A repository is enabled: its directory comes before its catalogue. *)
EnableRepository(r) ==
  /\ PkgMayAct /\ r \notin dir
  /\ dir' = dir \cup {r}
  /\ Notify(Root, "repository")
  /\ UNCHANGED <<db, updates, watched, unmoved>>

(* pkg takes the lock, or stores meta.conf. *)
TouchLock(r) ==
  /\ PkgMayAct /\ r \in dir
  /\ events' = IF r \in watched THEN events \cup {"lock"} ELSE events
  /\ UNCHANGED <<disk, watched, missed, unmoved>>

(* The old file is renamed aside and a new one created. *)
BeginRewrite(r) ==
  /\ PkgMayAct /\ updates < MaxUpdates /\ updates' = updates + 1
  /\ r \in dir /\ db[r].st # "torn"
  /\ \E c \in Catalogues : db' = [db EXCEPT ![r] = Torn(c)]
  /\ Notify(r, "db")
  /\ UNCHANGED <<dir, watched, unmoved>>

(* The last write. *)
FinishRewrite(r) ==
  /\ PkgMayAct /\ db[r].st = "torn"
  /\ db' = [db EXCEPT ![r] = Whole(@.rows)]
  /\ Notify(r, "db")
  /\ UNCHANGED <<dir, updates, watched, unmoved>>

(* A repository is removed; the watch on its directory goes with it. *)
RemoveRepository(r) ==
  /\ PkgMayAct /\ updates < MaxUpdates /\ updates' = updates + 1
  /\ r \in dir /\ db[r].st # "torn"
  /\ dir' = dir \ {r}
  /\ db' = [db EXCEPT ![r] = NoFile]
  /\ watched' = watched \ {r}
  /\ Notify(Root, "repository")
  /\ UNCHANGED unmoved

Pkg == \E r \in Repo : \/ EnableRepository(r) \/ TouchLock(r) \/ BeginRewrite(r)
                       \/ FinishRewrite(r) \/ RemoveRepository(r)

-----------------------------------------------------------------------------
(* Repositories.Reload, one read at a time. *)

(* An error that is not pkg's doing. *)
Fault == faults < MaxFaults /\ faults' = faults + 1

(* Reload returns; its locals go with it. *)
Return == paths' = <<>> /\ next' = 1 /\ sources' = {} /\ merged' = Nothing
          /\ read' = [r \in Repo |-> Nothing]

(***************************************************************************)
(* An error before the swap.  Fatal at startup; afterwards the snapshot    *)
(* stays and reloadNow goes on to the watches.                             *)
(***************************************************************************)
BugEmptiesOnError ==
  /\ pc' = IF Started THEN "rewatch" ELSE "dead"
  /\ ok' = FALSE
  /\ rows' = merged
  /\ Return
  /\ UNCHANGED basis

ReloadFails ==
  /\ pc' = IF Started THEN "rewatch" ELSE "dead"
  /\ ok' = FALSE
  /\ Return
  /\ UNCHANGED <<rows, basis>>

quiet == <<disk, watched, events, timer, unwatched, ka>>

(***************************************************************************)
(* A directory that cannot be read ends the reload as one without a        *)
(* database does.                                                          *)
(***************************************************************************)
ListDatabases ==
  /\ pc = "list"
  /\ missed' = FALSE
  /\ \E found \in SUBSET HasDatabase :
       /\ \/ found = HasDatabase /\ erred' = FALSE /\ UNCHANGED faults
          \/ found # HasDatabase /\ erred' = TRUE /\ Fault
       /\ \/ found = {} /\ ReloadFails
          \/ /\ found # {}
             /\ paths' \in repositoryDatabases(found)
             /\ pc' = "sources"
             /\ UNCHANGED <<rows, next, sources, merged, read, ok, basis>>
  /\ UNCHANGED quiet

(***************************************************************************)
(* loadRepositorySource: an error is swallowed, and the catalogue stays    *)
(* where it is in path order.                                              *)
(***************************************************************************)
loadRepositorySource ==
  /\ pc = "sources" /\ next <= Len(paths)
  /\ LET f == db[paths[next]] IN
       \/ f.st # "none" /\ sources' = sources \cup {paths[next]} /\ UNCHANGED errors
       \/ f.st # "whole" /\ UNCHANGED <<sources, errors>>
       \/ f.st = "whole" /\ Fault /\ erred' = TRUE /\ UNCHANGED sources
  /\ next' = next + 1
  /\ UNCHANGED <<rows, pc, paths, merged, read, quiet, ok, basis, missed>>

OrderPaths ==
  /\ pc = "sources" /\ next > Len(paths)
  /\ paths' \in ownCatalogueFirst(paths, sources)
  /\ next' = 1 /\ pc' = "rows"
  /\ UNCHANGED <<rows, sources, merged, read, quiet, ok, basis, missed, errors>>

(***************************************************************************)
(* loadRepositoryDatabase and its merge; a file that cannot be opened or   *)
(* queried, whole or not, fails the whole reload.                          *)
(***************************************************************************)
loadRepositoryDatabase ==
  /\ pc = "rows" /\ next <= Len(paths)
  /\ LET f == db[paths[next]] IN
       \/ /\ f.st # "none"
          /\ \E c \in Query(f) :
               /\ merged' = FirstWins(merged, Verified(c))
               /\ read' = [read EXCEPT ![paths[next]] = c]
          /\ next' = next + 1
          /\ UNCHANGED <<rows, pc, paths, sources, ok, basis, errors>>
       \/ f.st # "whole" /\ ReloadFails /\ UNCHANGED errors
       \/ f.st = "whole" /\ ReloadFails /\ Fault /\ erred' = TRUE
  /\ UNCHANGED <<quiet, missed>>

Swap ==
  /\ pc = "rows" /\ next > Len(paths)
  /\ rows' = merged
  /\ basis' = Preferred(read, sources)
  /\ ok' = TRUE
  /\ Return
  /\ pc' = IF Started THEN "rewatch" ELSE "watch"
  /\ UNCHANGED <<quiet, missed, errors>>

-----------------------------------------------------------------------------
(* RepoWatcher. *)

(***************************************************************************)
(* addWatches: the root and every directory under it, in path order.  The  *)
(* first watch that cannot be added ends the walk; the watches set before  *)
(* stay.                                                                   *)
(***************************************************************************)
Tree == {Root} \cup dir

BugKeepsOldWatches ==
  /\ watched' = IF Started THEN {Root} \cup (watched \cap dir) ELSE Tree
  /\ unwatched' = FALSE

addWatches == watched' = Tree /\ unwatched' = FALSE

addWatchesFails ==
  /\ Fault
  /\ \E first \in Tree : watched' = watched \cup {d \in Tree : d < first}
  /\ unwatched' = TRUE

(***************************************************************************)
(* Start; without its watches the daemon does not start.  The keep-alive   *)
(* makes its first announce when it starts.                                *)
(***************************************************************************)
WatcherStart ==
  /\ pc = "watch"
  /\ \/ addWatches /\ pc' = "select" /\ changed' = TRUE /\ UNCHANGED faults
     \/ addWatchesFails /\ pc' = "dead" /\ UNCHANGED changed
  /\ UNCHANGED <<disk, rows, paths, next, sources, merged, read, events, timer, ok,
                 filtered, unsent, basis, missed, erred>>

(***************************************************************************)
(* loop: an event for a file the daemon never reads is dropped, any other  *)
(* installs a fresh timer, also in place of one that has run out already.  *)
(***************************************************************************)
BugIgnoresDb(e) ==
  /\ pc = "select" /\ e \in events
  /\ events' = events \ {e}
  /\ timer' = IF e = "db" THEN timer ELSE "armed"
  /\ UNCHANGED <<disk, rows, reload, watched, ok, unwatched, ka, basis, missed, errors>>

BugStopsTimer(e) ==
  /\ pc = "select" /\ e \in events
  /\ events' = events \ {e}
  /\ timer' = CASE e = "lock" -> timer [] timer = "off" -> "armed" [] OTHER -> "off"
  /\ UNCHANGED <<disk, rows, reload, watched, ok, unwatched, ka, basis, missed, errors>>

HandleEvent(e) ==
  /\ pc = "select" /\ e \in events
  /\ events' = events \ {e}
  /\ timer' = IF e = "lock" THEN timer ELSE "armed"
  /\ UNCHANGED <<disk, rows, reload, watched, ok, unwatched, ka, basis, missed, errors>>

(* The settle delay passes without an event. *)
Settle ==
  /\ timer = "armed"
  /\ \A r \in watched \cap Repo : db[r].st # "torn"
  /\ timer' = "due"
  /\ UNCHANGED <<disk, rows, reload, watched, events, ok, unwatched, ka, basis, missed,
                 errors>>

(* reloadNow: reload, ... *)
Fire ==
  /\ pc = "select" /\ timer = "due"
  /\ timer' = "off"
  /\ pc' = "list"
  /\ UNCHANGED <<disk, rows, paths, next, sources, merged, read, watched, events, ok,
                 unwatched, ka, basis, missed, errors>>

(* ... rebuild the watches whatever came of it, log it if that fails, and  *)
(* nudge if the reload succeeded.                                          *)
BugNudgesOnFailure ==
  /\ pc = "rewatch"
  /\ addWatches /\ UNCHANGED faults
  /\ changed' = (changed \/ ~ok)
  /\ pc' = "select"
  /\ UNCHANGED <<disk, rows, paths, next, sources, merged, read, events, timer, ok,
                 filtered, unsent, basis, missed, erred>>

Rewatch ==
  /\ pc = "rewatch"
  /\ (addWatches /\ UNCHANGED faults) \/ addWatchesFails
  /\ changed' = (changed \/ ok)
  /\ pc' = "select"
  /\ UNCHANGED <<disk, rows, paths, next, sources, merged, read, events, timer, ok,
                 filtered, unsent, basis, missed, erred>>

(***************************************************************************)
(* The keep-alive's announce, which filters the cache with the snapshot.   *)
(* It may fail, before the tracker has stored the list or after, and is    *)
(* not tried again.                                                        *)
(***************************************************************************)
Announce ==
  /\ changed
  /\ changed' = FALSE
  /\ \/ filtered' = rows /\ unsent' = FALSE /\ UNCHANGED faults
     \/ filtered' \in {filtered, rows} /\ unsent' = TRUE /\ Fault
  /\ UNCHANGED <<disk, rows, reload, watcher, basis, missed, erred>>

Reload == \/ ListDatabases \/ loadRepositorySource \/ OrderPaths
          \/ loadRepositoryDatabase \/ Swap

Loop == WatcherStart \/ (\E e \in events : HandleEvent(e)) \/ Fire \/ Rewatch

(* A daemon that could not open a catalogue or watch it has exited. *)
Exited == pc = "dead" /\ UNCHANGED vars

Next == Pkg \/ Reload \/ Loop \/ Settle \/ Announce \/ Exited

Spec == Init /\ [][Next]_vars

(***************************************************************************)
(* The watcher's goroutine runs and its select serves every case that      *)
(* stays ready, an undisturbed timer runs out, the keep-alive takes its    *)
(* nudge, and pkg finishes a rewrite it began.                             *)
(***************************************************************************)
Fairness ==
  /\ WF_vars(Reload) /\ WF_vars(WatcherStart \/ Rewatch)
  /\ WF_vars(Fire) /\ WF_vars(Settle)
  /\ \A e \in {"repository", "lock", "db"} : WF_vars(HandleEvent(e))
  /\ WF_vars(Announce)
  /\ \A r \in Repo : WF_vars(FinishRewrite(r))

FairSpec == Spec /\ Fairness

-----------------------------------------------------------------------------
(* Properties. *)

Snapshot == [NameVersion -> Build \cup {None}]

TypeOK ==
  /\ dir \subseteq Repo
  /\ db \in [Repo -> {NoFile} \cup {Torn(c) : c \in Catalogues}
                              \cup {Whole(c) : c \in Catalogues}]
  /\ \A r \in Repo \ dir : db[r] = NoFile
  /\ rows \in Snapshot /\ merged \in Snapshot /\ filtered \in Snapshot
  /\ pc \in {"list", "sources", "rows", "watch", "rewatch", "select", "dead"}
  /\ paths \in Seq(Repo) /\ next \in 1..(Len(paths) + 1)
  /\ sources \subseteq Repo
  /\ watched \subseteq dir \cup {Root}
  /\ events \subseteq {"repository", "lock", "db"}
  /\ timer \in {"off", "armed", "due"}
  /\ ok \in BOOLEAN /\ changed \in BOOLEAN /\ missed \in BOOLEAN
  /\ erred \in BOOLEAN /\ unwatched \in BOOLEAN /\ unsent \in BOOLEAN
  /\ updates \in 0..MaxUpdates /\ faults \in 0..MaxFaults

(***************************************************************************)
(* Reload: the snapshot is always the preferred rows of all the files that *)
(* one successful reload read, and never of some.                          *)
(***************************************************************************)
MergeIsOwnFirst == rows = basis

(***************************************************************************)
(* The snapshot is what a reload would read now.  With no complete file    *)
(* there is nothing to load, and the old snapshot is kept.                 *)
(***************************************************************************)
Fresh ==
  /\ \A r \in Repo : db[r].st # "torn"
  /\ (\E r \in Repo : db[r].st = "whole") =>
       rows = Preferred([r \in Repo |-> db[r].rows], Repo)

Idle ==
  /\ pc = "select" /\ timer = "off" /\ events = {}
  /\ \A r \in Repo : db[r].st # "torn"

(***************************************************************************)
(* ADR-008: with pkg done and every event handled, the snapshot is         *)
(* current.                                                                *)
(***************************************************************************)
CaughtUp == Idle => Fresh

(***************************************************************************)
(* reloadNow, addWatches: the snapshot can be left out of date only by a   *)
(* change that fell where no watch was, or by a latest reload that an I/O  *)
(* or database error met, which nothing tries again.  Never by a reload    *)
(* that failed because pkg was at work on a file, by events during a       *)
(* reload or by the order of events and timer.                             *)
(***************************************************************************)
StaleOnlyIfMissedOrErred == ~missed /\ ~erred => CaughtUp

(***************************************************************************)
(* reloadNow's two duties after the reload, whatever came of it: once no   *)
(* reload is owed, every repository that exists is watched, so its next    *)
(* update is noticed, unless the latest addWatches failed; and unless an   *)
(* announce is pending or the latest one failed, the tracker's list was    *)
(* filtered with the snapshot in force.                                    *)
(***************************************************************************)
ReloadFollowedUp ==
  /\ Idle /\ ~unwatched => watched = Tree
  /\ pc = "select" /\ ~changed /\ ~unsent => filtered = rows

(***************************************************************************)
(* loop: once pkg has stopped rewriting, the snapshot becomes current and  *)
(* stays so, unless a change was missed, an error met the latest reload or *)
(* the daemon never started.                                               *)
(***************************************************************************)
Settles == <>[](pc = "dead" \/ missed \/ erred \/ Fresh)
=============================================================================
