---------------------------- MODULE CacheWatcher ----------------------------
(***************************************************************************)
(* How the packages in pkg's cache become the announced list: the file     *)
(* watcher and the scan of internal/daemon/watcher.go, the size filter     *)
(* against the catalogue snapshot, the keep-alive that scans and posts,    *)
(* and the seed server's lookup (internal/daemon/cachesource.go), which    *)
(* reads the same directory by other names.                                *)
(*                                                                         *)
(* pkg's cache holds each package as a real file named after its checksum  *)
(* and a link with the plain name beside it.  A scan walks the directory   *)
(* entry by entry and pkg may act between any two.                         *)
(***************************************************************************)
EXTENDS Naturals, FiniteSets

CONSTANTS NameVersion,
          File,       \* real files; several can be builds of one package
          Of,         \* Of[f]: the name-version f's name parses to
          FullSize,   \* FullSize[f]: f's length once it is written
          None,
          Snapshots,  \* what the catalogue can expect of each package
          MaxChanges  \* bound on what pkg does to the cache and the catalogue

ASSUME CacheWatcherAssumption ==
  /\ Of \in [File -> NameVersion]
  /\ FullSize \in [File -> Nat \ {0, 1}]
  /\ None \notin File /\ None \notin Nat
  /\ Snapshots \subseteq [NameVersion -> Nat \cup {None}]
  /\ MaxChanges \in Nat

VARIABLES size,      \* size[f]: f's length, None if it does not exist
          link,      \* link[nv]: the file the plain name points to, or None
          expected,  \* ExpectedFileSizeBytes of the current snapshot
          owed,      \* a reload has swapped the snapshot and is yet to nudge
          events,    \* file events the watcher has not handled
          changed,   \* the nudge channel, buffered with room for one
          wpc, kpc,  \* where the watcher's loop and the keep-alive are
          mu,        \* who holds Watcher.mu
          todo,      \* entries the walk in progress has not come to
          pkgs,      \* Watcher.pkgs
          list,      \* the list the keep-alive is about to post
          announced, \* the list the tracker holds
          changes,
          \* History, read by the properties only:
          moved,     \* a file was renamed away since the keep-alive's latest scan began
          unsent     \* the latest announcement failed: its scan met an I/O error, or its post did

cache   == <<size, link, changes, moved>>
catalog == <<expected, owed>>
walk    == <<mu, todo, pkgs>>
ka      == <<kpc, list, announced, unsent>>
vars    == <<cache, catalog, events, changed, wpc, ka, walk>>

-----------------------------------------------------------------------------
Scanner == {"watcher", "keepalive"}

(* Entries of the cache directory. *)
RealFile(f) == [kind |-> "file", id |-> f]
PlainName(nv) == [kind |-> "link", id |-> nv]
Entry == [kind : {"file"}, id : File] \cup [kind : {"link"}, id : NameVersion]

Exists(e) == IF e.kind = "file" THEN size[e.id] # None ELSE link[e.id] # None

Partial == 1

(***************************************************************************)
(* SanityFilter: the candidates whose length is the expected one.  A name  *)
(* the snapshot does not know is dropped.  parsePackageName gives every    *)
(* file in this directory a name and a version.                            *)
(***************************************************************************)
BugNoSizeCheck(candidates) == {Of[c.file] : c \in candidates}

SanityFilter(candidates) ==
  {Of[c.file] : c \in {d \in candidates : d.size = expected[Of[d.file]]}}

(***************************************************************************)
(* CacheSource.Open: the plain name, followed to a regular file.           *)
(***************************************************************************)
Open(nv) == link[nv] # None /\ size[link[nv]] # None

-----------------------------------------------------------------------------
Init ==
  /\ size \in [File -> {None}] \cup {[f \in File |-> FullSize[f]]}
  /\ link = [nv \in NameVersion |->
               IF \E f \in File : Of[f] = nv /\ size[f] # None
               THEN CHOOSE f \in File : Of[f] = nv /\ size[f] # None ELSE None]
  /\ expected \in Snapshots /\ owed = FALSE
  /\ events = {} /\ changed = FALSE
  /\ wpc = "select" /\ kpc = "announce"
  /\ mu = "free" /\ todo = {} /\ pkgs = {}
  /\ list = {} /\ announced = {}
  /\ changes = 0 /\ moved = FALSE /\ unsent = FALSE

-----------------------------------------------------------------------------
(* pkg, an external program, and the events its changes cause. *)

Change ==
  /\ changes < MaxChanges /\ changes' = changes + 1
  /\ UNCHANGED <<catalog, changed, wpc, ka, walk>>

Notify(op, e) == events' = events \cup {[op |-> op, on |-> e]}

(* A file is created, written in pieces, or renamed into place complete. *)
CreateFile(f) ==
  /\ Change /\ size[f] = None
  /\ \E s \in {Partial, FullSize[f]} : size' = [size EXCEPT ![f] = s]
  /\ Notify("create", RealFile(f))
  /\ UNCHANGED <<link, moved>>

WriteFile(f) ==
  /\ Change /\ size[f] = Partial
  /\ size' = [size EXCEPT ![f] = FullSize[f]]
  /\ Notify("write", RealFile(f))
  /\ UNCHANGED <<link, moved>>

MakeLink(f) ==
  /\ Change /\ size[f] # None /\ link[Of[f]] # f
  /\ link' = [link EXCEPT ![Of[f]] = f]
  /\ Notify("create", PlainName(Of[f]))
  /\ UNCHANGED <<size, moved>>

RemoveFile(f) ==
  /\ Change /\ size[f] # None
  /\ size' = [size EXCEPT ![f] = None]
  /\ Notify("remove", RealFile(f))
  /\ UNCHANGED <<link, moved>>

RemoveLink(nv) ==
  /\ Change /\ link[nv] # None
  /\ link' = [link EXCEPT ![nv] = None]
  /\ Notify("remove", PlainName(nv))
  /\ UNCHANGED <<size, moved>>

MoveAway(f) ==
  /\ Change /\ size[f] # None
  /\ size' = [size EXCEPT ![f] = None]
  /\ Notify("rename", RealFile(f))
  /\ moved' = TRUE
  /\ UNCHANGED link

(***************************************************************************)
(* A catalogue reload swaps the snapshot, then nudges.                     *)
(***************************************************************************)
SwapSnapshot ==
  /\ ~owed
  /\ changes < MaxChanges /\ changes' = changes + 1
  /\ expected' \in Snapshots \ {expected}
  /\ owed' = TRUE
  /\ UNCHANGED <<size, link, moved, events, changed, wpc, ka, walk>>

BugNoReloadNudge ==
  /\ owed /\ owed' = FALSE
  /\ UNCHANGED <<cache, expected, events, changed, wpc, ka, walk>>

onReload ==
  /\ owed /\ owed' = FALSE
  /\ changed' = TRUE
  /\ UNCHANGED <<cache, expected, events, wpc, ka, walk>>

Pkg == \/ \E f \in File : \/ CreateFile(f) \/ WriteFile(f) \/ MakeLink(f)
                          \/ RemoveFile(f) \/ MoveAway(f)
       \/ \E nv \in NameVersion : RemoveLink(nv)
       \/ SwapSnapshot

-----------------------------------------------------------------------------
(* Watcher.Scan, an entry at a time. *)

(* What a scan's caller does with an error: the watcher and announce drop it. *)
ScanFailed(a) ==
  IF a = "watcher" THEN wpc' = "select" /\ UNCHANGED <<kpc, list>>
  ELSE kpc' = "select" /\ UNCHANGED <<wpc, list>>

(* ... and with a list: only the keep-alive posts it. *)
ScanDone(a, out) ==
  IF a = "watcher" THEN wpc' = "select" /\ UNCHANGED <<kpc, list>>
  ELSE kpc' = "post" /\ list' = out /\ UNCHANGED wpc

ScanPending(a) ==
  IF a = "watcher" THEN wpc = "scan" ELSE kpc = "announce"

(***************************************************************************)
(* Scan takes the lock and lists the directory.  pkgs is emptied when a    *)
(* scan ends rather than when the next begins: nothing reads it between.   *)
(***************************************************************************)
ScanStart(a) ==
  /\ ScanPending(a) /\ mu = "free"
  /\ mu' = a
  /\ todo' = {e \in Entry : Exists(e)}
  /\ pkgs' = {}
  /\ moved' = (moved /\ a = "watcher")
  /\ UNCHANGED <<size, link, changes, catalog, events, changed, wpc, ka>>

(***************************************************************************)
(* The walk's function: links are skipped; an entry that has gone since    *)
(* the directory was listed fails the scan.                                *)
(***************************************************************************)
BugFollowsLinks(a, e) ==
  /\ mu = a /\ e \in todo
  /\ \/ /\ Exists(e)
        /\ todo' = todo \ {e}
        /\ pkgs' = IF e.kind = "file" THEN pkgs
                   ELSE pkgs \cup {[file |-> link[e.id], size |-> size[link[e.id]]]}
        /\ UNCHANGED <<mu, wpc, kpc, list>>
     \/ /\ ~Exists(e)
        /\ mu' = "free" /\ todo' = {} /\ pkgs' = {}
        /\ ScanFailed(a)
  /\ UNCHANGED <<cache, catalog, events, changed, announced, unsent>>

ScanEntry(a, e) ==
  /\ mu = a /\ e \in todo
  /\ \/ /\ Exists(e)
        /\ todo' = todo \ {e}
        /\ pkgs' = IF e.kind = "link" THEN pkgs
                   ELSE pkgs \cup {[file |-> e.id, size |-> size[e.id]]}
        /\ UNCHANGED <<mu, wpc, kpc, list>>
     \/ /\ ~Exists(e)
        /\ mu' = "free" /\ todo' = {} /\ pkgs' = {}
        /\ ScanFailed(a)
  /\ UNCHANGED <<cache, catalog, events, changed, announced, unsent>>

(***************************************************************************)
(* Listing the directory or an entry's status fails with an I/O error.     *)
(***************************************************************************)
ScanError(a) ==
  /\ mu = a
  /\ mu' = "free" /\ todo' = {} /\ pkgs' = {}
  /\ ScanFailed(a)
  /\ unsent' = (unsent \/ a = "keepalive")
  /\ UNCHANGED <<cache, catalog, events, changed, announced>>

ScanEnd(a) ==
  /\ mu = a /\ todo = {}
  /\ mu' = "free" /\ todo' = {} /\ pkgs' = {}
  /\ ScanDone(a, SanityFilter(pkgs))
  /\ UNCHANGED <<cache, catalog, events, changed, announced, unsent>>

Scan(a) == ScanStart(a) \/ (\E e \in todo : ScanEntry(a, e)) \/ ScanError(a) \/ ScanEnd(a)

-----------------------------------------------------------------------------
(***************************************************************************)
(* loop and handleEvent.  A rename is not looked at.  A created or written *)
(* entry that is a link, or that has gone, is left; anything else nudges   *)
(* the keep-alive and rescans.                                             *)
(***************************************************************************)
Counts(ev) ==
  \/ ev.op = "remove"
  \/ ev.op \in {"create", "write"} /\ ev.on.kind = "file" /\ Exists(ev.on)

BugIgnoresWrites(ev) ==
  /\ wpc = "select" /\ ev \in events
  /\ events' = events \ {ev}
  /\ changed' = (changed \/ (Counts(ev) /\ ev.op # "write"))
  /\ wpc' = IF Counts(ev) THEN "scan" ELSE "select"
  /\ UNCHANGED <<cache, catalog, ka, walk>>

handleEvent(ev) ==
  /\ wpc = "select" /\ ev \in events
  /\ events' = events \ {ev}
  /\ changed' = (changed \/ Counts(ev))
  /\ wpc' = IF Counts(ev) THEN "scan" ELSE "select"
  /\ UNCHANGED <<cache, catalog, ka, walk>>

-----------------------------------------------------------------------------
(* The keep-alive: a nudge leads to a scan, and the scan's list is posted. *)

TakeNudge ==
  /\ kpc = "select" /\ changed
  /\ changed' = FALSE
  /\ kpc' = "announce"
  /\ UNCHANGED <<cache, catalog, events, wpc, list, announced, unsent, walk>>

BugDrainsNudges ==
  /\ kpc = "post"
  /\ announced' = list /\ unsent' = FALSE
  /\ kpc' = "select" /\ changed' = FALSE
  /\ UNCHANGED <<cache, catalog, events, wpc, list, walk>>

(***************************************************************************)
(* announce's second half.  A post that fails, before the tracker has      *)
(* stored the list or after, sends the loop back to its select all the     *)
(* same: nothing remembers to try again.                                   *)
(***************************************************************************)
Post ==
  /\ kpc = "post"
  /\ kpc' = "select"
  /\ \/ announced' = list /\ unsent' = FALSE
     \/ announced' \in {announced, list} /\ unsent' = TRUE
  /\ UNCHANGED <<cache, catalog, events, changed, wpc, list, walk>>

(***************************************************************************)
(* A peer asks for a package the tracker lists.  Not held: 404, and the    *)
(* seed server asks for a full re-announce.                                *)
(***************************************************************************)
PeerAsks(nv) ==
  /\ nv \in announced /\ ~Open(nv)
  /\ changed' = TRUE
  /\ UNCHANGED <<cache, catalog, events, wpc, ka, walk>>

KeepAlive == TakeNudge \/ Scan("keepalive") \/ Post

Next ==
  \/ Pkg \/ onReload
  \/ \E ev \in events : handleEvent(ev)
  \/ Scan("watcher")
  \/ KeepAlive
  \/ \E nv \in NameVersion : PeerAsks(nv)

Spec == Init /\ [][Next]_vars

(***************************************************************************)
(* The goroutines run: the lock is never held across a wait, and a select  *)
(* serves every case that stays ready.  No peer has to ask for anything.   *)
(***************************************************************************)
Fairness ==
  /\ WF_vars(onReload)
  /\ WF_vars(\E ev \in events : handleEvent(ev))
  /\ \A a \in Scanner : SF_vars(ScanStart(a)) /\ WF_vars(Scan(a))
  /\ WF_vars(TakeNudge) /\ WF_vars(Post)

FairSpec == Spec /\ Fairness

-----------------------------------------------------------------------------
(* Properties. *)

TypeOK ==
  /\ size \in [File -> Nat \cup {None}]
  /\ link \in [NameVersion -> File \cup {None}]
  /\ expected \in Snapshots /\ owed \in BOOLEAN
  /\ events \subseteq [op : {"create", "write", "remove", "rename"}, on : Entry]
  /\ changed \in BOOLEAN
  /\ wpc \in {"select", "scan"} /\ kpc \in {"select", "announce", "post"}
  /\ mu \in Scanner \cup {"free"}
  /\ todo \subseteq Entry
  /\ pkgs \subseteq [file : File, size : Nat]
  /\ list \subseteq NameVersion /\ announced \subseteq NameVersion
  /\ changes \in 0..MaxChanges /\ moved \in BOOLEAN /\ unsent \in BOOLEAN

(* What UC-05 says is to be advertised. *)
Listable ==
  {nv \in NameVersion : \E f \in File : Of[f] = nv /\ size[f] # None /\ size[f] = expected[nv]}

Idle ==
  /\ events = {} /\ ~owed /\ ~changed
  /\ wpc = "select" /\ kpc = "select"

(***************************************************************************)
(* handleEvent, Scan and the nudges: once every event has been handled and *)
(* the keep-alive is back in its select, the tracker's list is exactly the *)
(* packages whose files are complete by the current catalogue, whatever    *)
(* changed under the walks.  Two things excuse it: a file was renamed      *)
(* away, which raises no event that counts, or the latest announcement     *)
(* failed.  A scan that failed because pkg removed an entry under it is no *)
(* excuse: the removal's own event repairs it.                             *)
(***************************************************************************)
ListCurrent == Idle /\ ~moved /\ ~unsent => announced = Listable

(***************************************************************************)
(* UC-05's postcondition: when pkg leaves the cache alone, the announced   *)
(* list becomes current and stays so, with the same two exceptions.  UC-05 *)
(* step 7a promises a retry after a failed announcement, which announce    *)
(* does not make.                                                          *)
(***************************************************************************)
ListSettles == <>[](moved \/ unsent \/ announced = Listable)
=============================================================================
