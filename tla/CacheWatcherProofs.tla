------------------------- MODULE CacheWatcherProofs -------------------------
(***************************************************************************)
(* That the announced list follows the cache and the catalogue, for any    *)
(* packages, files and catalogues and any number of changes.               *)
(***************************************************************************)
EXTENDS CacheWatcher, TLAPS

(***************************************************************************)
(* The walk belongs to whoever holds the lock.                             *)
(***************************************************************************)
Holder ==
  /\ mu = "keepalive" => kpc = "announce"
  /\ mu = "watcher" => wpc = "scan"

(***************************************************************************)
(* Something will still bring the keep-alive to a scan that has not begun. *)
(* An event that no longer counts does not.                                *)
(***************************************************************************)
Pending ==
  \/ changed \/ owed
  \/ kpc = "announce" /\ mu # "keepalive"
  \/ \E ev \in events : Counts(ev)

(***************************************************************************)
(* The walk so far: everything it has left is there, and it has taken the  *)
(* files it has passed as they are.                                        *)
(***************************************************************************)
Walked ==
  /\ \A e \in todo : Exists(e)
  /\ pkgs \subseteq [file : File, size : Nat]
  /\ \A f \in File, n \in Nat :
       [file |-> f, size |-> n] \in pkgs <=> size[f] = n /\ RealFile(f) \notin todo

(***************************************************************************)
(* While nothing is pending, the keep-alive has seen everything: its walk, *)
(* the list it is about to post or the one it has posted is up to date,    *)
(* unless its latest announcement failed.                                  *)
(***************************************************************************)
Seen ==
  ~Pending /\ ~moved =>
    /\ kpc = "select" => announced = Listable \/ unsent
    /\ kpc = "post" => list = Listable
    /\ kpc = "announce" => Walked

-----------------------------------------------------------------------------
(* Types. *)

Shape ==
  /\ size \in [File -> Nat \cup {None}]
  /\ link \in [NameVersion -> File \cup {None}]
  /\ expected \in Snapshots
  /\ events \subseteq [op : {"create", "write", "remove", "rename"}, on : Entry]
  /\ wpc \in {"select", "scan"} /\ kpc \in {"select", "announce", "post"}
  /\ mu \in Scanner \cup {"free"}
  /\ todo \subseteq Entry
  /\ pkgs \subseteq [file : File, size : Nat]
  /\ list \subseteq NameVersion /\ announced \subseteq NameVersion
  /\ changes \in 0..MaxChanges

Flags == owed \in BOOLEAN /\ changed \in BOOLEAN /\ moved \in BOOLEAN /\ unsent \in BOOLEAN

(***************************************************************************)
(* pkg's steps, and a swapped snapshot.                                    *)
(***************************************************************************)
LEMMA PkgShape ==
  ASSUME Shape, Pkg
  PROVE  Shape' /\ UNCHANGED <<changed, wpc, kpc, list, announced, unsent, mu, todo, pkgs>>
<1> USE CacheWatcherAssumption DEF ka, walk, catalog
<1>0. ASSUME changes < MaxChanges, changes' = changes + 1
      PROVE  changes' \in 0..MaxChanges
  BY <1>0 DEF Shape
<1>1. ASSUME Change
      PROVE  /\ UNCHANGED <<changed, wpc, kpc, list, announced, unsent, mu, todo, pkgs, expected>>
             /\ changes' \in 0..MaxChanges
  BY <1>0, <1>1 DEF Change
<1>2. ASSUME NEW op \in {"create", "write", "remove", "rename"}, NEW e \in Entry, Notify(op, e)
      PROVE  events' \subseteq [op : {"create", "write", "remove", "rename"}, on : Entry]
  BY <1>2 DEF Notify, Shape
<1>3. /\ \A f \in File : RealFile(f) \in Entry
      /\ \A nv \in NameVersion : PlainName(nv) \in Entry
  BY DEF Entry, RealFile, PlainName
<1>4. ASSUME NEW f \in File, CreateFile(f)
      PROVE  Shape' /\ UNCHANGED <<changed, wpc, kpc, list, announced, unsent, mu, todo, pkgs>>
  <2>1. size' \in [File -> Nat \cup {None}] /\ UNCHANGED link
    BY <1>4 DEF CreateFile, Shape, Partial
  <2>2. Change /\ Notify("create", RealFile(f))
    BY <1>4 DEF CreateFile
  <2> QED
    BY <1>1, <1>2, <1>3, <2>1, <2>2 DEF Shape
<1>5. ASSUME NEW f \in File, WriteFile(f)
      PROVE  Shape' /\ UNCHANGED <<changed, wpc, kpc, list, announced, unsent, mu, todo, pkgs>>
  <2>1. size' \in [File -> Nat \cup {None}] /\ UNCHANGED link
    BY <1>5 DEF WriteFile, Shape
  <2>2. Change /\ Notify("write", RealFile(f))
    BY <1>5 DEF WriteFile
  <2> QED
    BY <1>1, <1>2, <1>3, <2>1, <2>2 DEF Shape
<1>6. ASSUME NEW f \in File, MakeLink(f)
      PROVE  Shape' /\ UNCHANGED <<changed, wpc, kpc, list, announced, unsent, mu, todo, pkgs>>
  <2>1. link' \in [NameVersion -> File \cup {None}] /\ UNCHANGED size
    BY <1>6 DEF MakeLink, Shape
  <2>2. Change /\ Notify("create", PlainName(Of[f])) /\ Of[f] \in NameVersion
    BY <1>6 DEF MakeLink
  <2> QED
    BY <1>1, <1>2, <1>3, <2>1, <2>2 DEF Shape
<1>7. ASSUME NEW f \in File, RemoveFile(f) \/ MoveAway(f)
      PROVE  Shape' /\ UNCHANGED <<changed, wpc, kpc, list, announced, unsent, mu, todo, pkgs>>
  <2>1. size' \in [File -> Nat \cup {None}] /\ UNCHANGED link
    BY <1>7 DEF RemoveFile, MoveAway, Shape
  <2>2. Change /\ (Notify("remove", RealFile(f)) \/ Notify("rename", RealFile(f)))
    BY <1>7 DEF RemoveFile, MoveAway
  <2> QED
    BY <1>1, <1>2, <1>3, <2>1, <2>2 DEF Shape
<1>8. ASSUME NEW nv \in NameVersion, RemoveLink(nv)
      PROVE  Shape' /\ UNCHANGED <<changed, wpc, kpc, list, announced, unsent, mu, todo, pkgs>>
  <2>1. link' \in [NameVersion -> File \cup {None}] /\ UNCHANGED size
    BY <1>8 DEF RemoveLink, Shape
  <2>2. Change /\ Notify("remove", PlainName(nv))
    BY <1>8 DEF RemoveLink
  <2> QED
    BY <1>1, <1>2, <1>3, <2>1, <2>2 DEF Shape
<1>9. CASE SwapSnapshot
  BY <1>0, <1>9 DEF SwapSnapshot, Shape
<1> QED
  BY <1>4, <1>5, <1>6, <1>7, <1>8, <1>9 DEF Pkg

(***************************************************************************)
(* What the filter lets through has a name.                                *)
(***************************************************************************)
LEMMA FilterNames ==
  ASSUME NEW candidates \in SUBSET [file : File, size : Nat]
  PROVE  SanityFilter(candidates) \subseteq NameVersion
BY CacheWatcherAssumption DEF SanityFilter

(***************************************************************************)
(* A scan's steps.                                                         *)
(***************************************************************************)
LEMMA ScanShape ==
  ASSUME Shape, Holder, NEW a \in Scanner, Scan(a)
  PROVE  Shape' /\ Holder' /\ UNCHANGED <<size, link, expected, owed, events, changed, announced>>
<1> USE DEF cache, catalog, ka
<1>1. CASE ScanStart(a)
  <2>1. UNCHANGED <<size, link, changes, expected, owed, events, changed, wpc, kpc, list, announced>>
    BY <1>1 DEF ScanStart
  <2>2. mu' = a /\ todo' \subseteq Entry /\ pkgs' = {} /\ ScanPending(a)
    BY <1>1 DEF ScanStart
  <2> QED
    BY <2>1, <2>2 DEF Shape, Holder, ScanPending, Scanner
<1>2. ASSUME NEW e \in todo, ScanEntry(a, e)
      PROVE  Shape' /\ Holder' /\ UNCHANGED <<size, link, expected, owed, events, changed, announced>>
  <2>1. UNCHANGED <<size, link, changes, expected, owed, events, changed, announced>> /\ mu = a
    BY <1>2 DEF ScanEntry
  <2>2. CASE /\ Exists(e) /\ todo' = todo \ {e} /\ UNCHANGED <<mu, wpc, kpc, list>>
             /\ pkgs' = IF e.kind = "link" THEN pkgs
                        ELSE pkgs \cup {[file |-> e.id, size |-> size[e.id]]}
    <3>1. e.kind # "link" => e.id \in File /\ size[e.id] \in Nat
      BY <2>2 DEF Shape, Entry, Exists
    <3>2. pkgs' \subseteq [file : File, size : Nat]
      BY <2>2, <3>1 DEF Shape
    <3> QED
      BY <2>1, <2>2, <3>2 DEF Shape, Holder
  <2>3. CASE mu' = "free" /\ todo' = {} /\ pkgs' = {} /\ ScanFailed(a)
    BY <2>1, <2>3 DEF Shape, Holder, ScanFailed, Scanner
  <2> QED
    BY <1>2, <2>2, <2>3 DEF ScanEntry
<1>3. CASE ScanEnd(a)
  <2>1. UNCHANGED <<size, link, changes, expected, owed, events, changed, announced>> /\ mu = a
    BY <1>3 DEF ScanEnd
  <2>2. mu' = "free" /\ todo' = {} /\ pkgs' = {} /\ ScanDone(a, SanityFilter(pkgs))
    BY <1>3 DEF ScanEnd
  <2>3. SanityFilter(pkgs) \subseteq NameVersion
    BY FilterNames DEF Shape
  <2> QED
    BY <2>1, <2>2, <2>3 DEF Shape, Holder, ScanDone, Scanner
<1>4. CASE ScanError(a)
  <2>1. UNCHANGED <<size, link, changes, expected, owed, events, changed, announced>>
    BY <1>4 DEF ScanError
  <2>2. mu = a /\ mu' = "free" /\ todo' = {} /\ pkgs' = {} /\ ScanFailed(a)
    BY <1>4 DEF ScanError
  <2> QED
    BY <2>1, <2>2 DEF Shape, Holder, ScanFailed, Scanner
<1> QED
  BY <1>1, <1>2, <1>3, <1>4 DEF Scan

(***************************************************************************)
(* Every step.                                                             *)
(***************************************************************************)
LEMMA ShapeStep ==
  ASSUME Shape, Holder, [Next]_vars
  PROVE  Shape' /\ Holder'
<1> USE DEF cache, catalog, ka, walk
<1>1. CASE Pkg
  BY <1>1, PkgShape DEF Holder
<1>2. CASE onReload
  BY <1>2 DEF onReload, Shape, Holder
<1>3. ASSUME NEW ev \in events, handleEvent(ev)
      PROVE  Shape' /\ Holder'
  BY <1>3 DEF handleEvent, Shape, Holder
<1>4. CASE Scan("watcher") \/ Scan("keepalive")
  BY <1>4, ScanShape DEF Scanner
<1>5. CASE TakeNudge
  BY <1>5 DEF TakeNudge, Shape, Holder
<1>6. CASE Post
  BY <1>6 DEF Post, Shape, Holder
<1>7. ASSUME NEW nv \in NameVersion, PeerAsks(nv)
      PROVE  Shape' /\ Holder'
  BY <1>7 DEF PeerAsks, Shape, Holder
<1>8. CASE UNCHANGED vars
  BY <1>8 DEF vars, Shape, Holder
<1> QED
  BY <1>1, <1>2, <1>3, <1>4, <1>5, <1>6, <1>7, <1>8 DEF Next, KeepAlive

(***************************************************************************)
(* The Booleans, with the Boolean-valued variables in Zenon's hands.       *)
(***************************************************************************)
LEMMA FlagsStep ==
  ASSUME Flags, [Next]_vars
  PROVE  Flags'
<1> USE DEF Flags, cache, catalog, ka, walk
<1>1. ASSUME NEW f \in File, CreateFile(f) \/ WriteFile(f) \/ MakeLink(f) \/ RemoveFile(f)
      PROVE  UNCHANGED <<owed, changed, moved, unsent>>
  BY <1>1 DEF CreateFile, WriteFile, MakeLink, RemoveFile, Change
<1>2. ASSUME NEW f \in File, MoveAway(f)
      PROVE  Flags'
  BY <1>2 DEF MoveAway, Change
<1>3. ASSUME NEW nv \in NameVersion, RemoveLink(nv)
      PROVE  UNCHANGED <<owed, changed, moved, unsent>>
  BY <1>3 DEF RemoveLink, Change
<1>4. CASE SwapSnapshot
  BY <1>4 DEF SwapSnapshot
<1>5. CASE onReload
  BY <1>5 DEF onReload
<1>6. ASSUME NEW ev \in events, handleEvent(ev)
      PROVE  Flags'
  BY <1>6 DEF handleEvent
<1>7. ASSUME NEW a, Scan(a)
      PROVE  Flags'
  <2>1. CASE ScanStart(a)
    BY <2>1 DEF ScanStart
  <2>2. ASSUME NEW e \in todo, ScanEntry(a, e)
        PROVE  UNCHANGED <<owed, changed, moved, unsent>>
    BY <2>2 DEF ScanEntry
  <2>3. CASE ScanEnd(a)
    BY <2>3 DEF ScanEnd
  <2>4. CASE ScanError(a)
    BY <2>4 DEF ScanError
  <2> QED
    BY <1>7, <2>1, <2>2, <2>3, <2>4 DEF Scan
<1>8. CASE TakeNudge
  BY <1>8 DEF TakeNudge
<1>9. CASE Post
  BY <1>9 DEF Post
<1>10. ASSUME NEW nv \in NameVersion, PeerAsks(nv)
       PROVE  Flags'
  BY <1>10 DEF PeerAsks
<1>11. CASE UNCHANGED vars
  BY <1>11 DEF vars
<1> QED
  BY <1>1, <1>2, <1>3, <1>4, <1>5, <1>6, <1>7, <1>8, <1>9, <1>10, <1>11 DEF Next, KeepAlive, Pkg

-----------------------------------------------------------------------------
(* Nothing is slept through. *)

(***************************************************************************)
(* Only the start of the keep-alive's own scan settles what was pending:   *)
(* after any other step that leaves nothing pending, nothing was pending   *)
(* before, no file and no expected size has changed, and nothing has gone. *)
(***************************************************************************)
LEMMA Quiet ==
  ASSUME Shape, Holder, [Next]_vars, ~ ScanStart("keepalive"), ~Pending', ~moved'
  PROVE  /\ ~Pending /\ ~moved
         /\ UNCHANGED <<size, expected>>
         /\ \A e \in Entry : Exists(e) => Exists(e)'
<1> USE CacheWatcherAssumption DEF cache, catalog, ka, walk
<1> DEFINE Goal == /\ ~Pending /\ ~moved
                   /\ UNCHANGED <<size, expected>>
                   /\ \A e \in Entry : Exists(e) => Exists(e)'
<1>0. \A ev \in events' : ~ Counts(ev)'
  BY DEF Pending
<1>1. CASE UNCHANGED <<size, link, expected, events, changed, owed, kpc, mu, moved>>
  BY <1>1 DEF Pending, Counts, Exists
<1>2. ASSUME NEW f \in File, CreateFile(f) \/ WriteFile(f)
      PROVE  FALSE
  <2>1. size'[f] # None
    BY <1>2 DEF CreateFile, WriteFile, Shape, Partial
  <2>2. PICK op \in {"create", "write"} : events' = events \cup {[op |-> op, on |-> RealFile(f)]}
    BY <1>2 DEF CreateFile, WriteFile, Notify
  <2> DEFINE ev == [op |-> op, on |-> RealFile(f)]
  <2>3. Counts(ev)'
    BY <2>1 DEF Counts, Exists, RealFile
  <2> QED
    BY <1>0, <2>2, <2>3
<1>3. ASSUME NEW f \in File, MakeLink(f)
      PROVE  Goal
  <2>1. UNCHANGED <<size, expected, changed, owed, kpc, mu, moved>> /\ events \subseteq events'
    BY <1>3 DEF MakeLink, Change, Notify
  <2>2. link' = [link EXCEPT ![Of[f]] = f]
    BY <1>3 DEF MakeLink
  <2>3. \A ev \in events : Counts(ev) => Counts(ev)'
    BY <2>1 DEF Counts, Exists
  <2>4. \A e \in Entry : Exists(e) => Exists(e)'
    BY <2>1, <2>2 DEF Exists, Entry, Shape
  <2> QED
    BY <1>0, <2>1, <2>3, <2>4 DEF Pending
<1>4. ASSUME NEW f \in File, RemoveFile(f)
      PROVE  FALSE
  <2> DEFINE ev == [op |-> "remove", on |-> RealFile(f)]
  <2>1. ev \in events' /\ Counts(ev)'
    BY <1>4 DEF RemoveFile, Notify, Counts
  <2> QED
    BY <1>0, <2>1
<1>5. ASSUME NEW f \in File, MoveAway(f)
      PROVE  FALSE
  BY <1>5 DEF MoveAway
<1>6. ASSUME NEW nv \in NameVersion, RemoveLink(nv)
      PROVE  FALSE
  <2> DEFINE ev == [op |-> "remove", on |-> PlainName(nv)]
  <2>1. ev \in events' /\ Counts(ev)'
    BY <1>6 DEF RemoveLink, Notify, Counts
  <2> QED
    BY <1>0, <2>1
<1>7. ~ SwapSnapshot /\ ~ onReload
  BY DEF SwapSnapshot, onReload, Pending
<1>8. ASSUME NEW ev \in events, handleEvent(ev)
      PROVE  Goal
  <2>1. UNCHANGED <<size, link, expected, owed, kpc, mu, moved>> /\ events' = events \ {ev}
    BY <1>8 DEF handleEvent
  <2>2. ~changed /\ ~ Counts(ev)
    BY <1>8 DEF handleEvent, Pending
  <2>3. \A e : Counts(e) => Counts(e)'
    BY <2>1 DEF Counts, Exists
  <2>4. \A e \in Entry : Exists(e) => Exists(e)'
    BY <2>1 DEF Exists
  <2> QED
    BY <1>0, <2>1, <2>2, <2>3, <2>4 DEF Pending
<1>9. ASSUME NEW a \in Scanner, Scan(a)
      PROVE  Goal
  <2>1. UNCHANGED <<size, link, expected, events, changed, owed>>
    BY <1>9, ScanShape
  <2>2. (moved => moved')
        /\ (kpc = "announce" /\ mu # "keepalive" => kpc' = "announce" /\ mu' # "keepalive")
    <3>1. CASE ScanStart(a)
      BY <3>1 DEF ScanStart, Scanner
    <3>2. ASSUME NEW e \in todo, ScanEntry(a, e)
          PROVE  (moved => moved')
                 /\ (kpc = "announce" /\ mu # "keepalive" => kpc' = "announce" /\ mu' # "keepalive")
      BY <3>2 DEF ScanEntry, ScanFailed, Scanner
    <3>3. CASE ScanEnd(a)
      BY <3>3 DEF ScanEnd, ScanDone, Scanner
    <3>4. CASE ScanError(a)
      BY <3>4 DEF ScanError, ScanFailed, Scanner
    <3> QED
      BY <1>9, <3>1, <3>2, <3>3, <3>4 DEF Scan
  <2>3. \A e : Counts(e) => Counts(e)'
    BY <2>1 DEF Counts, Exists
  <2>4. \A e \in Entry : Exists(e) => Exists(e)'
    BY <2>1 DEF Exists
  <2> QED
    BY <1>0, <2>1, <2>2, <2>3, <2>4 DEF Pending
<1>10. ~ TakeNudge
  BY DEF TakeNudge, Holder, Pending
<1>11. CASE Post
  <2>1. UNCHANGED <<size, link, expected, events, changed, owed, mu, moved>> /\ kpc = "post"
    BY <1>11 DEF Post
  <2>2. \A e : Counts(e) => Counts(e)'
    BY <2>1 DEF Counts, Exists
  <2>3. \A e \in Entry : Exists(e) => Exists(e)'
    BY <2>1 DEF Exists
  <2> QED
    BY <1>0, <2>1, <2>2, <2>3 DEF Pending
<1>12. ASSUME NEW nv \in NameVersion, PeerAsks(nv)
       PROVE  FALSE
  BY <1>12 DEF PeerAsks, Pending
<1> QED
  BY <1>1, <1>2, <1>3, <1>4, <1>5, <1>6, <1>7, <1>8, <1>9, <1>10, <1>11, <1>12
  DEF Next, KeepAlive, Pkg, vars, Scanner

(***************************************************************************)
(* A complete walk with nothing pending filters to what is to be listed.   *)
(***************************************************************************)
LEMMA FullWalk ==
  ASSUME Shape, Walked, todo = {}
  PROVE  SanityFilter(pkgs) = Listable
<1> USE CacheWatcherAssumption
<1>1. ASSUME NEW nv \in SanityFilter(pkgs)
      PROVE  nv \in Listable
  <2>1. PICK c \in pkgs : c.size = expected[Of[c.file]] /\ nv = Of[c.file]
    BY DEF SanityFilter
  <2>2. c.file \in File /\ c.size \in Nat /\ c = [file |-> c.file, size |-> c.size]
    BY DEF Shape
  <2>3. size[c.file] = c.size
    BY <2>2 DEF Walked
  <2> QED
    BY <2>1, <2>2, <2>3 DEF Listable
<1>2. ASSUME NEW nv \in Listable
      PROVE  nv \in SanityFilter(pkgs)
  <2>1. PICK f \in File : Of[f] = nv /\ size[f] # None /\ size[f] = expected[nv]
    BY DEF Listable
  <2>2. size[f] \in Nat
    BY <2>1 DEF Shape
  <2> DEFINE c == [file |-> f, size |-> size[f]]
  <2>3. c \in pkgs
    BY <2>2 DEF Walked
  <2>4. c.size = expected[Of[c.file]] /\ Of[c.file] = nv
    BY <2>1
  <2> QED
    BY <2>3, <2>4 DEF SanityFilter
<1> QED
  BY <1>1, <1>2

(***************************************************************************)
(* Every step keeps what has been seen.                                    *)
(***************************************************************************)
LEMMA SeenStep ==
  ASSUME Shape, Holder, Seen, [Next]_vars
  PROVE  Seen'
<1> SUFFICES ASSUME ~Pending', ~moved'
             PROVE  Seen'
  BY DEF Seen
<1> USE CacheWatcherAssumption DEF cache, catalog, ka, walk
<1>1. CASE ScanStart("keepalive")
  <2>1. /\ UNCHANGED <<size, link, kpc>> /\ kpc = "announce"
        /\ todo' = {e \in Entry : Exists(e)} /\ pkgs' = {}
    BY <1>1 DEF ScanStart, ScanPending
  <2>2. \A e \in todo' : Exists(e)'
    BY <2>1 DEF Exists
  <2>3. \A f \in File, n \in Nat : size[f] = n => RealFile(f) \in todo'
    BY <2>1 DEF Exists, Entry, RealFile
  <2>4. Walked'
    BY <2>1, <2>2, <2>3 DEF Walked
  <2> QED
    BY <2>1, <2>4 DEF Seen
<1>2. CASE ~ ScanStart("keepalive")
  <2>1. /\ ~Pending /\ ~moved
        /\ UNCHANGED <<size, expected>>
        /\ \A e \in Entry : Exists(e) => Exists(e)'
    BY <1>2, Quiet
  <2>2. Listable' = Listable
    BY <2>1 DEF Listable
  <2>3. (kpc = "announce" => Walked /\ mu = "keepalive") /\ todo \subseteq Entry
    BY <2>1 DEF Seen, Pending, Shape
  <2>4. CASE UNCHANGED <<kpc, list, announced, unsent, todo, pkgs>>
    <3>1. Walked => Walked'
      BY <2>1, <2>3, <2>4 DEF Walked
    <3> QED
      BY <2>1, <2>2, <2>4, <3>1 DEF Seen
  <2>5. CASE Scan("watcher")
    <3>1. UNCHANGED <<kpc, list, announced>> /\ (unsent => unsent') /\ kpc # "announce"
      <4>1. CASE ScanStart("watcher")
        BY <2>3, <4>1 DEF ScanStart
      <4>2. ASSUME NEW e \in todo, ScanEntry("watcher", e)
            PROVE  UNCHANGED <<kpc, list, announced>> /\ (unsent => unsent') /\ kpc # "announce"
        BY <2>3, <4>2 DEF ScanEntry, ScanFailed
      <4>3. CASE ScanEnd("watcher")
        BY <2>3, <4>3 DEF ScanEnd, ScanDone
      <4>4. CASE ScanError("watcher")
        BY <2>3, <4>4 DEF ScanError, ScanFailed
      <4> QED
        BY <2>5, <4>1, <4>2, <4>3, <4>4 DEF Scan
    <3> QED
      BY <2>1, <2>2, <3>1 DEF Seen
  <2>6. ASSUME NEW e \in todo, ScanEntry("keepalive", e)
        PROVE  Seen'
    <3>1. kpc = "announce" /\ Walked /\ Exists(e) /\ e \in Entry
      BY <2>3, <2>6 DEF ScanEntry, Holder, Walked
    <3>2. /\ todo' = todo \ {e} /\ UNCHANGED kpc
          /\ pkgs' = IF e.kind = "link" THEN pkgs
                     ELSE pkgs \cup {[file |-> e.id, size |-> size[e.id]]}
      BY <2>6, <3>1 DEF ScanEntry
    <3>3. \A x \in todo' : Exists(x)'
      BY <2>1, <2>3, <3>1, <3>2 DEF Walked
    <3>4. CASE e.kind = "link"
      <4>1. \A f \in File : RealFile(f) \in todo' <=> RealFile(f) \in todo
        BY <3>2, <3>4 DEF RealFile
      <4> QED
        BY <2>1, <3>1, <3>2, <3>3, <3>4, <4>1 DEF Walked, Seen
    <3>5. CASE e.kind # "link"
      <4>1. e.id \in File /\ e = RealFile(e.id) /\ size[e.id] \in Nat
        BY <3>1, <3>5 DEF Entry, RealFile, Exists, Shape
      <4>2. \A f \in File : RealFile(f) \in todo' <=> RealFile(f) \in todo /\ f # e.id
        BY <3>2, <4>1 DEF RealFile
      <4>3. pkgs' \subseteq [file : File, size : Nat]
        BY <3>2, <4>1 DEF Shape
      <4>4. ASSUME NEW f \in File, NEW n \in Nat
            PROVE  [file |-> f, size |-> n] \in pkgs' <=> size[f] = n /\ RealFile(f) \notin todo'
        <5>1. [file |-> f, size |-> n] \in pkgs <=> size[f] = n /\ RealFile(f) \notin todo
          BY <3>1 DEF Walked
        <5>2. [file |-> f, size |-> n] \in pkgs' <=>
                [file |-> f, size |-> n] \in pkgs \/ (f = e.id /\ n = size[e.id])
          BY <3>2, <3>5
        <5> QED
          BY <4>2, <5>1, <5>2
      <4> QED
        BY <2>1, <3>1, <3>2, <3>3, <4>3, <4>4 DEF Walked, Seen
    <3> QED
      BY <3>4, <3>5
  <2>7. CASE ScanEnd("keepalive")
    <3>1. kpc = "announce" /\ Walked /\ todo = {} /\ kpc' = "post" /\ list' = SanityFilter(pkgs)
      BY <2>3, <2>7 DEF ScanEnd, ScanDone, Holder
    <3>2. list' = Listable'
      BY <2>2, <3>1, FullWalk
    <3> QED
      BY <3>1, <3>2 DEF Seen
  <2>8. CASE Post
    <3>1. kpc = "post" /\ kpc' = "select" /\ (announced' = list \/ unsent')
      BY <2>8 DEF Post
    <3> QED
      BY <2>1, <2>2, <3>1 DEF Seen
  <2>9. CASE Pkg
    BY <2>4, <2>9, PkgShape
  <2>10. ASSUME onReload \/ (\E ev \in events : handleEvent(ev)) \/ (\E nv \in NameVersion : PeerAsks(nv))
         PROVE  UNCHANGED <<kpc, list, announced, unsent, todo, pkgs>>
    BY <2>10 DEF onReload, handleEvent, PeerAsks
  <2>11. CASE TakeNudge
    BY <2>1, <2>11 DEF TakeNudge, Pending
  <2>12. CASE UNCHANGED vars
    BY <2>4, <2>12 DEF vars
  <2>13. CASE ScanError("keepalive")
    <3>1. kpc' = "select" /\ unsent'
      BY <2>13 DEF ScanError, ScanFailed
    <3> QED
      BY <3>1 DEF Seen
  <2> QED
    BY <1>2, <2>4, <2>5, <2>6, <2>7, <2>8, <2>9, <2>10, <2>11, <2>12, <2>13 DEF Next, KeepAlive, Scan
<1> QED
  BY <1>1, <1>2

-----------------------------------------------------------------------------
(* The theorems. *)

Inv == Shape /\ Flags /\ Holder /\ Seen

(***************************************************************************)
(* Inv is inductive.                                                       *)
(***************************************************************************)
LEMMA Inductive ==
  Spec => []Inv
<1>1. Init => Inv
  <2> SUFFICES ASSUME Init PROVE Inv
    OBVIOUS
  <2> USE CacheWatcherAssumption DEF Init
  <2>1. size \in [File -> Nat \cup {None}]
    OBVIOUS
  <2>2. link \in [NameVersion -> File \cup {None}]
    OBVIOUS
  <2>3. Shape
    BY <2>1, <2>2 DEF Shape, Scanner
  <2>4. Flags
    BY DEF Flags
  <2>5. Holder /\ Seen
    BY DEF Holder, Seen, Pending
  <2> QED
    BY <2>3, <2>4, <2>5 DEF Inv
<1>2. Inv /\ [Next]_vars => Inv'
  BY ShapeStep, FlagsStep, SeenStep DEF Inv
<1> QED
  BY <1>1, <1>2, PTL DEF Spec

(***************************************************************************)
(* Every variable keeps its type: in particular a walk never takes a file  *)
(* that has gone, whatever pkg does under it (Scan).                       *)
(***************************************************************************)
THEOREM TypeCorrect == Spec => []TypeOK
<1>1. Inv => TypeOK
  BY DEF Inv, Shape, Flags, TypeOK
<1> QED
  BY <1>1, Inductive, PTL

(***************************************************************************)
(* Once every event is handled and the keep-alive is back in its select,   *)
(* the tracker has exactly the packages whose files are complete by the    *)
(* current catalogue, unless a file was renamed away or the latest         *)
(* announcement failed (handleEvent, Scan, announce, onReload and the      *)
(* nudge channel together).                                                *)
(***************************************************************************)
THEOREM AnnouncedListIsCurrent == Spec => []ListCurrent
<1>1. Inv => ListCurrent
  BY DEF Inv, Seen, Pending, ListCurrent, Idle
<1> QED
  BY <1>1, Inductive, PTL
=============================================================================
