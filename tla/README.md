# A TLA+ verification project for p2p-pkg-daemon

p2p-pkg-daemon lets FreeBSD hosts fetch packages from each other before they go
to the upstream mirror. This directory models the parts that carry its logic,
checks them with TLC on small instances and proves their safety properties with
TLAPS for every instance.

Contents: [the system](#1-the-system), [the modules](#2-the-modules-and-the-code),
[the runs](#3-the-runs), [assumptions](#4-time-fairness-and-other-assumptions),
[the proofs](#5-the-proofs), [disagreements found](#6-where-the-text-and-the-code-disagree),
[what is left out](#7-what-is-not-modelled), [the plan](#8-plan).

## 1. The system

| Part | Code | State | Operations |
|---|---|---|---|
| Tracker | `internal/tracker`, `cmd/trac`, `internal/proto` | `peers` (IP to port, package set, deadline), the reverse index `packages` | `POST /announce`, `POST /ping`, `GET /peers`, `Sweep` every so often |
| Keep-alive and client | `internal/discovery` | `registered`, the ticker, the one-slot nudge channel, one HTTP exchange at a time | `announce`, `ping`, `Run` |
| Cache watcher | `internal/daemon/watcher.go` | the last scan, under its lock | file events, `Scan`, `SanityFilter` |
| Repository catalogue | `internal/daemon/repodb.go` | a snapshot of name-version to (hash, size) | `Reload`, `ExpectedHash`, `ExpectedFileSizeBytes` |
| Repository watcher | `internal/daemon/repowatcher.go` | the watch set, the settle timer | events, `reloadNow`, `addWatches` |
| Mirror facade | `internal/daemon/facade.go` | the blacklist, one handler per request | `ServeHTTP`: package, relay or refusal; peers first, then upstream |
| Peer fetch | `internal/peer/{fetch,download,blacklist}.go` | a temp file per transfer | `FetchFirst`, `FetchFromPeer`, `Block`, `Discard` |
| Seed server | `internal/peer/{serve,limit}.go`, `internal/daemon/cachesource.go` | two occupancy counters, `closed`, the listener | `ServeHTTP`, `acquire`/release, `Serve`, `Close`, `OnNotHeld` |
| Daemon lifecycle | `internal/daemon/daemon.go` | the current config and the running parts | `Start`, `Reload` (SIGHUP), `Stop` |
| Configuration and `jmj` | `internal/config`, `cmd/jmj` | the configuration file | `Load` with its repair, `ValidateFields`, `Validate`, `ExpandUpstream`, flag overrides, `-generate-config` |
| Demo, upstream warnings | `cmd/demo`, `upstreamcheck.go` | none | a walk-through; a log line |

How they interact. pkg asks the facade for a package. The facade reads the
expected hash and size from the catalogue, asks the tracker (through the client)
who holds the package, tries those peers' seed servers in turn and falls back to
upstream. Each daemon's keep-alive announces the contents of pkg's cache to the
tracker and renews the lease with pings; the cache watcher, a catalogue reload
and a seed server that was asked for something it does not hold all nudge it
through the same one-slot channel. The daemon builds all of these at start, in an
order in which later parts use earlier ones, and on SIGHUP rebuilds those whose
settings changed, while what they left running goes on.

What is hard. The tracker keeps one fact twice and lets dead records lie about
until a sweeper or a ping meets them. The keep-alive and the tracker each hold a
belief about the other over a network that loses requests, loses replies and
delivers requests after the sender gave up; ticker period, exchange timeout and
lease are close to one another. Facade requests run concurrently with catalogue
reloads and share a blacklist nobody ever clears. The seed server's `Serve` runs
in a goroutine that a `Close` may overtake. Catalogue files and cached files are
pkg's, which rewrites them while they are read, and the watches that report it are
set up at some moment before or after the reading. A reload replaces goroutines it
does not wait for, and its steps can fail one by one. `PROJECT.json` lists the hazards
line by line under `hazards`.

What makes each part correct.

* Tracker: the index is the records turned around; no answer depends on when
  the sweeper ran; dead records do go away.
* Keep-alive: no cache change is slept through; belief and listing agree again
  soon after the network calms; the timing survives a loss.
* Facade and fetch: nothing unverified from a peer reaches pkg; temp files do not
  outlive their request; no peer is blacklisted for bytes that were good; a local fault
  is not charged to peers; each request is answered.
* Seed server: slots are neither leaked nor doubled, caps hold, a closed server
  stays closed and frees its port, drifted announcements get corrected.
* Catalogue and its watcher: the snapshot is the merge of what one reload read,
  this daemon's own catalogue first; a change on disk does get loaded; every
  repository directory is watched; the announced list is filtered anew.
* Cache watcher: at rest the announced list is exactly the packages whose files are
  complete by the catalogue.
* Daemon and configuration: what claims to have succeeded runs on the
  configuration in force; no part runs on a refused value; a rebuilt part neither
  finds its own port taken nor leaves its predecessor talking; every SIGHUP counts.
* Path grammar: a mirror URL stays under its base; classification and proxying
  read a path alike; announced, requested and opened names are one identity.

## 2. The modules and the code

`PROJECT.json` (`map`) gives the source lines of every definition. Definitions
carry the name of the Go function where there is one.

**`LeaseDirectory`** is the abstract specification of the tracker: a map from
addresses to leases. A lease disappears at the tick on which it runs out; a lookup
names live holders; there is no index, no sweeper, no dead record.

**`Tracker`** is `tracker.go` behind the handlers of `cmd/trac`. Each operation
holds the one mutex for its whole length, so each handler is one action.
`removeFromIndex` takes the set of addresses to strip: `Announce` and `Ping` strip
one, `Sweep` strips all the expired ones, whose individual strips commute.
`Peers` iterates over a Go map in random order and stops at `MaxPeers`, which is
any `MaxPeers` of the live holders. An announce body is what its bytes decode to,
with ports one below and one above the legal range and names that
`ValidateNameVersion` refuses, or bytes that do not decode or are too long. A
package list is a set; the code's list may repeat a name, which only counts
towards its length limit. `Restart` is a process that dies and starts again empty.

**`Discovery`** composes the keep-alive loop, the client and the nudge channel with
an `INSTANCE` of `Tracker`. The loop's state is `pc` (about to announce, in the
select, blocked in an exchange), `registered`, the ticker (`nextTick`, and `ticked`
for its one-slot channel) and `exchange`. `ExchangeFails` is every error the client
can return; if the tracker had not handled the request yet, the request may stay
in `late` and be handled at any later time. `handleEvent` abstracts the cache
watcher: some change has happened, an event for it will be handled, handling it
nudges. `scanned`, `calm` and `misses` are history variables; no action reads
them.

**`Facade`** is one handler per request from `ServeHTTP` to the answer, with the peer
fetch path inside, a shared blacklist and a catalogue that `Reload` may swap at any
moment. A file is a `Content` standing for its own SHA-256, with a `Size`; builds of one
package may be equally long. The hash and the size are read in two steps because the code
takes the catalogue's lock twice. Peers are external: an honest one sends some genuine
build (`Genuine`, possibly of another catalogue than ours), any other one any content,
each with or without a declared length, and any transfer may break. A write that fails
takes the same way out as a broken stream, as in the code; creating and rewinding the temp
file fail on their own (`SpoolError`). `absent` is a history variable.

**`SeedServer`** is the seed server: admission, the cache lookup and the transfer
of each request, `OnNotHeld` in its own goroutine, and `Serve` racing `Close`, each
split where the mutex is released. A request that is turned away for its method or
path takes no slot and leaves nothing behind, so only the others are followed.
`http.Server` is external; what is used of it is that `Serve` on a server that was
shut down closes the listener and returns.
The daemon's own closing of the listener after `Close` is left out on purpose:
`Server` promises by itself to let the port go. What a scan lists (`files`) and what
`Open` finds by plain name (`held`) are two sets that change on their own, and the
keep-alive announces the first; its announce may fail (`unsent`).

**`Catalogue`** is `Repositories.Reload` and `RepoWatcher` against an external pkg. Reload
is one step per file read: the listing, each source, the ordering by `ownCatalogueFirst`,
each file's rows, the swap; pkg may act between any two. A db file is absent, torn (being
rewritten, so a query returns any part of its rows, or fails) or whole. Besides that the
directory, a whole file or its source may be unreadable for a moment, a watch may not be
addable and the announce may fail (`Fault`, up to `MaxFaults` times); the code logs each
of these and goes on. pkg's changes raise an event if the directory is watched and set
`missed` otherwise; an event restarts the settle timer, except for the files the daemon
ignores. `reloadNow` rebuilds the watches whatever came of the reload and nudges after a
successful one. Repositories are numbered in path order; which are ours is what
`isLoopbackURL` and `normaliseRepoURL` decide. The code's loops over `paths` become the
one listing of the files that is in the right order. `read`, `basis`, `filtered`,
`missed`, `erred`, `unwatched` and `unsent` are history variables. A reload that fails
before the watcher exists, or a first `addWatches` that does, ends the daemon, as in
`Start`.

**`CacheWatcher`** is the way from pkg's cache directory to the announced list: real
files, written in pieces, with plain-name links beside them; fsnotify events by kind;
`handleEvent`; `Scan` an entry at a time under `Watcher.mu`, by the watcher's loop
and by the keep-alive; `SanityFilter` against the snapshot, which a reload may swap;
the nudge and the post. `Open` is the seed server's lookup, by plain name only. A file
renamed out of the directory raises an event nobody looks at; the history variable
`moved` remembers it until the keep-alive next scans. A scan may fail, because an entry went
away under it or for an I/O error, and so may a post, before or after the tracker stored the
list; the history variable `unsent` remembers such an error until a post succeeds.

**`Daemon`** is the process: the configuration file and the operator who edits it
through a redirect, `Load` with its repair, the two modes of `jmj`, `Start`, `Reload`
and `Stop`. A field's value is a class: the default, another good one, one the field
checks refuse (`bad`), one that is well formed and does not work on this machine
(`nohost`). `rpc` is where Start or Reload is. The lock is held from `ApplyConfig` to
the end, one action per step, so that what does not take the lock interleaves with
the steps: keep-alives of every generation (`ka`, `kst`, `done`), the goroutines that bind the
facade's servers (`hgo`) and read `d.httpServer` without the lock, the seed server's
`Serve`, handlers in `requestReannounce`, the tracker. Any step that can fail may
(`MaxFaults`). `dirty` is the set of changed fields, from which each part decides
whether it is rebuilt. Start-up is the same sequence with every field changed. The
keep-alive here is only scan, send, arrive and select; its exchange with the tracker
is `Discovery`'s subject; scan and announce may fail. A discovery start that fails after it
has installed its nudge leaves that nudge behind (`Orphan`). `unread`, `wanted`, `overtaken`,
`unsent`, `caught` and `deferred` are history variables.

**`Paths`** is the pure functions that take names and paths apart and put them together:
`parsePackageName`, `packageRequest`, `upstreamURL`, the fetcher's path, `packagePath`,
`cacheFileName`. A path is a sequence of segments and a segment a sequence of tokens
(a word, a hyphen, a version that starts with a digit, the hash suffix, the
extension), so every case the code tells apart is there and no character is. Its one
variable walks through all paths up to a depth, and the properties compare each
function with what another one, or a definition without cleaning and searching,
says about the same path.

The **`...Proofs`** modules hold the theorems (section 5). The **`MC`** modules give TLC small data;
`Tracker`, `Discovery` and `SeedServer` need none and are run as they are. Definitions named
`Bug...` are deliberately wrong variants of the definition that follows them. No
action uses them; each is kept to show that some property would notice the bug it
stands for.

## 3. The runs

| Run | Instance | Checks |
|---|---|---|
| `tracker` | 2 addresses, 2 packages, 2 ports, lease 1, clock to 3, at most 1 peer answered, fair sweeper | `TypeOK`, `IndexConsistent`, `ImplementsDirectory`, `DeadRecordsReaped` |
| `discovery` | 1 daemon, 1 package, lease 6, ping 2, exchange 1, clock to 9, 1 late request, scan errors | `TypeOK`, `NoLostWakeup`, `SelfHealing`, `QuietMeansWithdrawn`, `SurvivesOneLoss` |
| `facade` | 2 requests, 2 peers (1 honest), an old and a new build, a rebuild and a corrupt file as long as the new one, every catalogue, fair handlers | `TypeOK`, `VerifiedOnly`, `SpoolOwned`, `NotFoundMeansAbsent`, `HonestBlockedOnlyIfMisled`, `EveryRequestAnswered` |
| `seed` | 4 handlers, 2 addresses, 1 package, caps 3 and 2, files and plain names coming and going, failing announces, fair goroutines | `TypeOK`, `SlotsMatchHandlers`, `CapsRespected`, `StopReleasesPort`, `DriftCorrected` |
| `catalogue` | 2 repositories (the second is ours), 1 package in an old, a new or a malformed row, 2 rewrites or removals at any time, start-up included, 1 I/O, database or network error, fair watcher | `TypeOK`, `MergeIsOwnFirst`, `StaleOnlyIfMissedOrErred`, `ReloadFollowedUp`, `Settles` |
| `cache_watcher` | 1 package in 2 builds, 3 snapshots, 3 changes, any number of failing scans and posts, fair scanners | `TypeOK`, `ListCurrent`, `ListSettles` |
| `daemon` | every start-up file, a flag, one edit of each field to each value, one SIGHUP, one failing step, one request for something not held, failing scans and announces, Stop | `TypeOK`, `AppliedUnlessDeferred`, `NoBadValueRuns`, `NoRequestLost` |
| `daemon_reloads` | a flag, one edit and two SIGHUPs on tracker and serving address, one failing step, failing scans and announces, fair SIGHUP goroutine | `OwnPortFree`, `OneVoice`, `StaleOnlyIfOvertakenOrUnsent`, `FacadeLostOnlyIfCaught`, `EverySighupLoads` |
| `paths` | every path of up to 4 segments out of 16 | `Contained`, `OneReading`, `OneIdentity` |
| `discovery_startup_outage` | `discovery` without scan errors | `KeepsTrying`, violated (section 6) |
| `facade_torn_row` | `facade` without the rebuild, reloads between the two builds | `HonestNeverBlocked`, violated (section 6) |
| `daemon_partial_reload` | one edit, two SIGHUPs, one failing step | `SuccessMeansApplied`, violated (section 6) |

What the less obvious ones say. `StaleOnlyIfMissedOrErred`, `ReloadFollowedUp`, `ListCurrent`,
`ListSettles`, `DriftCorrected`, `StaleOnlyIfOvertakenOrUnsent`, `FacadeLostOnlyIfCaught`,
`HonestBlockedOnlyIfMisled` and `AppliedUnlessDeferred` name the ways in which the code does not
keep a promise and show that in the model there are no others; section 6 describes each of
those ways. An exception for an error is always about the latest attempt: `erred` is
cleared when another reload begins, `unwatched` and `unsent` when an attempt goes through, so
an earlier failure excuses nothing.
`NoRequestLost` is about a nudge that `requestReannounce` reads under the lock and calls after
it, while a reload replaces the keep-alive it belongs to.

Why the bounds are enough to be interesting.

* `tracker`: two holders against an answer of one makes `Peers` choose; a clock
  of 3 with a lease of 1 has live, just-alive and expired records side by side;
  two ports make a replaced record different from the old one. The proofs remove
  the bounds altogether.
* `discovery` is at the code's own proportions: units of ten seconds, 60 s, 20 s
  and 10 s being 6, 2 and 1. `HealTime` is 5, so a clock to 9 leaves room for a
  disturbance at up to time 3, and for a whole lease with the losses in it.
  `HealTime` is tight: with one unit less, `SelfHealing` is violated. One daemon is
  enough because the tracker keeps records of different addresses apart, which is
  what `tracker` and its proofs are about.
* `facade`: with two requests, one can blacklist while the other is fetching. The
  new build, a rebuild of it that peers may hold and the corrupt file have the same
  length, so only the hash tells them apart; the old one's length differs.
* `seed`: four handlers against caps of three and two reach each cap with and
  without the other.
* `catalogue`: our repository comes second in path order, so order and ownership
  disagree; two updates are enough for a rewrite during the reload that an earlier
  one caused, and for a removal followed by a return. One error can hit any read, watch or
  announce; the theorems are about any number. About 0.7 million states.
* `cache_watcher`: the two builds have different lengths and share one
  plain name; three changes allow create, complete and remove, or move, while two
  scans and a snapshot swap go on.
* `daemon` has all the values and one reload; `daemon_reloads` has few values and two
  reloads, so that a third generation starts while the first is not gone: the first
  SIGHUP drops the flag, the second finds the edit. `Stop` between two SIGHUPs is left to the
  theorems, which have it; `daemon` has it with one. 0.9 and 0.4 million states.
* `paths`: four segments hold any of `All`, `Hashed`, a file and a dot segment in every
  order; the base has dot segments of its own. File names include ones with two
  hyphens, without a version, without a name, without the extension and with the hash
  suffix twice.

Deadlock is checked where some step always stays enabled: the tracker, discovery,
facade, seed server and catalogue runs. The cache watcher, daemon and
path runs say `CHECK_DEADLOCK FALSE` because there the system may rest: pkg and the
operator have made the changes the bounds allow, every goroutine waits, or the
process has exited. That it does not rest with work undone is what `ListCurrent`,
`ListSettles`, `StaleOnlyIfOvertakenOrUnsent` and `EverySighupLoads` check.

## 4. Time, fairness and other assumptions

* *Prompt loop* (`Discovery`). The clock does not move while the loop or the watcher
  has something ready to do, or while an exchange is past its timeout. The Go
  scheduler and an `http.Client` timeout justify this at a granularity of ten
  seconds. The timing properties are true under this assumption; the violations
  found do not need any slower schedule.
* *Sweeper* (`Tracker!FairSpec`): `RunSweeper` ticks as long as the process lives.
* *Handlers* (`Facade!FairSpec`): each handler's goroutine runs. The code gives a
  transfer no deadline of its own; that a stalled one ends is pkg's hanging up,
  which cancels the request's context.
* *Goroutines* (`SeedServer!FairSpec`): `Serve`, the rest of `Close`, `OnNotHeld` and
  the keep-alive run. Nothing is assumed of remote requesters, whose transfers may
  last for ever.
* *Settle delay* (`Catalogue`): pkg's writes during one rewrite of a watched directory
  come closer together than the two seconds the watcher waits, as the comment at
  `repoSettleDelay` says, so the timer does not run out in the middle of one. It may
  in a directory that is not watched.
* *Catalogue watcher* (`Catalogue!FairSpec`): its goroutine runs and its select serves
  every case that stays ready, an undisturbed timer runs out, the keep-alive takes a
  nudge, and pkg finishes a rewrite it began. Nobody has to begin one, and nothing has to
  succeed.
* *Cache scanners* (`CacheWatcher!FairSpec`): the watcher's loop, the keep-alive and the
  reload that owes a nudge run. No peer has to ask and no post has to succeed.
* *Daemon* (`Daemon!FairSpec`): start-up and the SIGHUP goroutine run. Nobody has to
  write, signal or ask.
* *Proportions* (`Discovery!TimingAssumption`): the lease is at least two ping intervals
  and two request timeouts, and one interval and three timeouts. TLC evaluates it at
  the code's values (6, 2, 1).
* *Segments* (`Paths!PathsAssumption`): a segment is a sequence of tokens; the empty, dot and
  dot-dot segments, `All` and `Hashed` are among them, and the base path is made of segments.
* *Finitely many peers*: the one extra hypothesis of `RequestsRunOutOfSteps`. A listing is the
  tracker's answer to one lookup.
* SHA-256 has no collisions.

## 5. The proofs

Every specification but the abstract `LeaseDirectory` has a companion `...Proofs` whose
theorems hold for every value of the constants: any number of daemons, peers, packages,
requests, files and generations, paths of any length, and any bound. Every invariant of
the passing runs is among them; `AppliedUnlessDeferred` is proved as far as it is true. For
each liveness property there is a theorem about its safety half, so that what TLC adds on
its small instance is the step from "never lost" to "comes about".

The method is the same throughout. A run's invariant is seldom inductive, so each
module states a conjunction of named parts that is, shows that `Init` implies it and
that each action keeps each part it can disturb, and reads the theorem off it. Each
of these conjunctions was also checked by TLC on the run's instance before it was
proved. Boolean variables that take the value of a formula are proved apart from the
rest of the type invariant (`Booleans`, `Flags`): the prover that handles them is not
the one that handles the arithmetic.

**`TrackerProofs`**, from `TrackerAssumption` (types of the constants; good and bad
names differ):

* `TypeCorrect`: `Spec => []TypeOK`. The content is that nothing `AnnounceStatus`
  refuses reaches the registry (`AcceptedIsValid`), and the shape of what each
  handler writes.
* `IndexStaysConsistent`: `Spec => []IndexConsistent`. `IndexConsistent` is inductive
  relative to `TypeOK`. Two lemmas carry it: `DropKeepsIndex` for the three places
  that delete records (the strip reads the records before they go) and
  `RegisterKeepsIndex` for a non-empty announce (after the strip the index holds
  exactly the others' claims).
* `TrackerImplementsDirectory`: `Spec => ImplementsDirectory`, with the live part of
  `peers` as the directory's leases. `IndexConsistent` is needed here:
  `IndexAnswersLikeScan` shows that the index gives a lookup the holders a scan of
  the leases would give. A sweep maps to a stuttering step, a ping of an expired
  record to `Unknown`, a tick to the tick on which leases vanish.
* `RecordsLeaveWhenDue`: `Spec => [][LeavesOnlyWhenDue]_vars`. A record that has not run
  out leaves only with its own daemon's accepted announce or with the process, and one
  sweep takes every record that has. With it `DeadRecordsReaped` needs nothing but a
  sweeper that runs.

**`DiscoveryProofs`** takes the tracker's half from `TrackerProofs` (`TP`, an instance
on the shared variables).

* `TypeCorrect` and `WakeupNeverLost` (`NoLostWakeup`) need only that an open exchange
  carries a well-formed request (`Typed`).
* `QuietDaemonIsWithdrawn` (`QuietMeansWithdrawn`): the deadline of a record is bounded
  by the last moment an announce or ping of that daemon can have reached the tracker
  (`Clock`, `Accounted`).
* `OneLossIsSurvived` (`SurvivesOneLoss`): `LossesLeft` counts what is left of the lease
  against the exchanges that can still fail, for every stage of an exchange. This is
  where the proportions of the constants enter, as `TimingAssumption`: the lease is at
  least two ping intervals and two request timeouts, and one interval and three
  timeouts. The code's 60, 20 and 10 s meet the first with nothing to spare: with a
  lease one second shorter this argument fails.
* `RegistrationHeals` (`SelfHealing`): `Healing` says for each stage how long a
  registered daemon that is not listed can remain so.
* `SystemImplementsTracker` (`Spec => T!Spec`): every step of the composition is a step of
  the tracker or leaves it alone, late arrivals included, which needs that requests on
  their way are well formed (`Typed`). `SystemImplementsDirectory` follows with
  `TrackerImplementsDirectory`: the whole system implements the directory of leases.

**`FacadeProofs`**, from `FacadeAssumption`: `TypeCorrect`; `OnlyVerifiedBytesServed`
(`VerifiedOnly`), for which `Verified` follows the bytes from `FetchBody`'s comparison
through the spool to the answer; `SpoolsAreOwned` (`SpoolOwned`); `NotFoundIsHonest`
(`NotFoundMeansAbsent`) by `Absence`, what each reader of the catalogue has seen;
`HonestPeerBlockedOnlyIfMisled` (`HonestBlockedOnlyIfMisled`), for any sizes, by `Blame`: a
mismatch charged to an honest peer comes with a torn expectation or one whose build has a
genuine twin of its length, and such an expectation stays one. `RequestsRunOutOfSteps`
(`Spec => [][Nearer]_vars`, for finitely many peers) is the safety half of
`EveryRequestAnswered`: `Left(r)` bounds the steps handler `r` can still take by four for each
peer not tried yet and a few more; each of its steps takes at least one off and no reload,
peer or other request adds any.

**`SeedServerProofs`**, from `SeedAssumption` (caps are numbers, zero included; finitely
many handlers): `TypeCorrect`; `SlotsAlwaysMatchHandlers` (`SlotsMatchHandlers`),
inductive with the types, by counting the holders before and after a handler enters or
leaves; `CapsAlwaysRespected` (`CapsRespected`) from it; and `CloseIsFinal`, the safety
half of `StopReleasesPort`: once `Close` has returned nothing is served, by `Lifecycle`,
which relates how far `Serve`, `Close` and the `http.Server` have come. `ReannounceIsCarriedThrough`
(`Spec => [][CarriedThrough]_vars`) is the safety half of `DriftCorrected`: the step that
answers 404 sets a re-announcement going, and one that is going ends only by announcing
what a scan lists then or by an attempt that fails, even if its nudge finds the channel full.

**`CatalogueProofs`**, from `CatalogueAssumption` (finitely many repositories, usable and
unusable rows differ):

* `SnapshotIsOwnFirst` (`MergeIsOwnFirst`): `Merging` says that after any number of files
  a merged row comes from the first file, in the order of `Before`, of those read so
  far that hold one. `FirstIsPreferred` turns "first" into the minimum of `Preferred`.
* `SnapshotIsCurrentUnlessMissedOrErred` (`StaleOnlyIfMissedOrErred`): `Current` says that while no
  change is on its way (`Quiet`), a reload in progress has read each file it passed as
  it is now. `Quiet` can begin only where a reload does, which is what the timer, the
  events, `missed` and `erred` have to ensure together. A reload that fails because pkg is at
  work on a file needs no excuse: the event of pkg's last write is still to come.
* `ReloadsAreFollowedUp` (`ReloadFollowedUp`) by `Followed`, and `TypeCorrect`.

**`CacheWatcherProofs`**, from `CacheWatcherAssumption`: `TypeCorrect`, and
`AnnouncedListIsCurrent` (`ListCurrent`) by `Seen`: while nothing is `Pending`, the
keep-alive's walk, the list it is about to post or the one it has posted is up to date,
the walk in the sense of `Walked`. `Holder` ties the walk to whoever has the lock.

**`DaemonProofs`**, from `DaemonAssumption` (which values files and flags can hold; the
caps have no flag). The generations of each part are numbered by SIGHUPs; `Numbered`,
`Servers` and `Reopened` show, with the budget `Within`, that they never run out.

* `OneKeepAliveSpeaks` (`OneVoice`) by `Voices`, `RequestsReachTheKeepAlive`
  (`NoRequestLost`) by `Heard`, `OnlySoundValuesRun` (`NoBadValueRuns`) by `Built`,
  `OwnPortAlwaysFree` (`OwnPortFree`) by `Seeding`, `StaleEntryOnlyIfOvertakenOrUnsent`
  (`StaleOnlyIfOvertakenOrUnsent`) by `Listed`, `FacadeServedUnlessCaught`
  (`FacadeLostOnlyIfCaught`) by `Reached`, and `TypeCorrect`.
* `ReloadAppliesAllButDeferred`: `Spec => [](faults = 0 => AppliedUnlessDeferred)`, for any
  number of reloads. `Applied` says, for each stage of a reload, which parts already follow
  the configuration, and which of the facade's fields are `deferred`.
* `FirstReloadIsHonest`: `Spec => [](hups <= 1 => AppliedUnlessDeferred)`, whatever fails.
  `Counted` relates the number of signals to where the one reload is: while it runs or
  after it succeeded no step has failed yet, so `Applied` is enough. With a failing step
  the property is false from the second reload on (section 6), so neither hypothesis can
  be dropped.
* `SighupIsHeld`: `Spec => []Held`, the safety half of `EverySighupLoads`: a signal not acted
  on yet is in the channel or with a reload that has yet to read the file.

**`PathsProofs`**, from `PathsAssumption`, is about functions on sequences of any length and
needs induction. Induction theorems with an operator parameter are out of the provers'
reach; every non-empty set of naturals has a least element (`LeastElement`, from the
well-foundedness of `<`), and applied to the set of lengths at which a claim fails that is
as good (`UpTo`).

* `CleanedEquation` shows that the recursive function behind `path.Clean` satisfies its
  equation; `CleanType` (a cleaned path has no empty, dot or dot-dot segment) and
  `CleanNames` (cleaning a clean path changes nothing) are the two inductions over it.
* `ContainedAlways` (`Contained`) follows from `CleanType`, half by half.
* `OneReadingAlways` (`OneReading`): `OneFileAfterAll` turns the search for the last `All` into a
  statement about the last segments of the path.
* `OneIdentityAlways` (`OneIdentity`): `CutAndJoin` and `ParseRejoins` show that cutting a name at
  its last hyphen and joining it again gives it back, `ParsedByStem` that the suffix and the
  extension do not matter. The proof brought out the one exception the property names: of
  a hash suffix that occurs twice `cksumSuffix` strips one, so that file's plain name would
  be read under a different name.

Only model-checked: liveness (`DeadRecordsReaped`, `EveryRequestAnswered`,
`StopReleasesPort`, `DriftCorrected`, `Settles`, `ListSettles`, `EverySighupLoads`), which
with `ENABLED` is out of the proof system's reach. The safety halves are, in this order,
`RecordsLeaveWhenDue`, `RequestsRunOutOfSteps`, `CloseIsFinal`,
`ReannounceIsCarriedThrough`, `SnapshotIsCurrentUnlessMissedOrErred`,
`AnnouncedListIsCurrent` and `SighupIsHeld`. That the violation runs' properties fail is
shown by TLC's counterexamples.

## 6. Where the text and the code disagree

Three runs check a sentence of the repository and show a behaviour against it.

1. `KeepsTrying` (`keepalive.go:56`): `daemon.go:237` says the loop keeps trying when the
   tracker is down at startup. A failed first announce leaves `registered` false, pings
   are then skipped and nothing retries. UC-05 step 7a (`docs/use-case-descriptions.md:123`)
   has the daemon "schedule a retry" too.
2. `HonestNeverBlocked` (`facade.go:292`): `expected` says both values come from one
   row. A reload between the two reads pairs the old hash with the new size, and an
   honest peer's bytes are then held against it. `HonestBlockedOnlyIfMisled` shows that
   there is one other way, below.
3. `SuccessMeansApplied` with a failing step (`daemon.go:468`): the configuration is
   replaced before the steps, so the next SIGHUP finds no difference, retries nothing
   and logs success. With one reload, failing step or not, the parts do follow, deferred
   fields apart (`AppliedUnlessDeferred`, `FirstReloadIsHonest`).

Some passing runs state a promise with an exception, because the code does not keep
it in full. The model has each of these behaviours.

* `SurvivesOneLoss` is about one failed exchange; the comment at `client.go:21` says
  two. After a renewal, two lost pings and a third that takes any time to arrive, the
  60 s lease is over.
* `HonestBlockedOnlyIfMisled`, `TwinBuild`: a peer that holds another genuine build of the
  same name-version and the same length passes the size check and fails the hash check
  (`fetch.go:194`), and is blacklisted with an expectation that is not torn. Two repositories
  may carry such builds (`repodb.go:146-159`, ADR-010).
* `StaleOnlyIfMissedOrErred` and `Settles`, `missed`: a `pkg update` that ends between the
  first load (`daemon.go:89`) and the first watch, or a catalogue written into a new
  repository directory between the listing and the rebuilding of the watches
  (`repowatcher.go:217`), is not noticed until another change. ADR-008 makes no such
  exception.
* `StaleOnlyIfMissedOrErred` and `Settles`, `erred`: a reload that cannot list the directory
  (`repodb.go:86-89`) or read a complete file keeps the old snapshot, as intended, and
  nothing starts another one until pkg changes something again (`repowatcher.go:226-229`).
* `ReloadFollowedUp`, `unwatched`: an `addWatches` that fails is logged (`repowatcher.go:222-224`);
  a directory it did not reach is not watched until the next reload, which an event in it
  can no longer cause.
* `MergeIsOwnFirst`, `sources`: if the source of our catalogue cannot be read while
  pkg has it open and its rows can be a moment later, it counts as foreign
  (`repodb.go:102`) and path order decides. ADR-010 says our row wins.
* `ListCurrent`, `moved`: a file renamed out of the cache raises only a rename event,
  which is not looked at (`watcher.go:301`), so it stays announced until another scan.
* `ListCurrent`, `ListSettles`, `ReloadFollowedUp`, `DriftCorrected` and
  `StaleOnlyIfOvertakenOrUnsent`, `unsent`: a scan or announce that fails is logged
  (`keepalive.go:43-50`) and the loop goes back to its select. If `registered` is true, pings
  keep the old list alive; after a change of `serving_addr` the new loop does not ping, and
  the old port stays listed until its lease runs out.
  `docs/keepalive.md:48-49` says "Retry on the next event", which holds only of events other
  than ticks, and UC-05 step 7a says that a retry is scheduled.
* `DriftCorrected`, `files`: a cached file without its plain name is listed by `Scan` and not
  found by `Open` (`cachesource.go:73`); each 404 leads to a re-announce that lists it again.
* `StaleOnlyIfOvertakenOrUnsent`, `overtaken`: the announce of a replaced keep-alive may arrive
  after its successor's (`daemon.go:342` does not wait for the loop), and the tracker
  then lists the old port.
* `FacadeLostOnlyIfCaught`, `caught`: a reload that meets the old facade between bind and
  registration (`daemon.go:405`) makes the new one fail to bind; only a log line says
  that there is no facade.
* `AppliedUnlessDeferred`, `deferred`: `upstream_url` and `temp_dir` are in no change set
  (`daemon.go:495`). A reload that changes only them logs success and the facade keeps the old
  ones until a change of another field rebuilds it, against `daemon.go:429`, "applies changes
  without restarting".
* `TypeOK` of `Daemon`, `Orphan`: a discovery start that fails at `daemon.go:189` or `218` leaves
  `d.reannounce` set (`171`), so that `requestReannounce` does send into a channel nobody
  reads, which the comment at `345-347` says cannot happen. The nudge is lost, and without a
  keep-alive there is nothing it could have reached.

Other behaviours met while modelling, which no property is about.

* `watcher.go:189`: of a hash suffix that occurs twice one is stripped; the plain name beside
  such a file would be read under another name-version (`OneIdentity` names the exception).
* `fetch.go:187`: a write to the temp file that fails is not `ErrSpool`, so the loop goes
  on to the next holder.
* `daemon.go:431`: a reload takes the file without the flags that "override config".
* `config.go:207`: moving a corrupt file aside, called a repair at startup, also happens
  on SIGHUP, under a redirect that has just emptied the file.
* `cmd/jmj/main.go:143`: after that repair at startup the defaults have no `upstream_url`,
  which is required, so the process exits instead of coming up.
* `daemon.go:521`: a reload signalled before `Stop` that runs after it starts discovery
  and the seed server again; `running` is never read.

## 7. What is not modelled

* JSON, HTTP framing, which headers are relayed, the redirects of `ServeMux`, logging.
  Decoding is an outcome (`Tracker`).
* The grammar of each configuration value (ports, addresses, URLs): a value is a class.
  The removed schema is one class of file.
* `UpstreamWarnings`, whose only effect is a log line.
* The checks of `cacheFileName` for backslashes and NUL bytes, which no token stands for.
* How sqlite reads a file that is being rewritten, beyond "some of the rows, or an error".
* An overflow of fsnotify's event queue, which both watchers log and otherwise ignore
  (`repowatcher.go:199-203`, `watcher.go:308`): what it drops is found by the scan or reload of
  the next event.
* In `Daemon`, an announce that outlives its client's timeout; `Discovery` has it.
* `cmd/demo`, a scripted walk-through with no state of its own.
* Temp files left by a process that died (nothing in the code looks for them), and a
  cache of more than 4096 packages, whose announce is refused by `Validate`: the path is
  in `Discovery` (`AnnounceAborts`), and nothing is promised about it.

## 8. Plan

Done: all modules of section 2, and the proofs of section 5. Every invariant of a passing
run is proved.

What could come next, if the code is changed: the properties of section 6 without their
exceptions. A retry of a failed announce would give `KeepsTrying` and take `unsent` away, a
re-armed settle timer after a failed reload or `addWatches` would take `erred` and
`unwatched` away, one locked read in `expected` would rule out torn expectations, and
replacing the configuration after the steps, with `upstream_url` and `temp_dir` among the
facade's fields, would give `SuccessMeansApplied`.
