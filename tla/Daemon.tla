------------------------------- MODULE Daemon -------------------------------
(***************************************************************************)
(* The daemon's life: the configuration file and how it is loaded and      *)
(* validated (internal/config/config.go), the command line that overrides  *)
(* and generates it (cmd/jmj/main.go), start-up, reload on SIGHUP and      *)
(* shutdown (internal/daemon/daemon.go).                                   *)
(*                                                                         *)
(* A configuration is a value per field.  What matters of a value is       *)
(* whether it is the default, another good one, one the field checks       *)
(* refuse, or one that is well formed and does not work on this machine.   *)
(*                                                                         *)
(* Start and Reload hold the daemon's lock from the first change to the    *)
(* last.  Everything that does not take it runs in between: keep-alives,   *)
(* the goroutines that serve the two listeners, and the tracker.           *)
(***************************************************************************)
EXTENDS Naturals, FiniteSets

CONSTANTS Files,      \* what the operator may write: a function from some keys to values
          Flags,      \* the flags the daemon was started with, in the same form
          BootFiles,  \* what the configuration path may hold at start
          MaxEdits, MaxHups, MaxFaults,
          Requests,   \* bound on requests for a package that is not held
          MayStop     \* whether Stop is called

Field == {"tracker", "facade", "serving", "temp", "cache", "repoDB", "upstream", "caps"}
Value == {"default", "other", "bad", "nohost"}
OnHost == {"temp", "cache", "repoDB", "upstream"}   \* what only this machine can judge

(* Some keys with values they can have. *)
Settings(f) == \A k \in DOMAIN f : k \in Field /\ f[k] \in Value /\ (f[k] = "nohost" => k \in OnHost)

ASSUME DaemonAssumption ==
  /\ \A f \in Files \cup {Flags} : Settings(f)
  /\ "caps" \notin DOMAIN Flags
  /\ \A b \in BootFiles : /\ b.st \in {"missing", "corrupt", "legacy", "json"}
                          /\ b.st = "json" => Settings(b.keys)
  /\ {MaxEdits, MaxHups, MaxFaults, Requests} \subseteq Nat
  /\ MayStop \in BOOLEAN

VARIABLES file,       \* the configuration path
          writer,     \* the operator's redirect onto it
          phase,      \* the process
          sig,        \* the signal channel, buffered with room for one
          rpc,        \* where Start or Reload is
          newCfg, config, dirty,
          result,     \* how the latest Reload ended
          repo,       \* the open catalogue: its instance and directory
          client,     \* the tracker d.client talks to
          disc, reannounce,           \* the running discovery, and whose nudge is held
          ka, kst, done, nudged,      \* keep-alives, current and former
          http, hcur, hclosed, hgo,   \* the facade's servers and their goroutines
          seed, slisten,              \* the seed server, the addresses it has bound
          entry,      \* entry[t]: what tracker t lists for this host
          asking,     \* requestReannounce in progress
          edits, hups, faults, asked,
          \* History, read by the properties only:
          unread,     \* a SIGHUP no load has followed yet
          wanted,     \* a package was asked for and not held, no announce has begun since
          overtaken,  \* a replaced keep-alive's announce came after the current one's
          unsent,     \* the latest announce of the current keep-alive stored nothing
          caught,     \* a facade was replaced between its bind and its registration
          deferred    \* changed fields that wait for the facade to be rebuilt for others

operator == <<file, writer, edits>>
process  == <<phase, sig, rpc, newCfg, config, dirty, result, hups, faults, unread>>
latest   == <<overtaken, unsent>>
keepers  == <<ka, kst, done, nudged, entry, wanted, latest>>
servers  == <<http, hcur, hclosed, hgo, caught>>
facades  == <<servers, deferred>>
seeds    == <<seed, slisten>>
parts    == <<repo, client, disc, reannounce, keepers, facades, seeds>>
requests == <<asking, asked>>
vars     == <<operator, process, parts, requests>>

-----------------------------------------------------------------------------
(* Configuration. *)

None == "none"

(***************************************************************************)
(* DefaultConfig: every key but upstream_url has a default.                *)
(***************************************************************************)
DefaultConfig == [f \in Field |-> IF f = "upstream" THEN "bad" ELSE "default"]

(* A file: not there, not parsable, on the old schema, or a JSON object. *)
Missing   == [st |-> "missing"]
Corrupt   == [st |-> "corrupt"]
Legacy    == [st |-> "legacy"]
Json(k)   == [st |-> "json", keys |-> k]

(* Some keys laid over a configuration. *)
Overlay(keys, cfg) == [f \in Field |-> IF f \in DOMAIN keys THEN keys[f] ELSE cfg[f]]

(***************************************************************************)
(* read: a key the file does not have keeps its default; a missing or      *)
(* corrupt file is all defaults, one with a removed key is an error.       *)
(***************************************************************************)
Readable(f) == f.st # "legacy"
Parsed(f)   == IF f.st = "json" THEN Overlay(f.keys, DefaultConfig) ELSE DefaultConfig

(***************************************************************************)
(* Load: a corrupt file is moved aside if the directory can be written.    *)
(***************************************************************************)
AfterLoad(f) == IF f.st = "corrupt" THEN {Missing, Corrupt} ELSE {f}

applyOverrides(cfg, flags) == Overlay(flags, cfg)

(***************************************************************************)
(* ValidateFields judges the values, Validate also this machine, and       *)
(* ExpandUpstream resolves ${ABI} or refuses.                              *)
(***************************************************************************)
ValidateFields(cfg) == \A f \in Field : cfg[f] # "bad"
Validate(cfg)       == ValidateFields(cfg) /\ \A f \in OnHost \ {"upstream"} : cfg[f] # "nohost"

BugNotExpanded(cfg) == TRUE

ExpandUpstream(cfg) == cfg["upstream"] # "nohost"

-----------------------------------------------------------------------------
Gen    == 1..(MaxHups + 1)
Orphan == MaxHups + 2     \* a nudge that no keep-alive reads

NoKeepAlive == [tracker |-> None, port |-> None, cache |-> None, repo |-> 0]
NoServer    == [addr |-> None, client |-> None, repo |-> 0, upstream |-> None, temp |-> None]
NoSeed      == [addr |-> None, cache |-> None, caps |-> None, served |-> FALSE]
Idle        == [at |-> None, nudge |-> 0]
NoEntry     == [port |-> None, cache |-> None]

Init ==
  /\ file \in BootFiles /\ writer = "idle" /\ edits = 0
  /\ phase = "boot" /\ sig = FALSE /\ rpc = "idle"
  /\ newCfg = DefaultConfig /\ config = DefaultConfig /\ dirty = {}
  /\ result = None /\ hups = 0 /\ faults = 0 /\ unread = FALSE
  /\ repo = [gen |-> 0, dir |-> None] /\ client = None
  /\ disc = 0 /\ reannounce = 0
  /\ ka = [g \in Gen |-> NoKeepAlive] /\ kst = [g \in Gen |-> "none"]
  /\ done = {} /\ nudged = {}
  /\ entry = [t \in Value |-> NoEntry] /\ wanted = FALSE
  /\ overtaken = FALSE /\ unsent = FALSE
  /\ http = [g \in Gen |-> NoServer] /\ hcur = 0 /\ hclosed = {}
  /\ hgo = [g \in Gen |-> [st |-> "none", srv |-> 0]] /\ caught = FALSE
  /\ deferred = {}
  /\ seed = NoSeed /\ slisten = {}
  /\ asking = Idle /\ asked = 0

-----------------------------------------------------------------------------
(* The operator. *)

(***************************************************************************)
(* A redirect onto the configuration path: the shell empties the file,     *)
(* then its content arrives through the descriptor it opened, wherever the *)
(* file may have been moved to.                                            *)
(***************************************************************************)
Truncate ==
  /\ writer = "idle" /\ edits < MaxEdits /\ edits' = edits + 1
  /\ writer' = "open" /\ file' = Corrupt
  /\ UNCHANGED <<process, parts, requests>>

Written(content) ==
  /\ writer # "idle" /\ writer' = "idle"
  /\ file' = IF writer = "open" THEN content ELSE file
  /\ UNCHANGED <<process, parts, requests, edits>>

WriteFile == \E k \in Files : Written(Json(k))

WriteOldSchema == edits = MaxEdits /\ Written(Legacy)

(***************************************************************************)
(* -generate-config: the defaults with the flags on top, complete, or      *)
(* nothing at all if the fields do not validate.                           *)
(***************************************************************************)
Generate ==
  \E k \in Files :
    LET cfg == applyOverrides(DefaultConfig, k)
    IN Written(IF ValidateFields(cfg) THEN Json(cfg) ELSE Corrupt)

(***************************************************************************)
(* SIGHUP.  Before setupReloadHandler it has its default effect.  After,   *)
(* a signal that finds the channel full is dropped.                        *)
(***************************************************************************)
BugUnbufferedSignal ==
  /\ hups < MaxHups /\ hups' = hups + 1
  /\ \/ /\ phase \in {"boot", "start"} /\ phase' = "exited" /\ rpc' = "idle"
        /\ UNCHANGED <<sig, unread>>
     \/ /\ phase \in {"running", "stopped"} /\ UNCHANGED <<phase, rpc>>
        /\ sig' = (rpc = "idle") /\ unread' = TRUE
  /\ UNCHANGED <<operator, newCfg, config, dirty, result, faults, parts, requests>>

Hup ==
  /\ hups < MaxHups /\ hups' = hups + 1
  /\ \/ /\ phase \in {"boot", "start"} /\ phase' = "exited" /\ rpc' = "idle"
        /\ UNCHANGED <<sig, unread>>
     \/ /\ phase \in {"running", "stopped"} /\ UNCHANGED <<phase, rpc>>
        /\ sig' = TRUE /\ unread' = TRUE
  /\ UNCHANGED <<operator, newCfg, config, dirty, result, faults, parts, requests>>

-----------------------------------------------------------------------------
(* Start-up and reload. *)

(***************************************************************************)
(* config.Load as a step: what is read, and the file moved aside under a   *)
(* redirect that is still writing to it.                                   *)
(***************************************************************************)
Load ==
  /\ file' \in AfterLoad(file)
  /\ writer' = IF file'.st = "missing" /\ writer = "open" THEN "detached" ELSE writer
  /\ UNCHANGED edits

(***************************************************************************)
(* main, daemon mode: the flags go on top, then the whole is judged.       *)
(***************************************************************************)
Boot ==
  LET cfg == applyOverrides(Parsed(file), Flags)
  IN /\ phase = "boot" /\ Load
     /\ \/ /\ ~ (Readable(file) /\ Validate(cfg) /\ ExpandUpstream(cfg))
           /\ phase' = "exited" /\ UNCHANGED <<config, dirty, rpc>>
        \/ /\ Readable(file) /\ Validate(cfg) /\ ExpandUpstream(cfg)
           /\ phase' = "start" /\ rpc' = "repo" /\ config' = cfg /\ dirty' = Field
     /\ UNCHANGED <<sig, newCfg, result, hups, faults, unread, parts, requests>>

(* The goroutine of setupReloadHandler takes the signal. *)
Receive ==
  /\ sig /\ rpc = "idle" /\ sig' = FALSE /\ rpc' = "load"
  /\ UNCHANGED <<operator, phase, newCfg, config, dirty, result, hups, faults, unread, parts, requests>>

(* Reload up to the lock.  The flags are not part of it. *)
LoadConfig ==
  LET cfg == Parsed(file)
  IN /\ rpc = "load" /\ Load /\ unread' = FALSE
     /\ \/ /\ ~ (Readable(file) /\ Validate(cfg) /\ ExpandUpstream(cfg))
           /\ rpc' = "idle" /\ result' = "refused" /\ UNCHANGED newCfg
        \/ /\ Readable(file) /\ Validate(cfg) /\ ExpandUpstream(cfg)
           /\ rpc' = "apply" /\ newCfg' = cfg /\ UNCHANGED result
     /\ UNCHANGED <<phase, sig, config, dirty, hups, faults, parts, requests>>

(* The lock is taken, the differences are noted, d.config is replaced. *)
ApplyConfig ==
  /\ rpc = "apply" /\ rpc' = "repo"
  /\ dirty' = {f \in Field : config[f] # newCfg[f]}
  /\ config' = newCfg
  /\ UNCHANGED <<operator, phase, sig, newCfg, result, hups, faults, unread, parts, requests>>

(* The lock is held from ApplyConfig, and in Start, to the end. *)
Locked == rpc \in {"repo", "discovery", "facade", "seed"}

Finish(res) ==
  /\ rpc' = "idle" /\ result' = res /\ dirty' = {}
  /\ phase' = CASE phase # "start" -> phase
                 [] phase = "start" /\ res = "ok" -> "running"
                 [] OTHER -> "exited"

Proceed(step) == rpc' = step /\ UNCHANGED <<dirty, result, phase, faults>>

(* A step that fails ends the sequence; the steps before it stay done. *)
Fault == faults < MaxFaults /\ faults' = faults + 1 /\ Finish("failed")

LockedFrame == UNCHANGED <<operator, sig, newCfg, config, hups, unread, entry, wanted,
                           nudged, requests>>

(***************************************************************************)
(* openRepositoriesLocked: a new instance; the old one stays if it fails.  *)
(***************************************************************************)
openRepositoriesLocked == repo' = [gen |-> repo.gen + 1, dir |-> config["repoDB"]]

StepRepo ==
  /\ rpc = "repo"
  /\ \/ "repoDB" \notin dirty /\ Proceed("discovery") /\ UNCHANGED repo
     \/ "repoDB" \in dirty /\ Proceed("discovery") /\ openRepositoriesLocked
     \/ "repoDB" \in dirty /\ Fault /\ UNCHANGED repo
  /\ LockedFrame
  /\ UNCHANGED <<client, disc, reannounce, ka, kst, done, latest, facades, seeds>>

(***************************************************************************)
(* stopDiscoveryLocked closes done and waits for nobody.                   *)
(***************************************************************************)
BugLeavesLoop == done' = done

stopDiscoveryLocked == done' = done \cup ({disc} \ {0})

(***************************************************************************)
(* startDiscoveryLocked: watchers on the new directories and the catalogue *)
(* instance, a client, and a keep-alive with a nudge of its own.           *)
(***************************************************************************)
NextGen == Cardinality({g \in Gen : kst[g] # "none"}) + 1

BugKeepsNudge ==
  /\ client' = config["tracker"]
  /\ disc' = NextGen /\ reannounce' = IF reannounce = 0 THEN NextGen ELSE reannounce
  /\ ka' = [ka EXCEPT ![NextGen] = [tracker |-> config["tracker"], port |-> config["serving"],
                                     cache |-> config["cache"], repo |-> repo.gen]]
  /\ kst' = [kst EXCEPT ![NextGen] = "scan"]

BugWaitsForEvent ==
  /\ client' = config["tracker"]
  /\ disc' = NextGen /\ reannounce' = NextGen
  /\ ka' = [ka EXCEPT ![NextGen] = [tracker |-> config["tracker"], port |-> config["serving"],
                                     cache |-> config["cache"], repo |-> repo.gen]]
  /\ kst' = [kst EXCEPT ![NextGen] = "select"]

startDiscoveryLocked ==
  /\ client' = config["tracker"]
  /\ disc' = NextGen /\ reannounce' = NextGen
  /\ ka' = [ka EXCEPT ![NextGen] = [tracker |-> config["tracker"], port |-> config["serving"],
                                     cache |-> config["cache"], repo |-> repo.gen]]
  /\ kst' = [kst EXCEPT ![NextGen] = "scan"]

DiscoveryFields == {"tracker", "serving", "cache", "repoDB"}

(* No announce of the current keep-alive has ended yet. *)
Unannounced == overtaken' = FALSE /\ unsent' = FALSE

(* A watcher that does not start leaves its nudge behind, without a keep-alive. *)
StepDiscovery ==
  /\ rpc = "discovery"
  /\ \/ /\ dirty \cap DiscoveryFields = {} /\ Proceed("facade")
        /\ UNCHANGED <<client, disc, reannounce, ka, kst, done, latest>>
     \/ /\ dirty \cap DiscoveryFields # {} /\ Proceed("facade")
        /\ stopDiscoveryLocked /\ startDiscoveryLocked /\ Unannounced
     \/ /\ dirty \cap DiscoveryFields # {} /\ Fault
        /\ stopDiscoveryLocked /\ disc' = 0 /\ reannounce' = Orphan /\ Unannounced
        /\ UNCHANGED <<client, ka, kst>>
  /\ LockedFrame
  /\ UNCHANGED <<repo, facades, seeds>>

(***************************************************************************)
(* startHTTPServerLocked: the old server is closed, with the listener it   *)
(* has registered, and a goroutine is left to bind the new one.            *)
(***************************************************************************)
Ended == [st |-> "ended", srv |-> 0]

BugLeavesFacade ==
  /\ UNCHANGED hclosed
  /\ hcur' = hcur + 1
  /\ http' = [http EXCEPT ![hcur'] = [addr |-> config["facade"], client |-> client, repo |-> repo.gen,
                                      upstream |-> config["upstream"], temp |-> config["temp"]]]
  /\ hgo' = [g \in Gen |-> IF g = hcur' THEN [st |-> "spawned", srv |-> 0] ELSE hgo[g]]
  /\ caught' = (caught \/ \E g \in Gen : hgo[g].st = "bound")

startHTTPServerLocked ==
  /\ hclosed' = hclosed \cup ({hcur} \ {0})
  /\ hcur' = hcur + 1
  /\ http' = [http EXCEPT ![hcur'] = [addr |-> config["facade"], client |-> client, repo |-> repo.gen,
                                      upstream |-> config["upstream"], temp |-> config["temp"]]]
  /\ hgo' = [g \in Gen |-> IF g = hcur' THEN [st |-> "spawned", srv |-> 0]
                           ELSE IF hgo[g].st = "serving" /\ hgo[g].srv = hcur THEN Ended
                           ELSE hgo[g]]
  /\ caught' = (caught \/ \E g \in Gen : hgo[g].st = "bound")

BugFacadeKeepsClient == {"facade", "repoDB"}
FacadeFields == {"facade", "tracker", "repoDB"}

(* What the facade is built from as well, and Reload does not compare. *)
FacadeOnly == {"upstream", "temp"}

StepFacade ==
  /\ rpc = "facade" /\ Proceed("seed")
  /\ \/ /\ dirty \cap FacadeFields = {} /\ UNCHANGED servers
        /\ deferred' = deferred \cup (dirty \cap FacadeOnly)
     \/ dirty \cap FacadeFields # {} /\ startHTTPServerLocked /\ deferred' = {}
  /\ LockedFrame
  /\ UNCHANGED <<repo, client, disc, reannounce, ka, kst, done, latest, seeds>>

(***************************************************************************)
(* stopSeedServerLocked closes the server, which releases the port only    *)
(* once Serve has run, and then the listener itself.                       *)
(***************************************************************************)
BugCloseServerOnly == IF seed.served THEN slisten \ {seed.addr} ELSE slisten

stopSeedServerLocked == slisten \ {seed.addr}

SeedFields == {"serving", "cache", "caps", "tracker", "repoDB"}

(* startSeedServerLocked binds before it returns. *)
StepSeed ==
  /\ rpc = "seed"
  /\ \/ /\ dirty \cap SeedFields = {} /\ Finish("ok")
        /\ UNCHANGED <<seeds, faults>>
     \/ /\ dirty \cap SeedFields # {} /\ UNCHANGED faults
        /\ LET taken == config["serving"] \in stopSeedServerLocked
           IN /\ slisten' = stopSeedServerLocked \cup {config["serving"]}
              /\ seed' = IF taken THEN NoSeed
                         ELSE [addr |-> config["serving"], cache |-> config["cache"],
                               caps |-> config["caps"], served |-> FALSE]
              /\ Finish(IF taken THEN "in use" ELSE "ok")
     \/ /\ dirty \cap SeedFields # {} /\ Fault
        /\ slisten' = stopSeedServerLocked /\ seed' = NoSeed
  /\ LockedFrame
  /\ UNCHANGED <<repo, client, disc, reannounce, ka, kst, done, latest, facades>>

(***************************************************************************)
(* Stop.  The goroutine that waits for SIGHUP stays.                       *)
(***************************************************************************)
Stop ==
  /\ MayStop /\ phase = "running" /\ ~Locked
  /\ phase' = "stopped"
  /\ hclosed' = hclosed \cup {hcur}
  /\ hgo' = [g \in Gen |-> IF hgo[g].st = "serving" THEN Ended ELSE hgo[g]]
  /\ slisten' = stopSeedServerLocked /\ seed' = NoSeed
  /\ stopDiscoveryLocked /\ disc' = 0 /\ reannounce' = 0 /\ Unannounced
  /\ UNCHANGED <<operator, sig, rpc, newCfg, config, dirty, result, hups, faults, unread,
                 repo, client, ka, kst, nudged, entry, wanted, http, hcur, caught, deferred, requests>>

-----------------------------------------------------------------------------
(* The goroutines. *)

(***************************************************************************)
(* ListenAndServe reads d.httpServer without the lock and so may find any  *)
(* server assigned since the goroutine was started.  A closed one ends it; *)
(* an address a sister goroutine has bound is an error, which is logged.   *)
(***************************************************************************)
Bound(addr) == \E g \in Gen : hgo[g].st \in {"bound", "serving"} /\ http[hgo[g].srv].addr = addr

FacadeListen(g) ==
  /\ hgo[g].st = "spawned" /\ phase # "exited"
  /\ \E s \in g..hcur :
       hgo' = [hgo EXCEPT ![g] = IF s \in hclosed THEN Ended
                                 ELSE [st |-> IF Bound(http[s].addr) THEN "failed" ELSE "bound", srv |-> s]]
  /\ UNCHANGED <<operator, process, repo, client, disc, reannounce, keepers, http, hcur,
                 hclosed, caught, deferred, seeds, requests>>

(* Serve registers the listener, or closes it if the server is closed. *)
FacadeTrack(g) ==
  /\ hgo[g].st = "bound" /\ phase # "exited"
  /\ hgo' = [hgo EXCEPT ![g] = IF hgo[g].srv \in hclosed THEN Ended ELSE [@ EXCEPT !.st = "serving"]]
  /\ UNCHANGED <<operator, process, repo, client, disc, reannounce, keepers, http, hcur,
                 hclosed, caught, deferred, seeds, requests>>

SeedServe ==
  /\ seed # NoSeed /\ ~seed.served /\ phase # "exited"
  /\ seed' = [seed EXCEPT !.served = TRUE]
  /\ UNCHANGED <<operator, process, repo, client, disc, reannounce, keepers, facades, slisten, requests>>

KeeperFrame == UNCHANGED <<operator, process, repo, client, disc, reannounce, done, facades,
                           seeds, requests>>

(***************************************************************************)
(* announce: the cache is scanned, which may fail; the list goes out; the  *)
(* tracker stores it or does not.  A failure is logged and not tried       *)
(* again.                                                                  *)
(***************************************************************************)
ScanCache(g) ==
  /\ kst[g] = "scan" /\ phase # "exited"
  /\ \/ kst' = [kst EXCEPT ![g] = "sending"] /\ UNCHANGED unsent
     \/ kst' = [kst EXCEPT ![g] = "select"] /\ unsent' = (unsent \/ g = disc)
  /\ wanted' = (wanted /\ g # disc)
  /\ UNCHANGED <<ka, nudged, entry, overtaken>> /\ KeeperFrame

Arrive(g) ==
  /\ kst[g] = "sending" /\ phase # "exited"
  /\ kst' = [kst EXCEPT ![g] = "select"]
  /\ \/ /\ entry' = [entry EXCEPT ![ka[g].tracker] = [port |-> ka[g].port, cache |-> ka[g].cache]]
        /\ overtaken' = (g # disc /\ (overtaken \/ ka[g].tracker = client))
        /\ unsent' = (unsent /\ g # disc)
     \/ unsent' = (unsent \/ g = disc) /\ UNCHANGED <<entry, overtaken>>
  /\ UNCHANGED <<ka, nudged, wanted>> /\ KeeperFrame

(* Run's select: done and a nudge may both be ready. *)
TakeDone(g) ==
  /\ kst[g] = "select" /\ g \in done
  /\ kst' = [kst EXCEPT ![g] = "exited"] /\ ka' = [ka EXCEPT ![g] = NoKeepAlive]
  /\ UNCHANGED <<nudged, entry, wanted, latest>> /\ KeeperFrame

TakeNudge(g) ==
  /\ kst[g] = "select" /\ g \in nudged /\ phase # "exited"
  /\ kst' = [kst EXCEPT ![g] = "scan"] /\ nudged' = nudged \ {g}
  /\ UNCHANGED <<ka, entry, wanted, latest>> /\ KeeperFrame

(***************************************************************************)
(* A peer asks the seed server for a package that is not held: the handler *)
(* reads d.reannounce under the lock and calls it after.                   *)
(***************************************************************************)
NotHeld ==
  /\ seed.served /\ asking = Idle /\ asked < Requests /\ phase # "exited"
  /\ asked' = asked + 1 /\ asking' = [Idle EXCEPT !.at = "lock"] /\ wanted' = TRUE
  /\ UNCHANGED <<operator, process, repo, client, disc, reannounce, ka, kst, done, nudged,
                 entry, latest, facades, seeds>>

requestReannounce ==
  /\ asking.at = "lock" /\ ~Locked
  /\ asking' = IF reannounce = 0 THEN Idle ELSE [at |-> "nudge", nudge |-> reannounce]
  /\ UNCHANGED <<operator, process, parts, asked>>

Nudge ==
  /\ asking.at = "nudge"
  /\ nudged' = nudged \cup {asking.nudge} /\ asking' = Idle
  /\ UNCHANGED <<operator, process, repo, client, disc, reannounce, ka, kst, done, entry,
                 wanted, latest, facades, seeds, asked>>

-----------------------------------------------------------------------------
Reloading == Receive \/ LoadConfig \/ ApplyConfig \/ StepRepo \/ StepDiscovery \/ StepFacade \/ StepSeed

KeepAlive(g) == ScanCache(g) \/ Arrive(g) \/ TakeDone(g) \/ TakeNudge(g)

Next ==
  \/ Truncate \/ WriteFile \/ WriteOldSchema \/ Generate \/ Hup
  \/ Boot \/ Reloading \/ Stop
  \/ \E g \in Gen : FacadeListen(g) \/ FacadeTrack(g) \/ KeepAlive(g)
  \/ SeedServe \/ NotHeld \/ requestReannounce \/ Nudge

Spec == Init /\ [][Next]_vars

(***************************************************************************)
(* Start-up and the SIGHUP goroutine are scheduled.  Nobody has to write,  *)
(* signal or ask, and nothing is assumed of the goroutines they start.     *)
(***************************************************************************)
FairSpec == Spec /\ WF_vars(Boot) /\ WF_vars(Reloading)

-----------------------------------------------------------------------------
(* Properties. *)

(***************************************************************************)
(* Types.  While a discovery runs, the nudge held for the seed server is   *)
(* its own (startDiscoveryLocked, stopDiscoveryLocked).                    *)
(***************************************************************************)
TypeOK ==
  /\ phase \in {"boot", "start", "running", "stopped", "exited"}
  /\ rpc \in {"idle", "load", "apply", "repo", "discovery", "facade", "seed"}
  /\ result \in {None, "ok", "refused", "failed", "in use"}
  /\ {config, newCfg} \subseteq [Field -> Value] /\ dirty \subseteq Field
  /\ file.st \in {"missing", "corrupt", "legacy", "json"}
  /\ writer \in {"idle", "open", "detached"}
  /\ {sig, unread, wanted, overtaken, unsent, caught} \subseteq BOOLEAN
  /\ repo.gen \in Gen \cup {0} /\ hcur \in Gen \cup {0}
  /\ disc \in Gen \cup {0} /\ reannounce \in {disc} \cup (IF disc = 0 THEN {Orphan} ELSE {})
  /\ kst \in [Gen -> {"none", "scan", "sending", "select", "exited"}]
  /\ done \cup hclosed \subseteq Gen /\ nudged \subseteq Gen \cup {Orphan}
  /\ deferred \subseteq FacadeOnly

(***************************************************************************)
(* What a part was built from, against the configuration in force.         *)
(***************************************************************************)
DiscoveryFollows ==
  /\ disc # 0
  /\ ka[disc] = [tracker |-> config["tracker"], port |-> config["serving"],
                  cache |-> config["cache"], repo |-> repo.gen]
FacadeFollows(fields) ==
  /\ http[hcur].addr = config["facade"] /\ http[hcur].client = config["tracker"]
  /\ http[hcur].repo = repo.gen
  /\ "upstream" \in fields => http[hcur].upstream = config["upstream"]
  /\ "temp" \in fields => http[hcur].temp = config["temp"]
SeedFollows ==
  /\ seed # NoSeed /\ config["serving"] \in slisten
  /\ [seed EXCEPT !.served = FALSE] =
       [addr |-> config["serving"], cache |-> config["cache"], caps |-> config["caps"], served |-> FALSE]

(* Start has returned, or the latest reload did not report a failure. *)
Succeeded == phase = "running" /\ rpc = "idle" /\ result \notin {"failed", "in use"}

(***************************************************************************)
(* When Start has returned, and whenever a reload has said that it         *)
(* succeeded, the catalogue, the watchers and the keep-alive, the facade   *)
(* and the seed server are all built from the configuration in force, and  *)
(* the facade verifies with the catalogue instance the watcher reloads.    *)
(***************************************************************************)
SuccessMeansApplied ==
  Succeeded => /\ repo.dir = config["repoDB"]
               /\ DiscoveryFollows /\ FacadeFollows(FacadeOnly) /\ SeedFollows

(***************************************************************************)
(* The same, but for the two settings whose change alone does not rebuild  *)
(* the facade: a new upstream_url or temp_dir waits until one of the other *)
(* fields changes too (Reload).  Each part is rebuilt for its own set of   *)
(* changed fields, so a set that misses another one shows only after some  *)
(* sequence of edits.                                                      *)
(***************************************************************************)
AppliedUnlessDeferred ==
  Succeeded => /\ repo.dir = config["repoDB"]
               /\ DiscoveryFollows /\ FacadeFollows(FacadeOnly \ deferred) /\ SeedFollows

(***************************************************************************)
(* No part ever runs on a value the field checks refuse or this machine    *)
(* cannot take, whatever file is on the path when SIGHUP comes, half       *)
(* written ones included (Reload goes through Validate and ExpandUpstream  *)
(* as start-up does).                                                      *)
(***************************************************************************)
NoBadValueRuns ==
  LET bad == {"bad", "nohost"}
      runs == {seed.addr, seed.cache, seed.caps, repo.dir, client}
              \cup (UNION {{ka[g].tracker, ka[g].port, ka[g].cache} : g \in Gen})
              \cup (UNION {{http[g].addr, http[g].upstream, http[g].temp} : g \in Gen})
  IN runs \cap bad = {}

(***************************************************************************)
(* A restarted seed server never finds its own port taken by the listener  *)
(* it replaces, even if the old Serve goroutine has not run yet            *)
(* (stopSeedServerLocked closes the listener itself).                      *)
(***************************************************************************)
OwnPortFree == result # "in use" /\ Cardinality(slisten) <= 1

(***************************************************************************)
(* A keep-alive that has not been told to stop is the one whose watcher    *)
(* and nudge the daemon holds: reloads never leave an older loop to        *)
(* announce the previous port or to the previous tracker for good.         *)
(***************************************************************************)
OneVoice == \A g \in Gen : kst[g] \notin {"none", "exited"} /\ g \notin done => g = disc

(***************************************************************************)
(* Every SIGHUP is followed by a load of the file, though the channel      *)
(* holds one signal and drops what finds it full (setupReloadHandler).     *)
(***************************************************************************)
EverySighupLoads == unread ~> (~unread \/ phase = "exited")

(***************************************************************************)
(* A request for a package that is not held is never forgotten, also if a  *)
(* reload replaces the keep-alive and the seed server while the handler    *)
(* runs: until the keep-alive in force has tried to scan, the handler is   *)
(* still on its way, the nudge is in that keep-alive's channel, or it is   *)
(* about to scan anyway (requestReannounce, startDiscoveryLocked).         *)
(***************************************************************************)
NoRequestLost ==
  wanted /\ disc # 0 => asking # Idle \/ disc \in nudged \/ kst[disc] = "scan"

(***************************************************************************)
(* Once every keep-alive is at rest, the tracker in force lists the port   *)
(* and the cache in force, however many keep-alives were replaced while    *)
(* they were announcing.  The exceptions are an announce of a replaced     *)
(* keep-alive that arrived last, which stopDiscoveryLocked does not wait   *)
(* for, and a latest announce of the current one that failed, which        *)
(* nothing tries again.                                                    *)
(***************************************************************************)
StaleOnlyIfOvertakenOrUnsent ==
  (disc # 0 /\ ~overtaken /\ ~unsent /\ \A g \in Gen : kst[g] \in {"none", "select", "exited"}) =>
    entry[ka[disc].tracker] = [port |-> ka[disc].port, cache |-> ka[disc].cache]

(***************************************************************************)
(* Once its goroutines have had their turn, a running daemon serves the    *)
(* facade in force, though a goroutine may have found its successor's      *)
(* server and a bind may have failed (startHTTPServerLocked).  The one     *)
(* exception is a reload that met a predecessor between bind and           *)
(* registration, where Close does not reach the listener yet.              *)
(***************************************************************************)
FacadeLostOnlyIfCaught ==
  (phase = "running" /\ rpc = "idle" /\ ~caught
     /\ \A g \in Gen : hgo[g].st \notin {"spawned", "bound"}) =>
    \E g \in Gen : hgo[g] = [st |-> "serving", srv |-> hcur]
=============================================================================
