---------------------------- MODULE DaemonProofs ----------------------------
(***************************************************************************)
(* What the daemon's lifecycle guarantees for every set of configuration   *)
(* files, every flags and any number of edits, signals and faults: the     *)
(* proofs of Daemon's safety invariants.                                   *)
(***************************************************************************)
EXTENDS Daemon, FiniteSetTheorems, TLAPS

-----------------------------------------------------------------------------
(* Configuration. *)

(***************************************************************************)
(* The values a part may run on.                                           *)
(***************************************************************************)
Sound == Value \ {"bad", "nohost"}

(***************************************************************************)
(* What Load and the flags make of a file is a value per field, and what   *)
(* Validate and ExpandUpstream then let through has only sound ones.       *)
(***************************************************************************)
LEMMA JudgedIsSound ==
  ASSUME NEW f, f.st = "json" => Settings(f.keys), NEW flags, Settings(flags)
  PROVE  LET cfg == Parsed(f)
             over == applyOverrides(cfg, flags)
         IN  /\ cfg \in [Field -> Value] /\ over \in [Field -> Value]
             /\ Validate(cfg) /\ ExpandUpstream(cfg) => cfg \in [Field -> Sound]
             /\ Validate(over) /\ ExpandUpstream(over) => over \in [Field -> Sound]
             /\ Settings(over)
<1> DEFINE cfg == Parsed(f)
           over == applyOverrides(cfg, flags)
<1>1. cfg \in [Field -> Value] /\ \A k \in Field : cfg[k] = "nohost" => k \in OnHost
  BY DEF Parsed, Overlay, DefaultConfig, Settings, Field, Value
<1>2. over \in [Field -> Value] /\ \A k \in Field : over[k] = "nohost" => k \in OnHost
  BY <1>1 DEF applyOverrides, Overlay, Settings
<1>3. ASSUME NEW c \in [Field -> Value], \A k \in Field : c[k] = "nohost" => k \in OnHost,
             Validate(c), ExpandUpstream(c)
      PROVE  c \in [Field -> Sound]
  BY <1>3 DEF Validate, ValidateFields, ExpandUpstream, Sound, OnHost, Field
<1> HIDE DEF cfg, over
<1>4. Settings(over)
  BY <1>2 DEF Settings
<1> QED
  BY <1>1, <1>2, <1>3, <1>4 DEF cfg, over

(***************************************************************************)
(* Where start-up and a reload are relative to one another, and that none  *)
(* gets to the lock with a value a part may not run on.                    *)
(***************************************************************************)
Process ==
  /\ phase \in {"boot", "start", "running", "stopped", "exited"}
  /\ rpc \in {"idle", "load", "apply", "repo", "discovery", "facade", "seed"}
  /\ result \in {None, "ok", "refused", "failed", "in use"}
  /\ config \in [Field -> Value] /\ newCfg \in [Field -> Value] /\ dirty \subseteq Field
  /\ writer \in {"idle", "open", "detached"}
  /\ hups \in Nat /\ hups <= MaxHups /\ faults \in Nat
  /\ phase \in {"boot", "exited"} => rpc = "idle"
  /\ phase = "start" => Locked /\ (rpc # "seed" => dirty = Field)
  /\ phase \notin {"boot", "exited"} => config \in [Field -> Sound]
  /\ rpc = "apply" => newCfg \in [Field -> Sound]

(***************************************************************************)
(* What the path holds: a JSON file has only keys and values there are.    *)
(***************************************************************************)
OnPath ==
  /\ file.st \in {"missing", "corrupt", "legacy", "json"}
  /\ file.st = "json" => Settings(file.keys)

(***************************************************************************)
(* No signal is held before setupReloadHandler or after the end.           *)
(***************************************************************************)
Signal ==
  /\ sig \in BOOLEAN /\ unread \in BOOLEAN
  /\ phase \in {"boot", "start", "exited"} => ~sig

(***************************************************************************)
(* The operator writes settings or nothing that parses.                    *)
(***************************************************************************)
LEMMA OperatorStep ==
  ASSUME OnPath, Process, Truncate \/ WriteFile \/ WriteOldSchema \/ Generate
  PROVE  OnPath' /\ writer' \in {"idle", "open", "detached"} /\ UNCHANGED <<process, parts, requests>>
<1> USE DEF OnPath, Process
<1>1. CASE Truncate
  BY <1>1 DEF Truncate, Corrupt
<1>2. ASSUME NEW k, Settings(k), Written(Json(k))
      PROVE  OnPath' /\ writer' \in {"idle", "open", "detached"} /\ UNCHANGED <<process, parts, requests>>
  BY <1>2 DEF Written, Json
<1>3. CASE Written(Legacy) \/ Written(Corrupt)
  <2>1. Legacy.st = "legacy" /\ Corrupt.st = "corrupt"
    BY DEF Legacy, Corrupt
  <2> QED
    BY <1>3, <2>1 DEF Written
<1>4. CASE Generate
  <2>1. PICK k \in Files : LET cfg == applyOverrides(DefaultConfig, k)
                           IN Written(IF ValidateFields(cfg) THEN Json(cfg) ELSE Corrupt)
    BY <1>4 DEF Generate
  <2>2. Settings(applyOverrides(DefaultConfig, k))
    <3>1. Parsed(Missing) = DefaultConfig /\ Missing.st # "json" /\ Settings(k)
      BY DaemonAssumption DEF Parsed, Missing
    <3> QED
      BY <3>1, JudgedIsSound
  <2> QED
    BY <2>1, <2>2, <1>2, <1>3
<1>5. CASE WriteFile
  BY <1>2, <1>5, DaemonAssumption DEF WriteFile
<1> QED
  BY <1>1, <1>3, <1>4, <1>5 DEF WriteOldSchema

(***************************************************************************)
(* What config.Load leaves on the path.                                    *)
(***************************************************************************)
LEMMA LoadStep ==
  ASSUME OnPath, Process, Load
  PROVE  OnPath' /\ writer' \in {"idle", "open", "detached"}
<1>1. Missing.st = "missing" /\ Corrupt.st = "corrupt"
  BY DEF Missing, Corrupt
<1> QED
  BY <1>1 DEF OnPath, Process, Load, AfterLoad

(***************************************************************************)
(* A count that stays or grows by one is a count.                          *)
(***************************************************************************)
LEMMA StaysCount ==
  ASSUME NEW n \in Nat, NEW m, m = n \/ m = n + 1
  PROVE  m \in Nat
OBVIOUS

(***************************************************************************)
(* What the end of the sequence makes of the process.                      *)
(***************************************************************************)
LEMMA FinishPhase ==
  ASSUME NEW res, Finish(res)
  PROVE  /\ phase # "start" => phase' = phase
         /\ phase = "start" => phase' = IF res = "ok" THEN "running" ELSE "exited"
<1>1. CASE phase # "start"
  BY <1>1 DEF Finish
<1>2. CASE phase = "start" /\ res = "ok"
  BY <1>2 DEF Finish
<1>3. CASE phase = "start" /\ res # "ok"
  BY <1>3 DEF Finish
<1> QED
  BY <1>1, <1>2, <1>3

(***************************************************************************)
(* A step of Start or Reload under the lock goes on or ends the sequence.  *)
(***************************************************************************)
LEMMA LockedStep ==
  ASSUME Process, Locked, UNCHANGED <<operator, newCfg, config, hups>>,
         \/ rpc # "seed" /\ \E step \in {"discovery", "facade", "seed"} : Proceed(step)
         \/ (faults' = faults \/ faults' = faults + 1) /\ \E res \in {"ok", "failed", "in use"} : Finish(res)
  PROVE  Process' /\ (phase' = phase \/ (phase = "start" /\ phase' \in {"running", "exited"}))
<1>1. CASE rpc # "seed" /\ \E step \in {"discovery", "facade", "seed"} : Proceed(step)
  BY <1>1 DEF Proceed, Process, Locked, operator
<1>2. ASSUME faults' = faults \/ faults' = faults + 1, NEW res \in {"ok", "failed", "in use"}, Finish(res)
      PROVE  Process' /\ (phase' = phase \/ (phase = "start" /\ phase' \in {"running", "exited"}))
  <2>1. /\ rpc' = "idle" /\ result' = res /\ dirty' = {}
        /\ phase # "start" => phase' = phase
        /\ phase = "start" => phase' \in {"running", "exited"}
    BY <1>2, FinishPhase DEF Finish
  <2>2. faults' \in Nat
    <3>1. faults \in Nat
      BY DEF Process
    <3> QED
      BY <1>2, <3>1, StaysCount
  <2> QED
    BY <2>1, <2>2 DEF Process, Locked, operator
<1> QED
  BY <1>1, <1>2

(***************************************************************************)
(* Every step keeps the three.                                             *)
(***************************************************************************)
LEMMA ProcessStep ==
  ASSUME Process, OnPath, Signal, [Next]_vars
  PROVE  Process' /\ OnPath' /\ Signal'
<1> USE DEF operator, process, parts, requests
<1>0. ASSUME UNCHANGED process, writer' \in {"idle", "open", "detached"}
      PROVE  Process' /\ Signal'
  <2>1. Process'
    BY <1>0 DEF Process, Locked
  <2>2. Signal'
    BY <1>0 DEF Signal
  <2> QED
    BY <2>1, <2>2
<1>1. CASE UNCHANGED <<operator, process>>
  <2>1. OnPath'
    BY <1>1 DEF OnPath
  <2> QED
    BY <1>0, <1>1, <2>1 DEF Process
<1>2. CASE Truncate \/ WriteFile \/ WriteOldSchema \/ Generate
  BY <1>0, <1>2, OperatorStep
<1>3. ASSUME UNCHANGED file PROVE OnPath'
  BY <1>3 DEF OnPath
<1>4. ASSUME Locked, UNCHANGED sig, UNCHANGED unread,
             UNCHANGED phase \/ (phase = "start" /\ phase' \in {"running", "exited"})
      PROVE  Signal'
  BY <1>4 DEF Signal
<1>5. CASE Hup
  <2>1. /\ UNCHANGED <<operator, newCfg, config, dirty, result, faults>>
        /\ hups < MaxHups /\ hups' = hups + 1
        /\ \/ phase' = "exited" /\ rpc' = "idle"
           \/ UNCHANGED <<phase, rpc>>
    BY <1>5 DEF Hup
  <2>2. hups' \in Nat /\ hups' <= MaxHups
    <3>1. hups \in Nat /\ MaxHups \in Nat
      BY DaemonAssumption DEF Process
    <3> QED
      BY <2>1, <3>1
  <2>3. Process'
    BY <2>1, <2>2 DEF Process, Locked
  <2>4. Signal'
    <3>1. CASE phase \in {"boot", "start"} /\ UNCHANGED <<sig, unread>>
      BY <3>1 DEF Signal
    <3>2. CASE phase \in {"running", "stopped"} /\ UNCHANGED phase /\ sig' = TRUE /\ unread' = TRUE
      BY <3>2 DEF Signal
    <3> QED
      BY <1>5, <3>1, <3>2 DEF Hup
  <2> QED
    BY <1>3, <2>1, <2>3, <2>4
<1>6. CASE Boot
  <2> DEFINE cfg == Parsed(file)
             over == applyOverrides(cfg, Flags)
  <2>1. /\ over \in [Field -> Value]
        /\ Validate(over) /\ ExpandUpstream(over) => over \in [Field -> Sound]
    BY JudgedIsSound, DaemonAssumption DEF OnPath
  <2> HIDE DEF cfg
  <2>2. /\ phase = "boot" /\ Load
        /\ UNCHANGED <<sig, newCfg, result, hups, faults, unread>>
        /\ \/ phase' = "exited" /\ UNCHANGED <<config, dirty, rpc>>
           \/ /\ Validate(over) /\ ExpandUpstream(over)
              /\ phase' = "start" /\ rpc' = "repo" /\ config' = over /\ dirty' = Field
    BY <1>6 DEF Boot, cfg
  <2> HIDE DEF over
  <2>3. OnPath' /\ writer' \in {"idle", "open", "detached"}
    BY <2>2, LoadStep
  <2>4. Process'
    BY <2>1, <2>2, <2>3 DEF Process, Locked
  <2>5. Signal'
    BY <2>2 DEF Signal
  <2> QED
    BY <2>3, <2>4, <2>5
<1>7. CASE Receive
  <2>1. Process'
    BY <1>7 DEF Receive, Process, Signal, Locked
  <2>2. Signal'
    BY <1>7 DEF Receive, Signal
  <2> QED
    BY <1>3, <1>7, <2>1, <2>2 DEF Receive
<1>8. CASE LoadConfig
  <2> DEFINE cfg == Parsed(file)
  <2>1. /\ cfg \in [Field -> Value]
        /\ Validate(cfg) /\ ExpandUpstream(cfg) => cfg \in [Field -> Sound]
    BY JudgedIsSound, DaemonAssumption DEF OnPath
  <2>2. /\ rpc = "load" /\ Load /\ unread' = FALSE
        /\ UNCHANGED <<phase, sig, config, dirty, hups, faults>>
        /\ \/ rpc' = "idle" /\ result' = "refused" /\ UNCHANGED newCfg
           \/ /\ Validate(cfg) /\ ExpandUpstream(cfg)
              /\ rpc' = "apply" /\ newCfg' = cfg /\ UNCHANGED result
    BY <1>8 DEF LoadConfig
  <2> HIDE DEF cfg
  <2>3. OnPath' /\ writer' \in {"idle", "open", "detached"}
    BY <2>2, LoadStep
  <2>4. Process'
    BY <2>1, <2>2, <2>3 DEF Process, Locked
  <2>5. Signal'
    BY <2>2 DEF Signal
  <2> QED
    BY <2>3, <2>4, <2>5
<1>9. CASE ApplyConfig
  <2>1. Process'
    BY <1>9 DEF ApplyConfig, Process, Locked
  <2>2. Signal'
    BY <1>9 DEF ApplyConfig, Signal
  <2> QED
    BY <1>3, <1>9, <2>1, <2>2 DEF ApplyConfig
<1>10. CASE StepRepo
  <2>1. Locked /\ UNCHANGED <<operator, newCfg, config, hups, sig, unread>>
    BY <1>10 DEF StepRepo, LockedFrame, Locked
  <2>2. \/ rpc # "seed" /\ \E step \in {"discovery", "facade", "seed"} : Proceed(step)
        \/ (faults' = faults \/ faults' = faults + 1) /\ \E res \in {"ok", "failed", "in use"} : Finish(res)
    BY <1>10 DEF StepRepo, Fault
  <2> QED
    BY <1>3, <1>4, <2>1, <2>2, LockedStep
<1>11. CASE StepDiscovery
  <2>1. Locked /\ UNCHANGED <<operator, newCfg, config, hups, sig, unread>>
    BY <1>11 DEF StepDiscovery, LockedFrame, Locked
  <2>2. \/ rpc # "seed" /\ \E step \in {"discovery", "facade", "seed"} : Proceed(step)
        \/ (faults' = faults \/ faults' = faults + 1) /\ \E res \in {"ok", "failed", "in use"} : Finish(res)
    BY <1>11 DEF StepDiscovery, Fault
  <2> QED
    BY <1>3, <1>4, <2>1, <2>2, LockedStep
<1>12. CASE StepFacade
  <2>1. Locked /\ UNCHANGED <<operator, newCfg, config, hups, sig, unread>>
    BY <1>12 DEF StepFacade, LockedFrame, Locked
  <2>2. \/ rpc # "seed" /\ \E step \in {"discovery", "facade", "seed"} : Proceed(step)
        \/ (faults' = faults \/ faults' = faults + 1) /\ \E res \in {"ok", "failed", "in use"} : Finish(res)
    BY <1>12 DEF StepFacade
  <2> QED
    BY <1>3, <1>4, <2>1, <2>2, LockedStep
<1>13. CASE StepSeed
  <2>1. Locked /\ UNCHANGED <<operator, newCfg, config, hups, sig, unread>>
    BY <1>13 DEF StepSeed, LockedFrame, Locked
  <2>2. \/ rpc # "seed" /\ \E step \in {"discovery", "facade", "seed"} : Proceed(step)
        \/ (faults' = faults \/ faults' = faults + 1) /\ \E res \in {"ok", "failed", "in use"} : Finish(res)
    BY <1>13 DEF StepSeed, Fault
  <2> QED
    BY <1>3, <1>4, <2>1, <2>2, LockedStep
<1>14. CASE Stop
  <2>1. Process'
    BY <1>14 DEF Stop, Process, Locked
  <2>2. Signal'
    BY <1>14 DEF Stop, Signal
  <2> QED
    BY <1>3, <1>14, <2>1, <2>2 DEF Stop
<1>15. ASSUME NEW g \in Gen, FacadeListen(g) \/ FacadeTrack(g) \/ KeepAlive(g)
       PROVE  UNCHANGED <<operator, process>>
  BY <1>15 DEF FacadeListen, FacadeTrack, KeepAlive, ScanCache, Arrive, TakeDone, TakeNudge, KeeperFrame
<1>16. CASE SeedServe \/ NotHeld \/ requestReannounce \/ Nudge
  BY <1>1, <1>16 DEF SeedServe, NotHeld, requestReannounce, Nudge
<1> QED
  BY <1>1, <1>2, <1>5, <1>6, <1>7, <1>8, <1>9, <1>10, <1>11, <1>12, <1>13, <1>14, <1>15, <1>16
  DEF Next, vars, Reloading

-----------------------------------------------------------------------------
(* Generations. *)

(***************************************************************************)
(* How a step moves the signal and the sequence of Start and Reload.       *)
(***************************************************************************)
LEMMA Moves ==
  ASSUME Process, [Next]_vars
  PROVE  \/ UNCHANGED <<sig, rpc, hups>>
         \/ Hup /\ hups' = hups + 1 /\ (rpc' = rpc \/ rpc' = "idle")
         \/ phase = "boot" /\ rpc' = "repo" /\ UNCHANGED <<sig, hups>>
         \/ sig /\ rpc = "idle" /\ ~sig' /\ rpc' = "load" /\ UNCHANGED hups
         \/ /\ UNCHANGED <<sig, hups>>
            /\ <<rpc, rpc'>> \in {<<"load", "idle">>, <<"load", "apply">>, <<"apply", "repo">>,
                                  <<"repo", "discovery">>, <<"repo", "idle">>,
                                  <<"discovery", "facade">>, <<"discovery", "idle">>, <<"seed", "idle">>}
         \/ StepFacade /\ rpc = "facade" /\ rpc' = "seed" /\ UNCHANGED <<sig, hups>>
<1> USE DEF process, operator
<1>1. CASE Truncate \/ WriteFile \/ WriteOldSchema \/ Generate
  BY <1>1 DEF Truncate, WriteFile, WriteOldSchema, Generate, Written
<1>2. CASE Hup
  BY <1>2 DEF Hup
<1>3. CASE Boot
  BY <1>3 DEF Boot
<1>4. CASE Receive
  BY <1>4 DEF Receive
<1>5. CASE LoadConfig
  BY <1>5 DEF LoadConfig
<1>6. CASE ApplyConfig
  BY <1>6 DEF ApplyConfig
<1>7. CASE StepRepo \/ StepDiscovery
  BY <1>7 DEF StepRepo, StepDiscovery, Proceed, Fault, Finish, LockedFrame
<1>8. CASE StepFacade \/ StepSeed
  BY <1>8 DEF StepFacade, StepSeed, Proceed, Fault, Finish, LockedFrame
<1>9. CASE Stop
  BY <1>9 DEF Stop
<1>10. ASSUME NEW g \in Gen, FacadeListen(g) \/ FacadeTrack(g) \/ KeepAlive(g)
       PROVE  UNCHANGED <<sig, rpc, hups>>
  BY <1>10 DEF FacadeListen, FacadeTrack, KeepAlive, ScanCache, Arrive, TakeDone, TakeNudge, KeeperFrame
<1>11. CASE SeedServe \/ NotHeld \/ requestReannounce \/ Nudge
  BY <1>11 DEF SeedServe, NotHeld, requestReannounce, Nudge
<1> QED
  BY <1>1, <1>2, <1>3, <1>4, <1>5, <1>6, <1>7, <1>8, <1>9, <1>10, <1>11 DEF Next, vars, Reloading

(***************************************************************************)
(* A part that has been built n times, in one of the given stages of Start *)
(* and Reload: the signals received so far pay for those and for the one a *)
(* held signal or a reload under way may still bring.                      *)
(***************************************************************************)
Within(n, stages) ==
  n + (IF sig THEN 1 ELSE 0) + (IF rpc \in {"load", "apply"} \cup stages THEN 1 ELSE 0) <= 1 + hups

RepoStages   == {"repo"}
KeeperStages == {"repo", "discovery"}
FacadeStages == {"repo", "discovery", "facade"}

(***************************************************************************)
(* No step overdraws it, and the stage that ends the set pays for one more.*)
(***************************************************************************)
LEMMA WithinStep ==
  ASSUME Process, [Next]_vars,
         NEW n \in Nat, NEW stages \in {RepoStages, KeeperStages, FacadeStages},
         Within(n, stages), phase = "boot" => n = 0 /\ ~sig
  PROVE  /\ Within(n, stages)'
         /\ rpc \in stages /\ rpc' \notin stages /\ UNCHANGED <<sig, hups>> => Within(n + 1, stages)'
<1>1. hups \in Nat /\ (phase = "boot" => rpc = "idle")
  BY DEF Process
<1> QED
  BY <1>1, Moves DEF Within, RepoStages, KeeperStages, FacadeStages

(***************************************************************************)
(* How a step moves the process: it starts once, and runs when the last    *)
(* step of Start has succeeded.                                            *)
(***************************************************************************)
LEMMA PhaseStep ==
  ASSUME [Next]_vars
  PROVE  \/ phase' = phase
         \/ phase' \in {"stopped", "exited"}
         \/ phase = "boot" /\ phase' = "start" /\ rpc' = "repo" /\ UNCHANGED parts
         \/ phase = "start" /\ phase' = "running" /\ StepSeed
<1> USE DEF process, operator
<1>1. CASE Truncate \/ WriteFile \/ WriteOldSchema \/ Generate
  BY <1>1 DEF Truncate, WriteFile, WriteOldSchema, Generate, Written
<1>2. CASE Hup \/ Boot \/ Receive
  BY <1>2 DEF Hup, Boot, Receive
<1>3. CASE LoadConfig \/ ApplyConfig
  BY <1>3 DEF LoadConfig, ApplyConfig
<1>4. CASE StepRepo \/ StepDiscovery \/ StepFacade
  BY <1>4, FinishPhase DEF StepRepo, StepDiscovery, StepFacade, Proceed, Fault
<1>5. CASE StepSeed
  BY <1>5, FinishPhase DEF StepSeed, Fault
<1>6. CASE Stop
  BY <1>6 DEF Stop
<1>7. ASSUME NEW g \in Gen, FacadeListen(g) \/ FacadeTrack(g) \/ KeepAlive(g)
      PROVE  UNCHANGED phase
  BY <1>7 DEF FacadeListen, FacadeTrack, KeepAlive, ScanCache, Arrive, TakeDone, TakeNudge, KeeperFrame
<1>8. CASE SeedServe \/ NotHeld \/ requestReannounce \/ Nudge
  BY <1>8 DEF SeedServe, NotHeld, requestReannounce, Nudge
<1> QED
  BY <1>1, <1>2, <1>3, <1>4, <1>5, <1>6, <1>7, <1>8 DEF Next, vars, Reloading

(***************************************************************************)
(* A process that has left its boot never returns to it.                   *)
(***************************************************************************)
LEMMA BootOnce ==
  ASSUME [Next]_vars, phase' = "boot"
  PROVE  phase = "boot"
BY PhaseStep

(***************************************************************************)
(* Which steps reach the parts at all.                                     *)
(***************************************************************************)
LEMMA PartsStep ==
  ASSUME [Next]_vars
  PROVE  \/ UNCHANGED <<parts, requests>>
         \/ StepRepo \/ StepDiscovery \/ StepFacade \/ StepSeed \/ Stop
         \/ \E g \in Gen : FacadeListen(g) \/ FacadeTrack(g)
         \/ \E g \in Gen : ScanCache(g) \/ Arrive(g) \/ TakeDone(g) \/ TakeNudge(g)
         \/ SeedServe \/ NotHeld \/ requestReannounce \/ Nudge
<1>1. CASE Truncate \/ WriteFile \/ WriteOldSchema \/ Generate
  BY <1>1 DEF Truncate, WriteFile, WriteOldSchema, Generate, Written
<1>2. CASE Hup \/ Boot \/ Receive
  BY <1>2 DEF Hup, Boot, Receive
<1>3. CASE LoadConfig \/ ApplyConfig
  BY <1>3 DEF LoadConfig, ApplyConfig
<1> QED
  BY <1>1, <1>2, <1>3 DEF Next, vars, Reloading, KeepAlive

-----------------------------------------------------------------------------
(* Keep-alives. *)

Started == Cardinality({g \in Gen : kst[g] # "none"})

(***************************************************************************)
(* Keep-alives are numbered in the order they were started, and there is a *)
(* number left for the next one whenever one may be started.               *)
(***************************************************************************)
Numbered ==
  /\ kst \in [Gen -> {"none", "scan", "sending", "select", "exited"}]
  /\ Started \in Nat /\ {g \in Gen : kst[g] # "none"} = 1..Started
  /\ phase = "boot" => Started = 0
  /\ Within(Started, KeeperStages)

(***************************************************************************)
(* Numbers up to the next.                                                 *)
(***************************************************************************)
LEMMA OneMore ==
  ASSUME NEW n \in Nat
  PROVE  1..(n + 1) = (1..n) \cup {n + 1}
OBVIOUS

(***************************************************************************)
(* The number of a new keep-alive is its own.                              *)
(***************************************************************************)
LEMMA FreshKeeper ==
  ASSUME Process, Signal, Numbered, rpc = "discovery"
  PROVE  NextGen = Started + 1 /\ NextGen \in Gen /\ kst[NextGen] = "none"
<1>1. NextGen = Started + 1
  BY DEF NextGen, Started
<1>2. Started + 1 \in Gen
  <2>1. Started \in Nat /\ hups \in Nat /\ hups <= MaxHups /\ MaxHups \in Nat
    BY DaemonAssumption DEF Numbered, Process
  <2>2. Started + 1 <= 1 + hups
    BY <2>1 DEF Numbered, Within, KeeperStages
  <2> QED
    BY <2>1, <2>2 DEF Gen
<1>3. Started + 1 \notin 1..Started
  BY DEF Numbered
<1> QED
  BY <1>1, <1>2, <1>3 DEF Numbered

(***************************************************************************)
(* A keep-alive that was started moves, or a new one is.                   *)
(***************************************************************************)
LEMMA NumberedStep ==
  ASSUME Process, Signal, Numbered, [Next]_vars
  PROVE  /\ Numbered' /\ (Started' = Started \/ Started' = Started + 1)
         /\ StepDiscovery /\ startDiscoveryLocked => Started' = Started + 1
         /\ ~ StepDiscovery => Started' = Started
<1> DEFINE used == {g \in Gen : kst[g] # "none"}
<1>0. Started \in Nat /\ used = 1..Started
  BY DEF Numbered
<1>1. ASSUME kst' \in [Gen -> {"none", "scan", "sending", "select", "exited"}],
             \A g \in Gen : kst'[g] = "none" <=> kst[g] = "none"
      PROVE  Numbered' /\ Started' = Started
  <2>1. used' = used
    BY <1>1
  <2>2. Started' = Started
    BY <2>1 DEF Started
  <2>3. Within(Started, KeeperStages)'
    BY <1>0, <2>2, WithinStep DEF Numbered, Signal
  <2> QED
    BY <1>0, <1>1, <2>1, <2>2, <2>3, BootOnce DEF Numbered
<1>2. CASE UNCHANGED kst
  <2>1. ~ startDiscoveryLocked \/ ~ StepDiscovery
    BY <1>2, FreshKeeper DEF startDiscoveryLocked, StepDiscovery, Numbered
  <2> QED
    BY <1>1, <1>2, <2>1 DEF Numbered
<1>3. CASE StepDiscovery /\ startDiscoveryLocked
  <2>1. NextGen = Started + 1 /\ NextGen \in Gen /\ kst[NextGen] = "none"
    BY <1>3, FreshKeeper DEF StepDiscovery
  <2>2. kst' = [kst EXCEPT ![NextGen] = "scan"]
    BY <1>3 DEF startDiscoveryLocked
  <2>3. used' = used \cup {NextGen}
    BY <2>1, <2>2 DEF Numbered
  <2>4. used' = 1..(Started + 1)
    BY <1>0, <2>1, <2>3, OneMore
  <2>5. Started' = Started + 1
    <3>1. Started + 1 \in Nat /\ Cardinality(1..(Started + 1)) = Started + 1
      BY <1>0, FS_Interval
    <3> QED
      BY <2>4, <3>1 DEF Started
  <2>6. Within(Started, KeeperStages)'
    <3>1. rpc \in KeeperStages /\ UNCHANGED <<sig, hups>>
      BY <1>3 DEF StepDiscovery, LockedFrame, KeeperStages
    <3>2. rpc' \notin KeeperStages
      <4>1. rpc' = "facade" \/ rpc' = "idle"
        BY <1>3 DEF StepDiscovery, Proceed, Fault, Finish
      <4> QED
        BY <4>1 DEF KeeperStages
    <3> QED
      <4>1. /\ KeeperStages \in {RepoStages, KeeperStages, FacadeStages}
            /\ Within(Started, KeeperStages) /\ (phase = "boot" => Started = 0 /\ ~sig)
        BY DEF Numbered, Signal
      <4> QED
        BY <1>0, <2>5, <3>1, <3>2, <4>1, WithinStep
  <2>7. phase' # "boot"
    BY <1>3, BootOnce DEF StepDiscovery, Process
  <2>8. kst' \in [Gen -> {"none", "scan", "sending", "select", "exited"}]
    BY <2>2 DEF Numbered
  <2>9. Numbered'
    BY <1>0, <2>4, <2>5, <2>6, <2>7, <2>8 DEF Numbered
  <2> QED
    BY <1>3, <2>5, <2>9
<1>4. ASSUME NEW g \in Gen, ScanCache(g) \/ Arrive(g) \/ TakeDone(g) \/ TakeNudge(g)
      PROVE  Numbered' /\ Started' = Started /\ ~ StepDiscovery
  <2>1. PICK st \in {"scan", "sending", "select", "exited"} : kst' = [kst EXCEPT ![g] = st]
    BY <1>4 DEF ScanCache, Arrive, TakeDone, TakeNudge
  <2>2. kst[g] # "none" /\ UNCHANGED rpc
    BY <1>4 DEF ScanCache, Arrive, TakeDone, TakeNudge, KeeperFrame, process
  <2>3. ~ StepDiscovery
    BY <2>2, BootOnce DEF StepDiscovery, Proceed, Fault, Finish
  <2> QED
    BY <1>1, <2>1, <2>2, <2>3 DEF Numbered
<1> QED
  <2>1. CASE StepDiscovery
    BY <1>2, <1>3, <2>1 DEF StepDiscovery
  <2> QED
    BY <1>2, <1>4, <2>1, PartsStep
    DEF parts, keepers, latest, requests, StepRepo, StepFacade, StepSeed, Stop, FacadeListen, FacadeTrack,
        SeedServe, NotHeld, requestReannounce, Nudge

(***************************************************************************)
(* The discovery in force is a started keep-alive that was not told to     *)
(* stop, and every other one was.                                          *)
(***************************************************************************)
Voices ==
  /\ disc \in 0..Started
  /\ reannounce = disc \/ (disc = 0 /\ reannounce = Orphan)
  /\ done \subseteq 1..Started /\ disc \notin done
  /\ \A g \in Gen : kst[g] = "exited" => g \in done
  /\ OneVoice

(***************************************************************************)
(* It is running.                                                          *)
(***************************************************************************)
LEMMA InForce ==
  ASSUME Numbered, Voices, disc # 0
  PROVE  disc \in Gen /\ disc \in 1..Started /\ kst[disc] \in {"scan", "sending", "select"}
<1>1. disc \in 1..Started
  BY DEF Numbered, Voices
<1>2. disc \in Gen /\ kst[disc] # "none"
  BY <1>1 DEF Numbered
<1> QED
  BY <1>1, <1>2 DEF Numbered, Voices

(***************************************************************************)
(* Every step keeps it: a discovery that is replaced or stopped is told.   *)
(***************************************************************************)
LEMMA VoicesStep ==
  ASSUME Process, Signal, Numbered, Voices, [Next]_vars
  PROVE  Voices'
<1>0. Numbered' /\ Started \in Nat /\ Started' \in Nat /\ (Started' = Started \/ Started' = Started + 1)
  BY NumberedStep DEF Numbered
<1>1. CASE UNCHANGED <<disc, reannounce, done, kst>>
  <2>1. Started' = Started
    BY <1>1 DEF Started
  <2> QED
    BY <1>1, <2>1 DEF Voices, OneVoice
<1>2. ASSUME stopDiscoveryLocked, disc' = 0, reannounce' \in {0, Orphan}, UNCHANGED kst
      PROVE  Voices'
  <2>1. Started' = Started
    BY <1>2 DEF Started
  <2>2. done' \subseteq 1..Started /\ 0 \notin done'
    BY <1>0, <1>2 DEF stopDiscoveryLocked, Voices
  <2>3. OneVoice'
    BY <1>2 DEF stopDiscoveryLocked, Voices, OneVoice, Gen
  <2>4. \A g \in Gen : kst'[g] = "exited" => g \in done'
    BY <1>2 DEF stopDiscoveryLocked, Voices
  <2> QED
    BY <1>0, <1>2, <2>1, <2>2, <2>3, <2>4 DEF Voices
<1>3. CASE StepDiscovery
  <2>1. CASE stopDiscoveryLocked /\ startDiscoveryLocked
    <3>1. Started' = Started + 1 /\ NextGen = Started + 1 /\ NextGen \in Gen /\ kst[NextGen] = "none"
      BY <1>3, <2>1, NumberedStep, FreshKeeper DEF StepDiscovery
    <3>2. /\ disc' = NextGen /\ reannounce' = NextGen
          /\ done' = done \cup ({disc} \ {0}) /\ kst' = [kst EXCEPT ![NextGen] = "scan"]
      BY <2>1 DEF stopDiscoveryLocked, startDiscoveryLocked
    <3>3. done' \subseteq 1..Started /\ disc' \notin 1..Started /\ 1..Started \subseteq 1..Started'
      BY <1>0, <3>1, <3>2 DEF Voices
    <3>4. \A g \in Gen : kst'[g] = IF g = NextGen THEN "scan" ELSE kst[g]
      BY <3>1, <3>2 DEF Numbered
    <3>5. disc' \in 0..Started'
      BY <1>0, <3>1, <3>2
    <3>6. OneVoice'
      <4>1. \A g \in Gen : g # NextGen /\ kst[g] \notin {"none", "exited"} /\ g \notin done' => FALSE
        <5> SUFFICES ASSUME NEW g \in Gen, kst[g] \notin {"none", "exited"}, g \notin done'
                     PROVE  FALSE
          OBVIOUS
        <5>1. g = disc
          BY <3>2 DEF Voices, OneVoice
        <5>2. g # 0
          BY <1>0 DEF Gen
        <5> QED
          BY <3>2, <5>1, <5>2
      <4> QED
        BY <3>2, <3>4, <4>1 DEF OneVoice
    <3>7. \A g \in Gen : kst'[g] = "exited" => g \in done'
      BY <3>2, <3>4 DEF Voices
    <3> QED
      BY <3>2, <3>3, <3>5, <3>6, <3>7 DEF Voices
  <2> QED
    BY <1>1, <1>3, <1>2, <2>1 DEF StepDiscovery
<1>4. CASE Stop
  BY <1>4, <1>2 DEF Stop
<1>5. ASSUME NEW g \in Gen, ScanCache(g) \/ Arrive(g) \/ TakeDone(g) \/ TakeNudge(g)
      PROVE  Voices'
  <2>1. PICK st \in {"scan", "sending", "select", "exited"} :
           kst' = [kst EXCEPT ![g] = st] /\ (st = "exited" => g \in done)
    BY <1>5 DEF ScanCache, Arrive, TakeDone, TakeNudge
  <2>2. kst[g] \notin {"none", "exited"} /\ UNCHANGED <<disc, reannounce, done>>
    BY <1>5 DEF ScanCache, Arrive, TakeDone, TakeNudge, KeeperFrame
  <2>3. \A h \in Gen : kst'[h] = IF h = g THEN st ELSE kst[h]
    BY <2>1 DEF Numbered
  <2>4. Started' = Started
    <3>1. \A h \in Gen : kst'[h] = "none" <=> kst[h] = "none"
      BY <2>2, <2>3
    <3> QED
      BY <3>1 DEF Started
  <2>5. OneVoice' /\ \A h \in Gen : kst'[h] = "exited" => h \in done'
    BY <2>1, <2>2, <2>3 DEF Voices, OneVoice
  <2> QED
    BY <2>2, <2>4, <2>5 DEF Voices
<1> QED
  BY <1>1, <1>3, <1>4, <1>5, PartsStep
  DEF parts, keepers, latest, requests, StepRepo, StepFacade, StepSeed, FacadeListen, FacadeTrack,
      SeedServe, NotHeld, requestReannounce, Nudge

-----------------------------------------------------------------------------
(* Requests for what is not held. *)

(***************************************************************************)
(* A package that is wanted: the handler will still read the nudge in      *)
(* force, has read it, or the keep-alive in force is nudged or scanning.   *)
(***************************************************************************)
Heard ==
  /\ nudged \subseteq 1..Started \cup {Orphan}
  /\ asking \in [at : {None, "lock", "nudge"}, nudge : 0..Started \cup {Orphan}]
  /\ asking.at = "nudge" => asking.nudge # 0
  /\ wanted /\ disc # 0 => \/ asking.at = "lock" \/ (asking.at = "nudge" /\ asking.nudge = disc)
                           \/ disc \in nudged \/ kst[disc] = "scan"

(***************************************************************************)
(* Every step keeps it.                                                    *)
(***************************************************************************)
LEMMA HeardStep ==
  ASSUME Process, Signal, Numbered, Voices, Heard, [Next]_vars
  PROVE  Heard'
<1>0. /\ Started \in Nat /\ Started' \in Nat /\ (Started' = Started \/ Started' = Started + 1)
      /\ 1..Started \subseteq 1..Started' /\ 0..Started \subseteq 0..Started'
  <2>1. Started \in Nat /\ Started' \in Nat /\ (Started' = Started \/ Started' = Started + 1)
    BY NumberedStep DEF Numbered
  <2> QED
    BY <2>1
<1>1. CASE UNCHANGED <<disc, nudged, kst, asking, wanted>>
  BY <1>0, <1>1 DEF Heard
<1>2. CASE disc' = 0 /\ UNCHANGED <<nudged, asking>>
  BY <1>0, <1>2 DEF Heard
<1>3. CASE StepDiscovery
  <2>1. UNCHANGED <<nudged, wanted, asking>>
    BY <1>3 DEF StepDiscovery, LockedFrame, requests
  <2>2. CASE startDiscoveryLocked
    <3>1. kst'[disc'] = "scan"
      BY <1>3, <2>2, FreshKeeper DEF StepDiscovery, startDiscoveryLocked, Numbered
    <3> QED
      BY <1>0, <2>1, <3>1 DEF Heard
  <2> QED
    BY <1>1, <1>2, <1>3, <2>1, <2>2 DEF StepDiscovery
<1>4. ASSUME NEW g \in Gen, ScanCache(g)
      PROVE  Heard'
  <2>1. PICK st \in {"sending", "select"} :
          UNCHANGED <<disc, nudged, asking>> /\ kst' = [kst EXCEPT ![g] = st]
    BY <1>4 DEF ScanCache, KeeperFrame, requests
  <2>2. CASE g = disc
    <3>1. ~wanted'
      BY <1>4, <2>2 DEF ScanCache
    <3> QED
      BY <1>0, <2>1, <3>1 DEF Heard
  <2>3. CASE g # disc
    <3>1. (wanted' => wanted) /\ (disc # 0 => kst'[disc] = kst[disc])
      BY <1>4, <2>1, <2>3, InForce DEF ScanCache, Numbered
    <3> QED
      BY <1>0, <2>1, <3>1 DEF Heard
  <2> QED
    BY <2>2, <2>3
<1>5. ASSUME NEW g \in Gen, Arrive(g) \/ TakeDone(g)
      PROVE  Heard'
  <2>1. UNCHANGED <<disc, nudged, asking, wanted>>
    BY <1>5 DEF Arrive, TakeDone, KeeperFrame, requests
  <2>2. disc # 0 /\ kst[disc] = "scan" => kst'[disc] = "scan"
    BY <1>5, InForce DEF Arrive, TakeDone, Numbered
  <2> QED
    BY <1>0, <2>1, <2>2 DEF Heard
<1>6. ASSUME NEW g \in Gen, TakeNudge(g)
      PROVE  Heard'
  <2>1. UNCHANGED <<disc, asking, wanted>> /\ nudged' = nudged \ {g} /\ kst' = [kst EXCEPT ![g] = "scan"]
    BY <1>6 DEF TakeNudge, KeeperFrame, requests
  <2>2. disc # 0 => kst'[disc] = (IF g = disc THEN "scan" ELSE kst[disc])
    BY <2>1, InForce DEF Numbered
  <2> QED
    BY <1>0, <2>1, <2>2 DEF Heard
<1>7. CASE NotHeld
  <2>1. UNCHANGED <<disc, nudged, kst>> /\ asking' = [at |-> "lock", nudge |-> 0]
    BY <1>7 DEF NotHeld, Idle
  <2> QED
    BY <1>0, <2>1 DEF Heard
<1>8. CASE requestReannounce
  <2>1. UNCHANGED <<disc, nudged, kst, wanted>>
    BY <1>8 DEF requestReannounce, parts, keepers, latest
  <2>2. CASE reannounce = 0
    <3>1. asking' = [at |-> None, nudge |-> 0] /\ disc = 0
      BY <1>0, <1>8, <2>2 DEF requestReannounce, Idle, Voices
    <3> QED
      BY <1>0, <2>1, <3>1 DEF Heard, None
  <2>3. CASE reannounce # 0
    <3>1. asking' = [at |-> "nudge", nudge |-> reannounce]
      BY <1>8, <2>3 DEF requestReannounce
    <3>2. reannounce \in 0..Started \cup {Orphan} /\ (disc # 0 => reannounce = disc)
      BY <1>0 DEF Voices
    <3> QED
      BY <1>0, <2>1, <2>3, <3>1, <3>2 DEF Heard
  <2> QED
    BY <2>2, <2>3
<1>9. CASE Nudge
  <2>1. /\ UNCHANGED <<disc, kst, wanted>> /\ asking' = [at |-> None, nudge |-> 0]
        /\ asking.at = "nudge" /\ nudged' = nudged \cup {asking.nudge}
    BY <1>9 DEF Nudge, Idle
  <2>2. asking.nudge \in 1..Started \cup {Orphan}
    BY <1>0, <2>1 DEF Heard
  <2>3. asking' \in [at : {None, "lock", "nudge"}, nudge : 0..Started' \cup {Orphan}] /\ asking'.at # "nudge"
    BY <1>0, <2>1 DEF None
  <2>4. nudged' \subseteq 1..Started' \cup {Orphan}
    BY <1>0, <2>1, <2>2 DEF Heard
  <2>5. wanted' /\ disc' # 0 => disc' \in nudged' \/ kst'[disc'] = "scan"
    BY <2>1 DEF Heard
  <2> QED
    BY <2>3, <2>4, <2>5 DEF Heard
<1> QED
  <2>1. CASE Stop
    BY <1>2, <2>1 DEF Stop, requests
  <2> QED
    BY <1>1, <1>3, <1>4, <1>5, <1>6, <1>7, <1>8, <1>9, <2>1, PartsStep
    DEF parts, keepers, latest, requests, LockedFrame, StepRepo, StepFacade, StepSeed, FacadeListen,
        FacadeTrack, SeedServe

-----------------------------------------------------------------------------
(* What the parts are built from. *)

(* What a part may have for a setting: a sound value, or nothing yet. *)
Runnable == Sound \cup {None}

(***************************************************************************)
(* Every part has only values Validate and ExpandUpstream let through.     *)
(***************************************************************************)
Built ==
  /\ client \in Runnable /\ repo \in [gen : Nat, dir : Runnable]
  /\ ka \in [Gen -> [tracker : Runnable, port : Runnable, cache : Runnable, repo : Nat]]
  /\ http \in [Gen -> [addr : Runnable, client : Runnable, repo : Nat, upstream : Runnable, temp : Runnable]]

(***************************************************************************)
(* The seed server, and that the one port it may hold is its own, so the   *)
(* port a restart asks for is never taken.                                 *)
(***************************************************************************)
Seeding ==
  /\ seed \in [addr : Runnable, cache : Runnable, caps : Runnable, served : BOOLEAN]
  /\ slisten \subseteq {seed.addr}
  /\ result # "in use"

(***************************************************************************)
(* Under the lock the configuration in force is sound.                     *)
(***************************************************************************)
LEMMA LockedIsSound ==
  ASSUME Process, Locked
  PROVE  \A f \in Field : config[f] \in Sound
BY DEF Process, Locked

(***************************************************************************)
(* Every step keeps both.                                                  *)
(***************************************************************************)
LEMMA BuiltStep ==
  ASSUME Process, Signal, Numbered, Built, [Next]_vars
  PROVE  Built'
<1>1. CASE UNCHANGED <<client, repo, ka, http>>
  BY <1>1 DEF Built
<1>2. CASE StepRepo
  <2>1. config["repoDB"] \in Runnable
    BY <1>2, LockedIsSound DEF StepRepo, Locked, Field, Runnable
  <2>2. UNCHANGED <<client, ka, http>> /\ (repo' = repo \/ repo' = [gen |-> repo.gen + 1, dir |-> config["repoDB"]])
    BY <1>2 DEF StepRepo, openRepositoriesLocked, facades, servers
  <2> QED
    BY <2>1, <2>2 DEF Built
<1>3. CASE StepDiscovery
  <2>1. UNCHANGED <<repo, http>>
    BY <1>3 DEF StepDiscovery, facades, servers
  <2>2. CASE startDiscoveryLocked
    <3>1. {config["tracker"], config["serving"], config["cache"]} \subseteq Runnable
      BY <1>3, LockedIsSound DEF StepDiscovery, Locked, Field, Runnable
    <3>2. repo.gen \in Nat
      BY DEF Built
    <3> QED
      BY <2>1, <2>2, <3>1, <3>2 DEF Built, startDiscoveryLocked
  <2> QED
    BY <1>1, <1>3, <2>1, <2>2 DEF StepDiscovery
<1>4. CASE StepFacade
  <2>1. UNCHANGED <<client, repo, ka>>
    BY <1>4 DEF StepFacade
  <2>2. CASE startHTTPServerLocked
    <3>1. {config["facade"], config["upstream"], config["temp"]} \subseteq Runnable
      BY <1>4, LockedIsSound DEF StepFacade, Locked, Field, Runnable
    <3>2. repo.gen \in Nat /\ client \in Runnable
      BY DEF Built
    <3> QED
      BY <2>1, <2>2, <3>1, <3>2 DEF Built, startHTTPServerLocked
  <2> QED
    BY <1>1, <1>4, <2>1, <2>2 DEF StepFacade, facades, servers
<1>5. ASSUME NEW g \in Gen, TakeDone(g)
      PROVE  Built'
  BY <1>5 DEF TakeDone, KeeperFrame, facades, servers, Built, NoKeepAlive, Runnable
<1>6. ASSUME NEW g \in Gen, ScanCache(g) \/ Arrive(g) \/ TakeNudge(g)
      PROVE  UNCHANGED <<client, repo, ka, http>>
  BY <1>6 DEF ScanCache, Arrive, TakeNudge, KeeperFrame, facades, servers
<1> QED
  BY <1>1, <1>2, <1>3, <1>4, <1>5, <1>6, PartsStep
  DEF parts, keepers, latest, facades, servers, StepSeed, Stop, FacadeListen, FacadeTrack, SeedServe, NotHeld,
      requestReannounce, Nudge

(***************************************************************************)
(* Every step: a seed server that was replaced let go of its port first.   *)
(***************************************************************************)
LEMMA SeedingStep ==
  ASSUME Process, Seeding, [Next]_vars
  PROVE  Seeding'
<1>1. CASE UNCHANGED <<seed, slisten>> /\ (result' = result \/ result' \in {"ok", "failed", "refused"})
  BY <1>1 DEF Seeding
<1>2. CASE StepSeed
  <2>1. stopSeedServerLocked = {}
    BY DEF stopSeedServerLocked, Seeding
  <2>2. CASE dirty \cap SeedFields = {} /\ Finish("ok") /\ UNCHANGED seeds
    BY <1>1, <2>2 DEF Finish, seeds
  <2>3. CASE /\ slisten' = stopSeedServerLocked \cup {config["serving"]}
             /\ seed' = [addr |-> config["serving"], cache |-> config["cache"],
                         caps |-> config["caps"], served |-> FALSE]
             /\ Finish("ok")
    <3>1. {config["serving"], config["cache"], config["caps"]} \subseteq Runnable
      BY <1>2, LockedIsSound DEF StepSeed, Locked, Field, Runnable
    <3>2. result' = "ok"
      BY <2>3 DEF Finish
    <3> QED
      BY <2>1, <2>3, <3>1, <3>2 DEF Seeding
  <2>4. CASE Fault /\ slisten' = stopSeedServerLocked /\ seed' = NoSeed
    <3>1. result' = "failed"
      BY <2>4 DEF Fault, Finish
    <3> QED
      BY <2>1, <2>4, <3>1 DEF Seeding, NoSeed, Runnable
  <2>5. ~ (config["serving"] \in stopSeedServerLocked)
    BY <2>1
  <2> QED
    BY <1>2, <2>2, <2>3, <2>4, <2>5 DEF StepSeed
<1>3. CASE Stop
  <2>1. slisten' = {} /\ seed' = NoSeed /\ UNCHANGED result
    BY <1>3 DEF Stop, stopSeedServerLocked, Seeding
  <2> QED
    BY <2>1 DEF Seeding, NoSeed, Runnable
<1>4. CASE SeedServe
  BY <1>4 DEF SeedServe, process, Seeding
<1>5. CASE Hup \/ Boot \/ Receive \/ LoadConfig \/ ApplyConfig
  BY <1>1, <1>5 DEF Hup, Boot, Receive, LoadConfig, ApplyConfig, parts, seeds
<1>6. CASE StepRepo \/ StepDiscovery \/ StepFacade
  BY <1>1, <1>6 DEF StepRepo, StepDiscovery, StepFacade, Proceed, Fault, Finish, seeds
<1>7. CASE Truncate \/ WriteFile \/ WriteOldSchema \/ Generate
  BY <1>1, <1>7 DEF Truncate, WriteFile, WriteOldSchema, Generate, Written, parts, seeds, process
<1>8. ASSUME NEW g \in Gen, FacadeListen(g) \/ FacadeTrack(g) \/ KeepAlive(g)
      PROVE  UNCHANGED <<seed, slisten, result>>
  BY <1>8 DEF FacadeListen, FacadeTrack, KeepAlive, ScanCache, Arrive, TakeDone, TakeNudge, KeeperFrame,
              process, seeds
<1>9. CASE NotHeld \/ requestReannounce \/ Nudge
  BY <1>1, <1>9 DEF NotHeld, requestReannounce, Nudge, parts, process, seeds
<1> QED
  BY <1>1, <1>2, <1>3, <1>4, <1>5, <1>6, <1>7, <1>8, <1>9
  DEF Next, vars, Reloading, process, parts, seeds

(***************************************************************************)
(* The client is the keep-alive's, and once that has announced last, and   *)
(* not in vain, its tracker lists what it announces.                       *)
(***************************************************************************)
Listed ==
  /\ entry \in [Value -> [port : Runnable, cache : Runnable]]
  /\ disc # 0 => client = ka[disc].tracker /\ client \in Sound
  /\ disc # 0 /\ ~overtaken /\ ~unsent /\ kst[disc] = "select" =>
       entry[client] = [port |-> ka[disc].port, cache |-> ka[disc].cache]

(***************************************************************************)
(* Every step: an announce that lands after its keep-alive was replaced is *)
(* remembered as overtaken.                                                *)
(***************************************************************************)
LEMMA ListedStep ==
  ASSUME Process, Signal, Numbered, Voices, Built, Listed, [Next]_vars
  PROVE  Listed'
<1>1. CASE UNCHANGED <<disc, client, ka, kst, entry, overtaken, unsent>>
  BY <1>1 DEF Listed
<1>2. CASE disc' = 0 /\ UNCHANGED entry
  BY <1>2 DEF Listed
<1>3. CASE StepDiscovery
  <2>1. UNCHANGED entry
    BY <1>3 DEF StepDiscovery, LockedFrame
  <2>2. CASE startDiscoveryLocked
    <3>1. disc' \in Gen /\ kst'[disc'] = "scan" /\ ka'[disc'].tracker = config["tracker"] /\ client' = config["tracker"]
      BY <1>3, <2>2, FreshKeeper DEF StepDiscovery, startDiscoveryLocked, Numbered, Built
    <3>2. config["tracker"] \in Sound
      BY <1>3, LockedIsSound DEF StepDiscovery, Locked, Field
    <3> QED
      BY <2>1, <3>1, <3>2 DEF Listed
  <2> QED
    BY <1>1, <1>2, <1>3, <2>1, <2>2 DEF StepDiscovery, latest
<1>4. ASSUME NEW g \in Gen, ScanCache(g) \/ TakeNudge(g)
      PROVE  Listed'
  <2>1. PICK st \in {"scan", "sending", "select"} :
          kst' = [kst EXCEPT ![g] = st] /\ (st = "select" /\ g = disc => unsent')
    BY <1>4 DEF ScanCache, TakeNudge
  <2>2. UNCHANGED <<disc, client, ka, entry, overtaken>>
    BY <1>4 DEF ScanCache, TakeNudge, KeeperFrame, latest
  <2>4. unsent => unsent'
    BY <1>4, Zenon DEF ScanCache, TakeNudge, latest
  <2>3. disc # 0 /\ ~unsent' /\ kst'[disc] = "select" => kst[disc] = "select"
    BY <2>1, InForce DEF Numbered
  <2> QED
    BY <2>2, <2>3, <2>4 DEF Listed
<1>5. ASSUME NEW g \in Gen, TakeDone(g)
      PROVE  Listed'
  <2>1. UNCHANGED <<disc, client, entry, overtaken, unsent>> /\ g # disc
    BY <1>5 DEF TakeDone, KeeperFrame, Voices, latest
  <2>2. disc # 0 => ka'[disc] = ka[disc] /\ kst'[disc] = kst[disc]
    BY <1>5, <2>1, InForce DEF TakeDone, Numbered, Built
  <2> QED
    BY <2>1, <2>2 DEF Listed
<1>6. ASSUME NEW g \in Gen, Arrive(g)
      PROVE  Listed'
  <2> DEFINE said == [port |-> ka[g].port, cache |-> ka[g].cache]
  <2>0. UNCHANGED <<disc, client, ka>> /\ kst' = [kst EXCEPT ![g] = "select"]
    BY <1>6 DEF Arrive, KeeperFrame
  <2>1. CASE /\ entry' = [entry EXCEPT ![ka[g].tracker] = said]
             /\ overtaken' = (g # disc /\ (overtaken \/ ka[g].tracker = client))
             /\ unsent' = (unsent /\ g # disc)
    <3>1. entry' \in [Value -> [port : Runnable, cache : Runnable]]
      <4>1. said \in [port : Runnable, cache : Runnable]
        BY DEF Built
      <4> QED
        BY <2>1, <4>1 DEF Listed
    <3>2. CASE g = disc
      <4>1. disc # 0 /\ ka[g].tracker = client /\ client \in Value
        BY <3>2 DEF Listed, Gen, Sound
      <4>2. entry'[client] = said
        BY <2>1, <4>1 DEF Listed
      <4> QED
        BY <2>0, <3>1, <3>2, <4>1, <4>2 DEF Listed
    <3>3. CASE g # disc
      <4>1. /\ ~overtaken' => ~overtaken /\ ka[g].tracker # client
            /\ ~unsent' => ~unsent
        BY <2>1, <3>3
      <4>2. disc # 0 => kst'[disc] = kst[disc]
        BY <2>0, <3>3, InForce DEF Numbered
      <4>3. ~overtaken' /\ disc # 0 => entry'[client] = entry[client]
        BY <2>1, <4>1 DEF Listed, Sound
      <4> QED
        BY <2>0, <3>1, <4>1, <4>2, <4>3 DEF Listed
    <3> QED
      BY <3>2, <3>3
  <2>2. CASE unsent' = (unsent \/ g = disc) /\ UNCHANGED <<entry, overtaken>>
    <3>1. disc # 0 /\ ~unsent' => ~unsent /\ kst'[disc] = kst[disc]
      BY <2>0, <2>2, InForce DEF Numbered
    <3> QED
      BY <2>0, <2>2, <3>1 DEF Listed
  <2> QED
    BY <1>6, <2>1, <2>2 DEF Arrive
<1> QED
  <2>1. CASE Stop
    BY <1>2, <2>1 DEF Stop
  <2> QED
    BY <1>1, <1>3, <1>4, <1>5, <1>6, <2>1, PartsStep
    DEF parts, keepers, latest, requests, LockedFrame, StepRepo, StepFacade, StepSeed, FacadeListen, FacadeTrack,
        SeedServe, NotHeld, requestReannounce, Nudge

-----------------------------------------------------------------------------
(* The facade. *)

GoState == {"none", "spawned", "bound", "serving", "failed", "ended"}

(***************************************************************************)
(* Servers are numbered in the order they were assigned, and while the     *)
(* daemon runs the closed ones are those before the current one.           *)
(***************************************************************************)
Servers ==
  /\ hcur \in Nat /\ Within(hcur, FacadeStages)
  /\ phase = "boot" => hcur = 0
  /\ hgo \in [Gen -> [st : GoState, srv : Nat]]
  /\ hclosed \subseteq 1..hcur
  /\ phase \notin {"stopped", "exited"} => hclosed = 1..(hcur - 1)
  /\ phase = "running" \/ (phase = "start" /\ rpc = "seed") => hcur # 0

(***************************************************************************)
(* There is a number left for the next server.                             *)
(***************************************************************************)
LEMMA FreshServer ==
  ASSUME Process, Servers, rpc = "facade"
  PROVE  hcur + 1 \in Gen
<1>1. hcur \in Nat /\ hups \in Nat /\ hups <= MaxHups /\ MaxHups \in Nat
  BY DaemonAssumption DEF Servers, Process
<1>2. hcur + 1 <= 1 + hups
  BY <1>1 DEF Servers, Within, FacadeStages
<1> QED
  BY <1>1, <1>2 DEF Gen

(***************************************************************************)
(* Every step: a facade is closed when its successor is built.             *)
(***************************************************************************)
LEMMA ServersStep ==
  ASSUME Process, Signal, Servers, [Next]_vars
  PROVE  Servers'
<1>0. FacadeStages \in {RepoStages, KeeperStages, FacadeStages} /\ hcur \in Nat
      /\ Within(hcur, FacadeStages) /\ (phase = "boot" => hcur = 0 /\ ~sig)
  BY DEF Servers, Signal
<1>1. ASSUME UNCHANGED <<hcur, hclosed>>, ~ StepFacade, hgo' \in [Gen -> [st : GoState, srv : Nat]]
      PROVE  Servers'
  <2>1. Within(hcur, FacadeStages)'
    BY <1>0, <1>1, WithinStep
  <2>2. phase' = "boot" => hcur' = 0
    BY <1>0, <1>1, BootOnce
  <2>3. phase' \notin {"stopped", "exited"} => hclosed' = 1..(hcur' - 1)
    BY <1>1, PhaseStep DEF Servers
  <2>4. phase' = "running" \/ (phase' = "start" /\ rpc' = "seed") => hcur' # 0
    <3>1. CASE phase' = "running"
      BY <1>1, <3>1, PhaseStep DEF Servers, Process, StepSeed
    <3>2. CASE phase' = "start" /\ rpc' = "seed"
      <4>1. phase = "start"
        BY <3>2, PhaseStep DEF Process
      <4>2. rpc = "seed"
        BY <1>1, <3>2, Moves
      <4> QED
        BY <1>1, <4>1, <4>2 DEF Servers
    <3> QED
      BY <3>1, <3>2
  <2> QED
    BY <1>0, <1>1, <2>1, <2>2, <2>3, <2>4 DEF Servers
<1>2. CASE StepFacade
  <2>1. /\ rpc = "facade" /\ rpc' = "seed" /\ UNCHANGED <<phase, sig, hups>>
        /\ phase \notin {"boot", "exited"}
    BY <1>2 DEF StepFacade, Proceed, LockedFrame, Process
  <2>2. CASE dirty \cap FacadeFields = {} /\ UNCHANGED servers
    <3>1. UNCHANGED <<hcur, hclosed, hgo>>
      BY <2>2 DEF facades, servers
    <3>2. phase # "start"
      BY <2>1, <2>2 DEF Process, FacadeFields, Field
    <3> QED
      BY <2>1, <3>1, <3>2, WithinStep, <1>0 DEF Servers
  <2>3. CASE startHTTPServerLocked
    <3>1. /\ hclosed' = hclosed \cup ({hcur} \ {0}) /\ hcur' = hcur + 1
          /\ hgo' = [g \in Gen |-> IF g = hcur' THEN [st |-> "spawned", srv |-> 0]
                                  ELSE IF hgo[g].st = "serving" /\ hgo[g].srv = hcur THEN Ended
                                  ELSE hgo[g]]
      BY <2>3 DEF startHTTPServerLocked
    <3>2. Within(hcur, FacadeStages)'
      <4>1. rpc \in FacadeStages /\ rpc' \notin FacadeStages
        BY <2>1 DEF FacadeStages
      <4> QED
        BY <1>0, <2>1, <3>1, <4>1, WithinStep
    <3>3. hgo' \in [Gen -> [st : GoState, srv : Nat]]
      BY <3>1 DEF Servers, Ended, GoState
    <3>4. hclosed' \subseteq 1..hcur' /\ hcur' \in Nat /\ hcur' # 0
      BY <1>0, <3>1 DEF Servers
    <3>5. phase' \notin {"stopped", "exited"} => hclosed' = 1..(hcur' - 1)
      BY <1>0, <2>1, <3>1 DEF Servers
    <3> QED
      BY <2>1, <3>2, <3>3, <3>4, <3>5 DEF Servers
  <2> QED
    BY <1>2, <2>2, <2>3 DEF StepFacade
<1>3. CASE Stop
  <2>1. /\ phase = "running" /\ phase' = "stopped" /\ UNCHANGED <<rpc, sig, hups, hcur>>
        /\ hclosed' = hclosed \cup {hcur}
        /\ hgo' = [g \in Gen |-> IF hgo[g].st = "serving" THEN Ended ELSE hgo[g]]
    BY <1>3 DEF Stop
  <2>2. hgo' \in [Gen -> [st : GoState, srv : Nat]]
    BY <2>1 DEF Servers, Ended, GoState
  <2>3. hclosed' \subseteq 1..hcur
    BY <1>0, <2>1 DEF Servers
  <2>4. Within(hcur, FacadeStages)'
    BY <1>0, <2>1, WithinStep
  <2> QED
    BY <1>0, <2>1, <2>2, <2>3, <2>4 DEF Servers
<1>4. ASSUME NEW g \in Gen, FacadeListen(g)
      PROVE  Servers'
  <2>1. PICK s \in g..hcur :
          hgo' = [hgo EXCEPT ![g] = IF s \in hclosed THEN Ended
                                    ELSE [st |-> IF Bound(http[s].addr) THEN "failed" ELSE "bound", srv |-> s]]
    BY <1>4 DEF FacadeListen
  <2>2. s \in Nat
    BY <1>0 DEF Gen
  <2>3. hgo' \in [Gen -> [st : GoState, srv : Nat]]
    BY <2>1, <2>2 DEF Servers, Ended, GoState
  <2>4. UNCHANGED <<hcur, hclosed, rpc>>
    BY <1>4 DEF FacadeListen, process
  <2>5. ~ StepFacade
    BY <2>4 DEF StepFacade, Proceed
  <2> QED
    BY <1>1, <2>3, <2>4, <2>5
<1>5. ASSUME NEW g \in Gen, FacadeTrack(g)
      PROVE  Servers'
  <2>1. hgo' \in [Gen -> [st : GoState, srv : Nat]]
    BY <1>5 DEF FacadeTrack, Servers, Ended, GoState
  <2>2. UNCHANGED <<hcur, hclosed, rpc>>
    BY <1>5 DEF FacadeTrack, process
  <2>3. ~ StepFacade
    BY <2>2 DEF StepFacade, Proceed
  <2> QED
    BY <1>1, <2>1, <2>2, <2>3
<1>6. CASE UNCHANGED <<hcur, hclosed, hgo>> /\ ~ StepFacade
  BY <1>1, <1>6 DEF Servers
<1>7. ASSUME NEW g \in Gen, ScanCache(g) \/ Arrive(g) \/ TakeDone(g) \/ TakeNudge(g)
      PROVE  UNCHANGED <<hcur, hclosed, hgo>>
  BY <1>7 DEF ScanCache, Arrive, TakeDone, TakeNudge, KeeperFrame, facades, servers
<1> QED
  BY <1>2, <1>3, <1>4, <1>5, <1>6, <1>7, PartsStep
  DEF parts, facades, servers, StepRepo, StepDiscovery, StepSeed, SeedServe, NotHeld, requestReannounce, Nudge


(***************************************************************************)
(* While no facade was caught between its bind and its registration, every *)
(* listener is the current server's, and there is one or there will be.    *)
(***************************************************************************)
Reached ==
  phase \notin {"stopped", "exited"} /\ ~caught =>
    /\ \A g \in Gen : hgo[g].st \in {"bound", "serving"} => hgo[g].srv = hcur
    /\ hcur # 0 => hgo[hcur].st = "spawned" \/ \E g \in Gen : hgo[g].st \in {"bound", "serving"}

(***************************************************************************)
(* Every step: unless a close caught a facade on its way to listening, the *)
(* one that listens is the one in force.                                   *)
(***************************************************************************)
LEMMA ReachedStep ==
  ASSUME Process, Signal, Servers, Reached, [Next]_vars
  PROVE  Reached'
<1> SUFFICES ASSUME phase' \notin {"stopped", "exited"}, ~caught'
             PROVE  /\ \A g \in Gen : hgo'[g].st \in {"bound", "serving"} => hgo'[g].srv = hcur'
                    /\ hcur' # 0 => \/ hgo'[hcur'].st = "spawned"
                                    \/ \E g \in Gen : hgo'[g].st \in {"bound", "serving"}
  BY DEF Reached
<1>0. /\ hcur \in Nat /\ (hcur # 0 => hcur \in Gen)
      /\ phase \notin {"stopped", "exited"} /\ hclosed = 1..(hcur - 1)
  <2>1. hcur \in Nat /\ hups \in Nat /\ hups <= MaxHups /\ MaxHups \in Nat
    BY DaemonAssumption DEF Servers, Process
  <2>2. hcur <= 1 + hups
    BY <2>1 DEF Servers, Within
  <2>3. phase \notin {"stopped", "exited"}
    BY PhaseStep
  <2> QED
    BY <2>1, <2>2, <2>3 DEF Gen, Servers
<1>1. CASE UNCHANGED <<hcur, hgo, caught>>
  BY <1>0, <1>1 DEF Reached
<1>2. CASE StepFacade
  <2>1. CASE startHTTPServerLocked
    <3>1. /\ hcur' = hcur + 1
          /\ hgo' = [g \in Gen |-> IF g = hcur' THEN [st |-> "spawned", srv |-> 0]
                                  ELSE IF hgo[g].st = "serving" /\ hgo[g].srv = hcur THEN Ended
                                  ELSE hgo[g]]
          /\ ~caught /\ \A g \in Gen : hgo[g].st # "bound"
      BY <2>1 DEF startHTTPServerLocked
    <3>2. hcur + 1 \in Gen
      BY <1>2, FreshServer DEF StepFacade
    <3>3. \A g \in Gen : hgo[g].st = "serving" => hgo[g].srv = hcur
      BY <1>0, <3>1 DEF Reached
    <3>4. hgo'[hcur'].st = "spawned"
      BY <3>1, <3>2
    <3>5. \A g \in Gen : hgo'[g].st \notin {"bound", "serving"}
      BY <3>1, <3>3 DEF Ended
    <3> QED
      BY <3>4, <3>5
  <2> QED
    BY <1>1, <1>2, <2>1 DEF StepFacade, facades, servers
<1>3. ASSUME NEW g \in Gen, FacadeListen(g)
      PROVE  Reached'
  <2>1. PICK s \in g..hcur :
          hgo' = [hgo EXCEPT ![g] = IF s \in hclosed THEN Ended
                                    ELSE [st |-> IF Bound(http[s].addr) THEN "failed" ELSE "bound", srv |-> s]]
    BY <1>3 DEF FacadeListen
  <2>2. UNCHANGED <<hcur, caught>> /\ hgo[g].st = "spawned"
    BY <1>3 DEF FacadeListen
  <2>3. \A h \in Gen : h # g => hgo'[h] = hgo[h]
    BY <2>1 DEF Servers
  <2>4. s \in hclosed \/ s = hcur
    BY <1>0 DEF Gen
  <2>5. \A h \in Gen : hgo'[h].st \in {"bound", "serving"} => hgo'[h].srv = hcur
    <3>1. hgo'[g].st \in {"bound", "serving"} => hgo'[g].srv = hcur
      BY <2>1, <2>4 DEF Servers, Ended
    <3> QED
      BY <1>0, <2>2, <2>3, <3>1 DEF Reached
  <2>6. CASE \E h \in Gen : hgo[h].st \in {"bound", "serving"}
    BY <2>2, <2>3, <2>5, <2>6 DEF Reached
  <2>7. CASE ~ \E h \in Gen : hgo[h].st \in {"bound", "serving"}
    <3>1. ~ Bound(http[s].addr)
      BY <2>7 DEF Bound
    <3>2. CASE g = hcur
      <4>1. s = hcur /\ s \notin hclosed
        BY <1>0, <3>2 DEF Gen
      <4>2. hgo'[g].st = "bound"
        BY <2>1, <3>1, <4>1 DEF Servers
      <4> QED
        BY <2>2, <2>5, <4>2 DEF Reached
    <3>3. CASE g # hcur
      <4>1. hcur # 0 => hgo'[hcur].st = "spawned"
        BY <1>0, <2>2, <2>3, <2>7, <3>3 DEF Reached
      <4> QED
        BY <2>2, <2>5, <4>1 DEF Reached
    <3> QED
      BY <3>2, <3>3
  <2> QED
    BY <2>6, <2>7
<1>4. ASSUME NEW g \in Gen, FacadeTrack(g)
      PROVE  Reached'
  <2>1. UNCHANGED <<hcur, caught>> /\ hgo[g].st = "bound"
    BY <1>4 DEF FacadeTrack
  <2>2. hgo[g].srv = hcur /\ hcur \notin hclosed
    BY <1>0, <2>1 DEF Reached
  <2>3. hgo' = [hgo EXCEPT ![g] = [@ EXCEPT !.st = "serving"]]
    BY <1>4, <2>2 DEF FacadeTrack
  <2>4. hgo'[g].st = "serving" /\ hgo'[g].srv = hcur /\ \A h \in Gen : h # g => hgo'[h] = hgo[h]
    BY <2>2, <2>3 DEF Servers
  <2> QED
    BY <1>0, <2>1, <2>4 DEF Reached
<1>5. CASE Stop
  BY <1>5 DEF Stop
<1>6. ASSUME NEW g \in Gen, ScanCache(g) \/ Arrive(g) \/ TakeDone(g) \/ TakeNudge(g)
      PROVE  UNCHANGED <<hcur, hgo, caught>>
  BY <1>6 DEF ScanCache, Arrive, TakeDone, TakeNudge, KeeperFrame, facades, servers
<1> QED
  BY <1>1, <1>2, <1>3, <1>4, <1>5, <1>6, PartsStep
  DEF parts, facades, servers, StepRepo, StepDiscovery, StepSeed, SeedServe, NotHeld,
      requestReannounce, Nudge, Reached

-----------------------------------------------------------------------------
(* What a reload leaves behind. *)

(***************************************************************************)
(* While nothing has failed: a part whose turn in the sequence is over, or *)
(* none of whose fields changed, is built from the configuration in force, *)
(* but for the facade's deferred fields and those about to be.             *)
(***************************************************************************)
Pending == IF rpc \in {"repo", "discovery", "facade"} THEN dirty ELSE {}

Applied ==
  faults = 0 /\ phase \in {"start", "running"} =>
    /\ rpc # "repo" \/ "repoDB" \notin dirty => repo.dir = config["repoDB"]
    /\ rpc \notin {"repo", "discovery"} \/ dirty \cap DiscoveryFields = {} => DiscoveryFollows
    /\ rpc \notin {"repo", "discovery", "facade"} \/ dirty \cap FacadeFields = {} =>
         FacadeFollows(FacadeOnly \ (deferred \cup Pending))
    /\ rpc \notin {"repo", "discovery", "facade", "seed"} \/ dirty \cap SeedFields = {} => SeedFollows

(***************************************************************************)
(* Setting a field to what it holds changes nothing.                       *)
(***************************************************************************)
LEMMA NotServed ==
  ASSUME NEW a, NEW b, NEW c, NEW s, s = [addr |-> a, cache |-> b, caps |-> c, served |-> FALSE]
  PROVE  [s EXCEPT !.served = FALSE] = s
<1>1. s \in [addr : {a}, cache : {b}, caps : {c}, served : BOOLEAN] /\ s.served = FALSE
  OBVIOUS
<1> QED
  BY <1>1

(***************************************************************************)
(* Every step: without a fault, a reload step brings its part up to the    *)
(* configuration, and a part no changed field belongs to follows it already. *)
(***************************************************************************)
LEMMA AppliedStep ==
  ASSUME Process, Signal, Numbered, Voices, Built, Seeding, Listed, Servers, Applied, [Next]_vars
  PROVE  Applied'
<1> SUFFICES ASSUME faults' = 0, phase' \in {"start", "running"}
             PROVE  Applied'
  BY DEF Applied
<1> USE DEF DiscoveryFollows, FacadeFollows, SeedFollows, FacadeOnly, Pending
<1>1. CASE UNCHANGED <<faults, phase, rpc, dirty, config, repo, disc, ka, http, hcur, deferred, seed, slisten>>
  BY <1>1 DEF Applied
<1>2. CASE UNCHANGED <<faults, dirty, config, parts>> /\ phase = phase' /\ ~Locked /\ ~Locked'
  BY <1>2 DEF Applied, Locked, parts, keepers, latest, facades, servers, seeds
<1>3. CASE Boot
  <2>1. phase' = "start" /\ rpc' = "repo" /\ dirty' = Field
    BY <1>3 DEF Boot
  <2> QED
    BY <2>1 DEF Applied, Field, DiscoveryFields, FacadeFields, SeedFields
<1>4. CASE Hup \/ Receive \/ LoadConfig
  <2>1. UNCHANGED <<faults, dirty, config, parts>> /\ phase = phase'
    BY <1>4 DEF Hup, Receive, LoadConfig
  <2>2. UNCHANGED rpc \/ (~Locked /\ ~Locked')
    BY <1>4 DEF Hup, Receive, LoadConfig, Locked
  <2> QED
    BY <1>1, <1>2, <2>1, <2>2 DEF parts, keepers, latest, facades, servers, seeds
<1>5. CASE ApplyConfig
  <2>1. /\ UNCHANGED <<faults, phase, parts>> /\ rpc = "apply" /\ rpc' = "repo"
        /\ dirty' = {f \in Field : config[f] # newCfg[f]} /\ config' = newCfg
    BY <1>5 DEF ApplyConfig
  <2>2. \A f \in Field : f \notin dirty' => config'[f] = config[f]
    BY <2>1
  <2> QED
    BY <2>1, <2>2 DEF Applied, Field, DiscoveryFields, FacadeFields, SeedFields, parts,
        keepers, latest, facades, servers, seeds
<1>6. ASSUME NEW n \in Nat, n + 1 = 0
      PROVE  FALSE
  BY <1>6
<1>7. faults \in Nat /\ ~ Fault
  BY <1>6 DEF Fault, Process
<1>8. CASE StepRepo
  <2>1. /\ UNCHANGED <<faults, phase, dirty, config, disc, ka, http, hcur, deferred, seed, slisten>>
        /\ rpc = "repo" /\ rpc' = "discovery"
        /\ \/ "repoDB" \notin dirty /\ UNCHANGED repo
           \/ "repoDB" \in dirty /\ repo' = [gen |-> repo.gen + 1, dir |-> config["repoDB"]]
    BY <1>7, <1>8 DEF StepRepo, Proceed, LockedFrame, openRepositoriesLocked, facades, servers, seeds
  <2> QED
    BY <2>1 DEF Applied, DiscoveryFields, FacadeFields, SeedFields
<1>9. CASE StepDiscovery
  <2>1. /\ UNCHANGED <<faults, phase, dirty, config, repo, http, hcur, deferred, seed, slisten>>
        /\ rpc = "discovery" /\ rpc' = "facade"
    BY <1>7, <1>9 DEF StepDiscovery, Proceed, LockedFrame, facades, servers, seeds
  <2>2. DiscoveryFollows'
    <3>1. CASE startDiscoveryLocked
      BY <1>9, <2>1, <3>1, FreshKeeper DEF startDiscoveryLocked, Built, Gen
    <3>2. CASE dirty \cap DiscoveryFields = {} /\ UNCHANGED <<disc, ka>>
      BY <2>1, <3>2 DEF Applied
    <3> QED
      BY <1>7, <1>9, <3>1, <3>2 DEF StepDiscovery
  <2> QED
    BY <2>1, <2>2 DEF Applied
<1>10. CASE StepFacade
  <2>1. /\ UNCHANGED <<faults, phase, dirty, config, repo, disc, ka, seed, slisten>>
        /\ rpc = "facade" /\ rpc' = "seed"
    BY <1>10 DEF StepFacade, Proceed, LockedFrame, seeds
  <2>2. FacadeFollows(FacadeOnly \ deferred)'
    <3>1. CASE startHTTPServerLocked
      <4>1. client = config["tracker"]
        BY <2>1 DEF Applied, Listed
      <4> QED
        BY <2>1, <3>1, <4>1, FreshServer DEF startHTTPServerLocked, Built
    <3>2. CASE /\ dirty \cap FacadeFields = {} /\ UNCHANGED servers
               /\ deferred' = deferred \cup (dirty \cap FacadeOnly)
      BY <2>1, <3>2 DEF Applied, servers
    <3> QED
      BY <1>10, <3>1, <3>2 DEF StepFacade
  <2> QED
    BY <2>1, <2>2 DEF Applied
<1>11. CASE StepSeed
  <2>1. UNCHANGED <<faults, config, repo, disc, ka, http, hcur, deferred>> /\ rpc = "seed" /\ rpc' = "idle"
    BY <1>7, <1>11 DEF StepSeed, Finish, LockedFrame, facades, servers
  <2>2. phase \in {"start", "running"}
    BY <2>1, PhaseStep
  <2>3. SeedFollows'
    <3>1. CASE /\ slisten' = stopSeedServerLocked \cup {config["serving"]}
               /\ seed' = [addr |-> config["serving"], cache |-> config["cache"],
                           caps |-> config["caps"], served |-> FALSE]
      <4>1. config["serving"] # None
        BY <1>11, LockedIsSound DEF StepSeed, Locked, Sound, Value, Field, None
      <4>2. seed' # NoSeed
        BY <3>1, <4>1 DEF NoSeed
      <4>3. [seed' EXCEPT !.served = FALSE] = seed'
        <5> DEFINE s == [addr |-> config["serving"], cache |-> config["cache"],
                         caps |-> config["caps"], served |-> FALSE]
        <5>1. [s EXCEPT !.served = FALSE] = s
          BY NotServed
        <5> HIDE DEF s
        <5>2. seed' = s
          BY <3>1 DEF s
        <5> QED
          BY <5>1, <5>2
      <4> QED
        BY <2>1, <3>1, <4>2, <4>3
    <3>2. CASE dirty \cap SeedFields = {} /\ UNCHANGED seeds
      BY <2>1, <2>2, <3>2 DEF Applied, seeds
    <3>3. config["serving"] \notin stopSeedServerLocked
      BY DEF stopSeedServerLocked, Seeding
    <3> QED
      BY <1>7, <1>11, <3>1, <3>2, <3>3 DEF StepSeed
  <2> QED
    BY <2>1, <2>2, <2>3 DEF Applied
<1>12. CASE SeedServe
  <2>1. /\ UNCHANGED <<faults, phase, rpc, dirty, config, repo, disc, ka, http, hcur, deferred, slisten>>
        /\ seed' = [seed EXCEPT !.served = TRUE]
    BY <1>12 DEF SeedServe, process, keepers, latest, facades, servers
  <2>2. seed' # NoSeed /\ [seed' EXCEPT !.served = FALSE] = [seed EXCEPT !.served = FALSE]
    BY <2>1 DEF Seeding, NoSeed
  <2> QED
    BY <2>1, <2>2 DEF Applied
<1>13. ASSUME NEW g \in Gen, KeepAlive(g)
       PROVE  Applied'
  <2>1. UNCHANGED <<faults, phase, rpc, dirty, config, repo, disc, http, hcur, deferred, seed, slisten>>
    BY <1>13 DEF KeepAlive, ScanCache, Arrive, TakeDone, TakeNudge, KeeperFrame, process, facades, servers, seeds
  <2>2. disc # 0 => ka'[disc] = ka[disc]
    BY <1>13, InForce DEF KeepAlive, ScanCache, Arrive, TakeDone, TakeNudge, Built, Voices
  <2> QED
    BY <2>1, <2>2 DEF Applied
<1>14. CASE Truncate \/ WriteFile \/ WriteOldSchema \/ Generate
  BY <1>1, <1>14
  DEF Truncate, WriteFile, WriteOldSchema, Generate, Written, process, parts, keepers, latest, facades, servers, seeds
<1>15. ASSUME NEW g \in Gen, FacadeListen(g) \/ FacadeTrack(g)
       PROVE  Applied'
  BY <1>1, <1>15 DEF FacadeListen, FacadeTrack, process, keepers, latest, seeds
<1>16. CASE NotHeld \/ requestReannounce \/ Nudge
  BY <1>1, <1>16 DEF NotHeld, requestReannounce, Nudge, process, parts, keepers, latest, facades, servers, seeds
<1>17. ~ Stop
  BY DEF Stop
<1>18. CASE UNCHANGED vars
  BY <1>1, <1>18 DEF vars, process, parts, keepers, latest, facades, servers, seeds
<1> QED
  BY <1>3, <1>4, <1>5, <1>8, <1>9, <1>10, <1>11, <1>12, <1>13, <1>14, <1>15, <1>16, <1>17, <1>18
  DEF Next, Reloading

-----------------------------------------------------------------------------
(* The theorems. *)

(***************************************************************************)
(* The catalogue instances are numbered like the rest, and the history     *)
(* variables are flags and fields.                                         *)
(***************************************************************************)
Reopened == Within(repo.gen, RepoStages) /\ (phase = "boot" => repo.gen = 0)

Booleans ==
  /\ wanted \in BOOLEAN /\ overtaken \in BOOLEAN /\ unsent \in BOOLEAN /\ caught \in BOOLEAN
  /\ deferred \subseteq FacadeOnly

(***************************************************************************)
(* Every step: the catalogue is reopened at most once a reload.            *)
(***************************************************************************)
LEMMA ReopenedStep ==
  ASSUME Process, Signal, Built, Reopened, [Next]_vars
  PROVE  Reopened'
<1>0. /\ RepoStages \in {RepoStages, KeeperStages, FacadeStages} /\ repo.gen \in Nat
      /\ Within(repo.gen, RepoStages) /\ (phase = "boot" => repo.gen = 0 /\ ~sig)
  BY DEF Reopened, Signal, Built
<1>1. CASE UNCHANGED repo
  <2>1. Within(repo.gen, RepoStages)'
    BY <1>0, <1>1, WithinStep
  <2> QED
    BY <1>0, <1>1, <2>1, BootOnce DEF Reopened
<1>2. CASE StepRepo /\ openRepositoriesLocked /\ Proceed("discovery")
  <2>1. /\ rpc \in RepoStages /\ rpc' \notin RepoStages /\ UNCHANGED <<sig, hups, phase>>
        /\ phase # "boot" /\ repo'.gen = repo.gen + 1
    BY <1>2 DEF StepRepo, Proceed, openRepositoriesLocked, LockedFrame, RepoStages, Process
  <2>2. Within(repo.gen, RepoStages)'
    BY <1>0, <2>1, WithinStep
  <2> QED
    BY <2>1, <2>2 DEF Reopened
<1>3. CASE StepRepo
  BY <1>1, <1>2, <1>3 DEF StepRepo
<1>4. ASSUME NEW g \in Gen, ScanCache(g) \/ Arrive(g) \/ TakeDone(g) \/ TakeNudge(g)
      PROVE  UNCHANGED repo
  BY <1>4 DEF ScanCache, Arrive, TakeDone, TakeNudge, KeeperFrame
<1> QED
  BY <1>1, <1>3, <1>4, PartsStep
  DEF parts, StepDiscovery, StepFacade, StepSeed, Stop, FacadeListen, FacadeTrack, SeedServe, NotHeld,
      requestReannounce, Nudge

(***************************************************************************)
(* The history's Booleans, with Zenon where SMT cannot tell their type.    *)
(***************************************************************************)
LEMMA BooleansStep ==
  ASSUME Booleans, [Next]_vars
  PROVE  Booleans'
<1> USE DEF Booleans
<1>1. CASE UNCHANGED <<wanted, overtaken, unsent, caught, deferred>>
  BY <1>1
<1>2. CASE StepFacade
  <2>1. UNCHANGED <<wanted, overtaken, unsent>>
    BY <1>2 DEF StepFacade, LockedFrame, latest
  <2>2. caught' \in BOOLEAN
    BY <1>2 DEF StepFacade, startHTTPServerLocked, servers
  <2>3. deferred' \subseteq FacadeOnly
    BY <1>2 DEF StepFacade
  <2> QED
    BY <2>1, <2>2, <2>3
<1>3. ASSUME NEW g \in Gen, ScanCache(g)
      PROVE  Booleans'
  BY <1>3 DEF ScanCache, KeeperFrame, facades, servers
<1>4. ASSUME NEW g \in Gen, Arrive(g)
      PROVE  Booleans'
  BY <1>4 DEF Arrive, KeeperFrame, facades, servers
<1>5. ASSUME NEW g \in Gen, TakeDone(g) \/ TakeNudge(g)
      PROVE  UNCHANGED <<wanted, overtaken, unsent, caught, deferred>>
  BY <1>5 DEF TakeDone, TakeNudge, KeeperFrame, facades, servers, latest
<1>6. CASE NotHeld
  BY <1>6 DEF NotHeld, facades, servers, latest
<1>7. CASE StepRepo \/ StepSeed
  BY <1>1, <1>7 DEF StepRepo, StepSeed, LockedFrame, facades, servers, latest
<1>11. CASE StepDiscovery \/ Stop
  <2>1. UNCHANGED <<wanted, caught, deferred>>
    BY <1>11 DEF StepDiscovery, Stop, LockedFrame, facades, servers
  <2>2. UNCHANGED <<overtaken, unsent>> \/ (overtaken' = FALSE /\ unsent' = FALSE)
    BY <1>11 DEF StepDiscovery, Stop, Unannounced, latest
  <2> QED
    BY <2>1, <2>2
<1>8. CASE SeedServe \/ requestReannounce \/ Nudge
  BY <1>1, <1>8 DEF SeedServe, requestReannounce, Nudge, parts, keepers, latest, facades, servers
<1>9. ASSUME NEW g \in Gen, FacadeListen(g) \/ FacadeTrack(g)
      PROVE  UNCHANGED <<wanted, overtaken, unsent, caught, deferred>>
  BY <1>9 DEF FacadeListen, FacadeTrack, keepers, latest
<1>10. CASE UNCHANGED <<parts, requests>>
  BY <1>1, <1>10 DEF parts, keepers, latest, facades, servers
<1> QED
  BY <1>1, <1>2, <1>3, <1>4, <1>5, <1>6, <1>7, <1>8, <1>9, <1>10, <1>11, PartsStep

(***************************************************************************)
(* All of it together is inductive.                                        *)
(***************************************************************************)
Inv ==
  /\ Process /\ OnPath /\ Signal
  /\ Numbered /\ Voices /\ Heard
  /\ Built /\ Seeding /\ Listed
  /\ Servers /\ Reached
  /\ Applied /\ Reopened /\ Booleans

(***************************************************************************)
(* The inductive invariant holds before the process starts.                *)
(***************************************************************************)
LEMMA InvInit ==
  ASSUME Init
  PROVE  Inv
<1> USE DEF Init
<1>1. Process
  BY DaemonAssumption DEF Process, Locked, DefaultConfig, Field, Value, None
<1>2. OnPath
  <2>1. file \in BootFiles
    OBVIOUS
  <2> HIDE DEF Init
  <2>2. file.st = "json" => Settings(file.keys)
    BY <2>1, DaemonAssumption
  <2>3. file.st \in {"missing", "corrupt", "legacy", "json"}
    BY <2>1, DaemonAssumption
  <2> QED
    BY <2>2, <2>3 DEF OnPath
<1>3. Signal
  BY DEF Signal
<1>4. Started = 0 /\ {g \in Gen : kst[g] # "none"} = {}
  BY FS_EmptySet DEF Started
<1>5. Numbered
  BY <1>4 DEF Numbered, Within, KeeperStages
<1>6. Voices
  BY <1>4 DEF Voices, OneVoice
<1>7. Heard
  BY <1>4 DEF Heard, Idle, None
<1>8. Built
  BY DEF Built, NoKeepAlive, NoServer, Runnable, None
<1>9. Seeding
  BY DEF Seeding, NoSeed, Runnable, None
<1>10. Listed
  BY DEF Listed, NoEntry, Runnable, None
<1>11. Servers
  BY DEF Servers, Within, FacadeStages, GoState
<1>12. Reached
  BY DEF Reached
<1>13. Applied
  BY DEF Applied
<1>14. Reopened
  BY DEF Reopened, Within, RepoStages
<1>15. Booleans
  BY DEF Booleans
<1> QED
  BY <1>1, <1>2, <1>3, <1>5, <1>6, <1>7, <1>8, <1>9, <1>10, <1>11, <1>12, <1>13, <1>14, <1>15 DEF Inv

(***************************************************************************)
(* The inductive invariant holds in every reachable state.                 *)
(***************************************************************************)
LEMMA Inductive ==
  Spec => []Inv
<1>1. Inv /\ [Next]_vars => Inv'
  BY ProcessStep, NumberedStep, VoicesStep, HeardStep, BuiltStep, SeedingStep, ListedStep, ServersStep,
     ReachedStep, AppliedStep, ReopenedStep, BooleansStep DEF Inv
<1> QED
  BY <1>1, InvInit, PTL DEF Spec

(***************************************************************************)
(* Every variable has its type, with Gen large enough: no sequence of      *)
(* signals starts more catalogues, keep-alives or servers than are         *)
(* numbered, and while a discovery is in force the nudge the seed server   *)
(* holds is its own (startDiscoveryLocked, stopDiscoveryLocked).           *)
(***************************************************************************)
THEOREM TypeCorrect == Spec => []TypeOK
<1>1. Inv => TypeOK
  <2> SUFFICES ASSUME Inv PROVE TypeOK
    OBVIOUS
  <2>0. hups \in Nat /\ hups <= MaxHups /\ MaxHups \in Nat
    BY DaemonAssumption DEF Inv, Process
  <2>1. repo.gen \in Gen \cup {0}
    <3>1. repo.gen \in Nat /\ repo.gen <= 1 + hups
      BY <2>0 DEF Inv, Built, Reopened, Within
    <3> QED
      BY <2>0, <3>1 DEF Gen
  <2>2. hcur \in Gen \cup {0} /\ hclosed \subseteq Gen
    <3>1. hcur \in Nat /\ hcur <= 1 + hups /\ hclosed \subseteq 1..hcur
      BY <2>0 DEF Inv, Servers, Within
    <3> QED
      BY <2>0, <3>1 DEF Gen
  <2>3. disc \in Gen \cup {0} /\ done \subseteq Gen /\ nudged \subseteq Gen \cup {Orphan}
    <3>1. 1..Started \subseteq Gen
      BY DEF Inv, Numbered
    <3>2. disc \in 0..Started /\ done \subseteq 1..Started
          /\ nudged \subseteq 1..Started \cup {Orphan} /\ Started \in Nat
      BY DEF Inv, Voices, Heard, Numbered
    <3>3. disc = 0 \/ disc \in 1..Started
      BY <3>2
    <3> QED
      BY <3>1, <3>2, <3>3
  <2>4. {sig, unread, wanted, overtaken, unsent, caught} \subseteq BOOLEAN
        /\ deferred \subseteq FacadeOnly
    BY DEF Inv, Signal, Booleans
  <2>5. /\ phase \in {"boot", "start", "running", "stopped", "exited"}
        /\ rpc \in {"idle", "load", "apply", "repo", "discovery", "facade", "seed"}
        /\ result \in {None, "ok", "refused", "failed", "in use"}
        /\ {config, newCfg} \subseteq [Field -> Value] /\ dirty \subseteq Field
        /\ writer \in {"idle", "open", "detached"}
    BY DEF Inv, Process
  <2>6. /\ file.st \in {"missing", "corrupt", "legacy", "json"}
        /\ reannounce \in {disc} \cup (IF disc = 0 THEN {Orphan} ELSE {})
    BY DEF Inv, OnPath, Voices
  <2>7. kst \in [Gen -> {"none", "scan", "sending", "select", "exited"}]
    BY DEF Inv, Numbered
  <2> QED
    BY <2>1, <2>2, <2>3, <2>4, <2>5, <2>6, <2>7 DEF TypeOK
<1> QED
  BY <1>1, Inductive, PTL

(***************************************************************************)
(* Reloads never leave an older keep-alive running that was not told to    *)
(* stop, after any sequence of signals, faults and Stop.                   *)
(***************************************************************************)
THEOREM OneKeepAliveSpeaks == Spec => []OneVoice
<1>1. Inv => OneVoice
  BY DEF Inv, Voices
<1> QED
  BY <1>1, Inductive, PTL

(***************************************************************************)
(* No part ever runs on a value the checks refuse, whatever was on the     *)
(* path when a signal came, half-written files included.                   *)
(***************************************************************************)
THEOREM OnlySoundValuesRun == Spec => []NoBadValueRuns
<1>1. Inv => NoBadValueRuns
  <2> SUFFICES ASSUME Inv PROVE NoBadValueRuns
    OBVIOUS
  <2>1. \A v \in Runnable : v \notin {"bad", "nohost"}
    BY DEF Runnable, Sound, None
  <2>2. {seed.addr, seed.cache, seed.caps, repo.dir, client} \subseteq Runnable
    BY DEF Inv, Built, Seeding
  <2>3. UNION {{ka[g].tracker, ka[g].port, ka[g].cache} : g \in Gen} \subseteq Runnable
    <3>1. \A g \in Gen : {ka[g].tracker, ka[g].port, ka[g].cache} \subseteq Runnable
      BY DEF Inv, Built
    <3> QED
      BY <3>1
  <2>4. UNION {{http[g].addr, http[g].upstream, http[g].temp} : g \in Gen} \subseteq Runnable
    <3>1. \A g \in Gen : {http[g].addr, http[g].upstream, http[g].temp} \subseteq Runnable
      BY DEF Inv, Built
    <3> QED
      BY <3>1
  <2> DEFINE all == {seed.addr, seed.cache, seed.caps, repo.dir, client}
                    \cup (UNION {{ka[g].tracker, ka[g].port, ka[g].cache} : g \in Gen})
                    \cup (UNION {{http[g].addr, http[g].upstream, http[g].temp} : g \in Gen})
  <2>5. all \subseteq Runnable
    BY <2>2, <2>3, <2>4
  <2> HIDE DEF all
  <2>6. all \cap {"bad", "nohost"} = {}
    BY <2>1, <2>5
  <2> QED
    BY <2>6 DEF NoBadValueRuns, all
<1> QED
  BY <1>1, Inductive, PTL

(***************************************************************************)
(* A restarted seed server never finds its own port taken, whether or not  *)
(* the old Serve goroutine has run.                                        *)
(***************************************************************************)
THEOREM OwnPortAlwaysFree == Spec => []OwnPortFree
<1>1. Inv => OwnPortFree
  <2> SUFFICES ASSUME Inv PROVE OwnPortFree
    OBVIOUS
  <2>1. slisten = {} \/ slisten = {seed.addr}
    BY DEF Inv, Seeding
  <2>2. Cardinality({}) = 0 /\ Cardinality({seed.addr}) = 1
    BY FS_EmptySet, FS_Singleton
  <2>3. Cardinality(slisten) <= 1
    <3>1. CASE slisten = {}
      BY <2>2, <3>1
    <3>2. CASE slisten = {seed.addr}
      BY <2>2, <3>2
    <3> QED
      BY <2>1, <3>1, <3>2
  <2>4. result # "in use"
    BY DEF Inv, Seeding
  <2> QED
    BY <2>3, <2>4 DEF OwnPortFree
<1> QED
  BY <1>1, Inductive, PTL

(***************************************************************************)
(* A request for a package that is not held is not forgotten when a reload *)
(* replaces the keep-alive while the handler is on its way.                *)
(***************************************************************************)
THEOREM RequestsReachTheKeepAlive == Spec => []NoRequestLost
<1>1. Inv => NoRequestLost
  BY DEF Inv, Heard, NoRequestLost, Idle, None
<1> QED
  BY <1>1, Inductive, PTL

(***************************************************************************)
(* However many keep-alives are replaced while they announce, the tracker  *)
(* in force lists what is in force, unless an old announce came last or    *)
(* the latest one of the current keep-alive failed.                        *)
(***************************************************************************)
THEOREM StaleEntryOnlyIfOvertakenOrUnsent == Spec => []StaleOnlyIfOvertakenOrUnsent
<1>1. Inv => StaleOnlyIfOvertakenOrUnsent
  <2> SUFFICES ASSUME Inv, disc # 0, ~overtaken, ~unsent, \A g \in Gen : kst[g] \in {"none", "select", "exited"}
               PROVE  entry[ka[disc].tracker] = [port |-> ka[disc].port, cache |-> ka[disc].cache]
    BY DEF StaleOnlyIfOvertakenOrUnsent
  <2>1. disc \in Gen /\ kst[disc] \in {"scan", "sending", "select"}
    BY InForce DEF Inv
  <2>2. kst[disc] = "select"
    BY <2>1
  <2> QED
    BY <2>2 DEF Inv, Listed
<1> QED
  BY <1>1, Inductive, PTL

(***************************************************************************)
(* A running daemon whose goroutines have had their turn serves the facade *)
(* in force, unless a reload caught one between bind and registration.     *)
(***************************************************************************)
THEOREM FacadeServedUnlessCaught == Spec => []FacadeLostOnlyIfCaught
<1>1. Inv => FacadeLostOnlyIfCaught
  <2> SUFFICES ASSUME Inv, phase = "running", ~caught,
                      \A g \in Gen : hgo[g].st \notin {"spawned", "bound"}
               PROVE  \E g \in Gen : hgo[g] = [st |-> "serving", srv |-> hcur]
    BY DEF FacadeLostOnlyIfCaught
  <2>1. hcur \in Gen
    <3>1. hups \in Nat /\ hups <= MaxHups /\ MaxHups \in Nat /\ hcur \in Nat /\ hcur # 0
      BY DaemonAssumption DEF Inv, Process, Servers
    <3>2. hcur <= 1 + hups
      BY <3>1 DEF Inv, Servers, Within
    <3> QED
      BY <3>1, <3>2 DEF Gen
  <2>2. PICK g \in Gen : hgo[g].st \in {"bound", "serving"}
    BY <2>1 DEF Inv, Reached, Gen
  <2>3. hgo[g].st = "serving" /\ hgo[g].srv = hcur
    BY <2>2 DEF Inv, Reached
  <2>4. hgo[g] \in [st : GoState, srv : Nat]
    BY DEF Inv, Servers
  <2> QED
    BY <2>3, <2>4
<1> QED
  BY <1>1, Inductive, PTL

(***************************************************************************)
(* As long as no step of a reload has failed, a daemon that is not         *)
(* reloading has the catalogue, the keep-alive, the facade and the seed    *)
(* server of the configuration in force, after every sequence of edits,    *)
(* but for a new upstream_url or temp_dir that no other change has brought *)
(* to the facade yet: each part's set of fields misses nothing else that   *)
(* it is built from.  With a failed step it does not hold (run             *)
(* daemon_partial_reload).                                                 *)
(***************************************************************************)
THEOREM ReloadAppliesAllButDeferred == Spec => [](faults = 0 => AppliedUnlessDeferred)
<1>1. Inv => (faults = 0 => AppliedUnlessDeferred)
  BY DEF Inv, Applied, AppliedUnlessDeferred, Succeeded, Pending
<1> QED
  BY <1>1, Inductive, PTL

-----------------------------------------------------------------------------
(* Signals and the reloads they cause. *)

(***************************************************************************)
(* A running daemon has a signal behind every one it holds and every       *)
(* reload it is in, start-up ends at its first fault, and after a fault    *)
(* the first reload is the last: nothing is left that would try again.     *)
(***************************************************************************)
Counted ==
  /\ phase \in {"boot", "start"} => faults = 0
  /\ phase = "running" =>
       /\ sig => hups > 0
       /\ rpc # "idle" => hups > 0
       /\ sig /\ rpc # "idle" => hups > 1
       /\ hups = 0 => faults = 0
       /\ hups = 1 /\ faults # 0 => rpc = "idle" /\ ~sig /\ result = "failed"

(***************************************************************************)
(* A step of a reload goes on to the next one, or ends the sequence; a     *)
(* fault ends it as failed.                                                *)
(***************************************************************************)
LEMMA ReloadStep ==
  ASSUME StepRepo \/ StepDiscovery \/ StepFacade \/ StepSeed
  PROVE  /\ Locked /\ UNCHANGED <<sig, hups, unread>>
         /\ \/ rpc' # "idle" /\ rpc' # "load" /\ UNCHANGED <<phase, faults, result>>
            \/ rpc' = "idle" /\ UNCHANGED faults
               /\ phase' \in {IF phase = "start" THEN "running" ELSE phase, "exited"}
            \/ /\ rpc' = "idle" /\ result' = "failed"
               /\ phase' = IF phase = "start" THEN "exited" ELSE phase
<1>1. UNCHANGED <<sig, hups, unread>> /\ Locked
  BY DEF StepRepo, StepDiscovery, StepFacade, StepSeed, LockedFrame, Locked
<1>2. CASE Fault
  BY <1>1, <1>2 DEF Fault, Finish
<1>3. CASE StepRepo /\ ~Fault
  BY <1>1, <1>3 DEF StepRepo, Proceed
<1>4. CASE StepDiscovery /\ ~Fault
  BY <1>1, <1>4 DEF StepDiscovery, Proceed
<1>5. CASE StepFacade
  BY <1>1, <1>5 DEF StepFacade, Proceed
<1>6. CASE StepSeed /\ ~Fault
  <2>1. UNCHANGED faults /\ \E res \in {"ok", "in use"} : Finish(res)
    BY <1>6 DEF StepSeed
  <2> QED
    BY <1>1, <2>1 DEF Finish
<1> QED
  BY <1>2, <1>3, <1>4, <1>5, <1>6

(***************************************************************************)
(* Counted is kept: a reload uses up its signal, and a step fails only     *)
(* inside one.                                                             *)
(***************************************************************************)
LEMMA CountedStep ==
  ASSUME Process, Signal, Counted, [Next]_vars
  PROVE  Counted'
<1> USE DEF Counted
<1>1. CASE UNCHANGED <<phase, faults, sig, rpc, hups, result>>
  BY <1>1
<1>2. CASE Truncate \/ WriteFile \/ WriteOldSchema \/ Generate
  BY <1>1, <1>2 DEF Truncate, WriteFile, WriteOldSchema, Generate, Written, process
<1>3. CASE Hup
  <2>1. /\ hups \in Nat /\ hups' = hups + 1 /\ UNCHANGED <<faults, result>>
        /\ phase' = "exited" \/ phase' = "stopped" \/ (phase' = "running" /\ phase = "running" /\ rpc' = rpc)
    BY <1>3 DEF Hup, Process
  <2>2. hups' > 0 /\ hups' # 0 /\ (hups' = 1 => hups = 0) /\ (hups > 0 => hups' > 1)
    BY <2>1
  <2>3. CASE phase' = "running"
    <3>1. phase = "running" /\ rpc' = rpc /\ faults' = faults
      BY <2>1, <2>3
    <3>2. rpc' # "idle" => hups' > 1
      BY <2>2, <3>1
    <3>3. hups' = 1 => faults' = 0
      BY <2>2, <3>1
    <3> QED
      BY <2>2, <2>3, <3>2, <3>3
  <2> QED
    BY <2>1, <2>3
<1>4. CASE Boot
  BY <1>4 DEF Boot
<1>5. CASE Receive
  <2>1. /\ sig /\ ~sig' /\ UNCHANGED <<phase, faults, hups, result>>
        /\ phase \notin {"boot", "start"}
    BY <1>5 DEF Receive, Signal
  <2> QED
    BY <2>1
<1>10. CASE LoadConfig \/ ApplyConfig
  <2>1. rpc # "idle" /\ UNCHANGED <<phase, faults, hups, sig>> /\ phase \notin {"boot", "start"}
    BY <1>10 DEF LoadConfig, ApplyConfig, Process, Locked
  <2>2. phase = "running" /\ hups = 1 => faults = 0
    BY <2>1
  <2> QED
    BY <2>1, <2>2
<1>6. CASE StepRepo \/ StepDiscovery \/ StepFacade \/ StepSeed
  <2>1. rpc # "idle" /\ UNCHANGED <<sig, hups>> /\ phase \notin {"boot", "exited"}
    BY <1>6, ReloadStep DEF Process, Locked
  <2>2. CASE phase = "running"
    <3>1. hups > 0 /\ (sig => hups > 1) /\ (hups = 1 => faults = 0 /\ ~sig)
      <4>1. hups > 0 /\ (sig => hups > 1) /\ (hups = 1 => faults = 0)
        BY <2>1, <2>2, Zenon
      <4>2. hups = 1 => ~(hups > 1)
        OBVIOUS
      <4> QED
        BY <4>1, <4>2, Zenon
    <3>2. phase' # "boot" /\ phase' # "start"
      BY <1>6, <2>2, ReloadStep
    <3>3. hups # 0
      <4>1. \A n \in Nat : n > 0 => n # 0
        OBVIOUS
      <4> QED
        BY <3>1, <4>1, Zenon DEF Process
    <3> QED
      BY <1>6, <2>1, <3>1, <3>2, <3>3, ReloadStep
  <2>3. CASE phase = "start"
    <3>1. faults = 0 /\ ~sig
      BY <2>3 DEF Signal
    <3> QED
      BY <1>6, <2>1, <2>3, <3>1, ReloadStep
  <2>4. CASE phase = "stopped"
    BY <1>6, <2>4, ReloadStep
  <2> QED
    BY <2>1, <2>2, <2>3, <2>4 DEF Process
<1>7. CASE Stop
  BY <1>7 DEF Stop
<1>8. ASSUME NEW g \in Gen, FacadeListen(g) \/ FacadeTrack(g) \/ KeepAlive(g)
      PROVE  UNCHANGED <<phase, faults, sig, rpc, hups, result>>
  BY <1>8 DEF FacadeListen, FacadeTrack, KeepAlive, ScanCache, Arrive, TakeDone, TakeNudge,
              KeeperFrame, process
<1>9. CASE SeedServe \/ NotHeld \/ requestReannounce \/ Nudge
  BY <1>1, <1>9 DEF SeedServe, NotHeld, requestReannounce, Nudge, process
<1> QED
  BY <1>1, <1>2, <1>3, <1>4, <1>5, <1>6, <1>7, <1>8, <1>9, <1>10 DEF Next, vars, Reloading, process

(***************************************************************************)
(* The count holds in every reachable state.                               *)
(***************************************************************************)
LEMMA AlwaysCounted == Spec => []Counted
<1>1. Init => Counted
  BY DEF Init, Counted
<1>2. Inv /\ Counted /\ [Next]_vars => Counted'
  BY CountedStep DEF Inv
<1> QED
  BY <1>1, <1>2, Inductive, PTL DEF Spec

(***************************************************************************)
(* Up to and including the first reload, a daemon that does not report a   *)
(* failure has every part of the configuration in force, deferred fields   *)
(* of the facade apart, whichever step of start-up or of that reload       *)
(* fails.  It takes the reload after a failed one to claim a success that  *)
(* is none (run daemon_partial_reload).                                    *)
(***************************************************************************)
THEOREM FirstReloadIsHonest == Spec => [](hups <= 1 => AppliedUnlessDeferred)
<1>0. \A n \in Nat : n <= 1 => n = 0 \/ n = 1
  OBVIOUS
<1>1. Inv /\ Counted => (hups <= 1 => AppliedUnlessDeferred)
  <2> SUFFICES ASSUME Inv, Counted, hups <= 1,
                      phase = "running", rpc = "idle", result \notin {"failed", "in use"}
               PROVE  AppliedUnlessDeferred
    BY DEF AppliedUnlessDeferred, Succeeded
  <2>1. hups = 0 \/ hups = 1
    <3>1. hups \in Nat
      BY DEF Inv, Process
    <3> QED
      BY <1>0, <3>1, Zenon
  <2>2. faults = 0
    BY <2>1 DEF Counted
  <2> QED
    BY <2>2 DEF Inv, Applied, AppliedUnlessDeferred, Succeeded, Pending
<1> QED
  BY <1>1, Inductive, AlwaysCounted, PTL

(***************************************************************************)
(* A SIGHUP that a running daemon has not acted on is held, in the channel *)
(* or by a reload that has yet to read the file: the safety half of        *)
(* EverySighupLoads, after any number of signals.                          *)
(***************************************************************************)
Held == unread => sig \/ rpc = "load"

(***************************************************************************)
(* No SIGHUP is lost between the one-slot signal channel and Reload: that  *)
(* it leads to a load then only needs the SIGHUP goroutine to run.         *)
(***************************************************************************)
THEOREM SighupIsHeld == Spec => []Held
<1>1. Init => Held
  BY DEF Init, Held
<1>2. Inv /\ Held /\ [Next]_vars => Held'
  <2> SUFFICES ASSUME Inv, Held, [Next]_vars PROVE Held'
    OBVIOUS
  <2> USE DEF Held
  <2>1. CASE UNCHANGED <<unread, sig, rpc>>
    BY <2>1
  <2>2. CASE Truncate \/ WriteFile \/ WriteOldSchema \/ Generate
    BY <2>1, <2>2 DEF Truncate, WriteFile, WriteOldSchema, Generate, Written, process
  <2>3. CASE Hup
    <3>1. CASE phase \in {"boot", "start"}
      <4>1. ~sig /\ rpc # "load"
        BY <3>1 DEF Inv, Process, Signal, Locked
      <4> QED
        BY <2>3, <3>1, <4>1 DEF Hup
    <3>2. CASE phase \notin {"boot", "start"}
      BY <2>3, <3>2 DEF Hup
    <3> QED
      BY <3>1, <3>2
  <2>4. CASE Boot
    BY <2>4 DEF Boot, Inv, Process, Signal
  <2>5. CASE Receive \/ LoadConfig \/ ApplyConfig
    BY <2>5 DEF Receive, LoadConfig, ApplyConfig
  <2>6. CASE StepRepo \/ StepDiscovery \/ StepFacade \/ StepSeed
    BY <2>6, ReloadStep DEF Locked
  <2>7. CASE Stop
    BY <2>1, <2>7 DEF Stop
  <2>8. ASSUME NEW g \in Gen, FacadeListen(g) \/ FacadeTrack(g) \/ KeepAlive(g)
        PROVE  UNCHANGED <<unread, sig, rpc>>
    BY <2>8 DEF FacadeListen, FacadeTrack, KeepAlive, ScanCache, Arrive, TakeDone, TakeNudge,
                KeeperFrame, process
  <2>9. CASE SeedServe \/ NotHeld \/ requestReannounce \/ Nudge
    BY <2>1, <2>9 DEF SeedServe, NotHeld, requestReannounce, Nudge, process
  <2> QED
    BY <2>1, <2>2, <2>3, <2>4, <2>5, <2>6, <2>7, <2>8, <2>9 DEF Next, vars, Reloading, process
<1> QED
  BY <1>1, <1>2, Inductive, PTL DEF Spec
=============================================================================
