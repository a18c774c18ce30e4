----------------------------- MODULE SeedServer -----------------------------
(***************************************************************************)
(* The seeder: peer.Server (internal/peer/serve.go) with its admission     *)
(* control (internal/peer/limit.go) over pkg's cache                       *)
(* (internal/daemon/cachesource.go), handling many requests at once while  *)
(* the daemon may start and stop it.                                       *)
(***************************************************************************)
EXTENDS Integers, FiniteSets, Functions

CONSTANTS Handler,   \* names for requests in progress, reused when one ends
          IP,        \* remote addresses
          Package,   \* name-versions
          MaxConcurrentSeeds, MaxConcurrentSeedsPerIP   \* 0 means unlimited

ASSUME SeedAssumption ==
  /\ MaxConcurrentSeeds \in Nat
  /\ MaxConcurrentSeedsPerIP \in Nat
  /\ IsFiniteSet(Handler)

VARIABLES global,      \* seedLimiter.global
          perIP,       \* seedLimiter.perIP, a map with no entry for an idle address
          pc,          \* where each handler is
          from,        \* remoteIP of the request, for each handler that has one
          wanted,      \* the package it asks for
          held,        \* packages Open resolves: their plain name leads to a file
          files,       \* packages Scan lists: their file is there, under its hashed name
          telling,     \* packages an OnNotHeld goroutine is still to run for
          nudged,      \* the keep-alive's nudge channel
          announced,   \* the list the tracker has
          closed,      \* Server.closed
          http,        \* Server.http: not made, made, or shut down
          closing,     \* how far Close is
          serve,       \* how far the goroutine running Serve is
          listening,   \* whether serving_addr is bound
          \* History, read by the properties only:
          unsent       \* the latest re-announcement failed

limiter == <<global, perIP>>
handler == <<pc, from, wanted, telling>>
server  == <<closed, http, closing, serve, listening>>
cache   == <<held, files, announced, unsent>>
vars    == <<limiter, handler, cache, nudged, server>>

Init ==
  /\ global = 0
  /\ perIP = [ip \in {} |-> 0]
  /\ pc = [h \in Handler |-> "idle"]
  /\ from = [h \in {} |-> 0]
  /\ wanted = [h \in {} |-> 0]
  /\ held \in SUBSET Package
  /\ files \in SUBSET Package
  /\ telling = {}
  /\ nudged = FALSE
  /\ announced \in {{}, files}
  /\ unsent = FALSE
  /\ closed = FALSE
  /\ http = "nil"
  /\ closing = "no"
  /\ serve = "start"
  /\ listening = TRUE

-----------------------------------------------------------------------------
(* Serve and Close. *)

(***************************************************************************)
(* Serve's critical section.  A Close that came first is honoured: the     *)
(* listener goes and nothing is served.                                    *)
(***************************************************************************)
BugIgnoreClosed ==
  /\ serve = "start"
  /\ http' = "made"
  /\ serve' = "ready"
  /\ UNCHANGED <<limiter, handler, cache, nudged, closed, closing, listening>>

Serve ==
  /\ serve = "start"
  /\ \/ /\ closed
        /\ listening' = FALSE
        /\ serve' = "returned"
        /\ UNCHANGED http
     \/ /\ ~closed
        /\ http' = IF http = "nil" THEN "made" ELSE http
        /\ serve' = "ready"
        /\ UNCHANGED listening
  /\ UNCHANGED <<limiter, handler, cache, nudged, closed, closing>>

(***************************************************************************)
(* http.Server.Serve (external): a server shut down in the meantime closes *)
(* its listener and returns.                                               *)
(***************************************************************************)
HTTPServe ==
  /\ serve = "ready"
  /\ IF http = "shut"
     THEN serve' = "returned" /\ listening' = FALSE
     ELSE serve' = "serving" /\ UNCHANGED listening
  /\ UNCHANGED <<limiter, handler, cache, nudged, closed, http, closing>>

(***************************************************************************)
(* Close: the flag under the lock, then http.Server.Close if there is one. *)
(***************************************************************************)
Close ==
  /\ closing = "no"
  /\ closed' = TRUE
  /\ closing' = IF http = "nil" THEN "returned" ELSE "shutting"
  /\ UNCHANGED <<limiter, handler, cache, nudged, http, serve, listening>>

HTTPClose ==
  /\ closing = "shutting"
  /\ http' = "shut"
  /\ closing' = "returned"
  /\ IF serve = "serving"
     THEN serve' = "returned" /\ listening' = FALSE
     ELSE UNCHANGED <<serve, listening>>
  /\ UNCHANGED <<limiter, handler, cache, nudged, closed>>

-----------------------------------------------------------------------------
(* ServeHTTP. *)

Go(h, label) == pc' = [pc EXCEPT ![h] = label]

(* m[k] = v on a map. *)
Put(m, k, v) == [i \in DOMAIN m \cup {k} |-> IF i = k THEN v ELSE m[i]]

(***************************************************************************)
(* A request arrives.  A wrong method (405) or path (400) is turned away   *)
(* before it can take a slot and leaves nothing behind.                    *)
(***************************************************************************)
Arrive(h) ==
  /\ pc[h] = "idle" /\ serve = "serving"
  /\ \E ip \in IP : from' = Put(from, h, ip)
  /\ \E p \in Package : wanted' = Put(wanted, h, p)
  /\ Go(h, "admission")
  /\ UNCHANGED <<limiter, telling, cache, nudged, server>>

(* The handler returns; its locals go with it. *)
Done(h) ==
  /\ Go(h, "idle")
  /\ from' = Restrict(from, DOMAIN from \ {h})
  /\ wanted' = Restrict(wanted, DOMAIN wanted \ {h})

(***************************************************************************)
(* acquire: one slot from each cap or none.                                *)
(***************************************************************************)
InUse(ip) == IF ip \in DOMAIN perIP THEN perIP[ip] ELSE 0

BugCapOffByOne(ip) ==
  \/ MaxConcurrentSeeds > 0 /\ global >= MaxConcurrentSeeds
  \/ MaxConcurrentSeedsPerIP > 0 /\ InUse(ip) > MaxConcurrentSeedsPerIP

Full(ip) ==
  \/ MaxConcurrentSeeds > 0 /\ global >= MaxConcurrentSeeds
  \/ MaxConcurrentSeedsPerIP > 0 /\ InUse(ip) >= MaxConcurrentSeedsPerIP

acquire(ip) ==
  /\ global' = global + 1
  /\ perIP' = Put(perIP, ip, InUse(ip) + 1)

BugReleasedTwice(ip) ==
  /\ global' = global - 2
  /\ perIP' = Restrict(perIP, DOMAIN perIP \ {ip})

BugKeepZeroEntry(ip) ==
  /\ global' = global - 1
  /\ perIP' = [perIP EXCEPT ![ip] = @ - 1]

release(ip) ==
  /\ global' = global - 1
  /\ perIP' = IF perIP[ip] - 1 <= 0 THEN Restrict(perIP, DOMAIN perIP \ {ip})
              ELSE [perIP EXCEPT ![ip] = @ - 1]

(* No slot: 503 at once. *)
Admit(h) ==
  /\ pc[h] = "admission"
  /\ \/ Full(from[h]) /\ Done(h) /\ UNCHANGED limiter
     \/ ~Full(from[h]) /\ acquire(from[h]) /\ Go(h, "open") /\ UNCHANGED <<from, wanted>>
  /\ UNCHANGED <<telling, cache, nudged, server>>

(***************************************************************************)
(* open: the package is served from the descriptor, or it is not held      *)
(* (404) and a goroutine is sent to have the cache re-announced.           *)
(***************************************************************************)
Resolves(p) == p \in held

Open(h) ==
  /\ pc[h] = "open"
  /\ \/ Resolves(wanted[h]) /\ Go(h, "answer") /\ UNCHANGED telling
     \/ ~Resolves(wanted[h]) /\ Go(h, "answer") /\ telling' = telling \cup {wanted[h]}
  /\ UNCHANGED <<limiter, from, wanted, cache, nudged, server>>

(***************************************************************************)
(* The 404 is written, or the transfer ends or is cut off, and the         *)
(* deferred release runs.                                                  *)
(***************************************************************************)
Return(h) ==
  /\ pc[h] = "answer"
  /\ release(from[h]) /\ Done(h)
  /\ UNCHANGED <<telling, cache, nudged, server>>

(***************************************************************************)
(* Daemon.requestReannounce, from the OnNotHeld goroutine.                 *)
(***************************************************************************)
BugNoNudge(p) ==
  /\ p \in telling /\ telling' = telling \ {p}
  /\ UNCHANGED <<limiter, pc, from, wanted, cache, nudged, server>>

OnNotHeld(p) ==
  /\ p \in telling /\ telling' = telling \ {p}
  /\ nudged' = TRUE
  /\ UNCHANGED <<limiter, pc, from, wanted, cache, server>>

(***************************************************************************)
(* The keep-alive (Discovery.tla has all of it) takes the nudge, scans and *)
(* announces what the scan lists, which need not be what Open resolves.    *)
(* A scan that fails, an announcement that does not arrive and one whose   *)
(* answer is lost end the attempt; nothing asks for another.               *)
(***************************************************************************)
TakeNudge ==
  /\ nudged
  /\ nudged' = FALSE
  /\ \/ announced' = files /\ unsent' = FALSE
     \/ announced' \in {announced, files} /\ unsent' = TRUE
  /\ UNCHANGED <<limiter, handler, held, files, server>>

(***************************************************************************)
(* pkg changes its cache by a step that no file event is handled for: a    *)
(* rename, or a removal the watcher has not got to yet.  A file and the    *)
(* plain name beside it come and go on their own.                          *)
(***************************************************************************)
CacheDrifts ==
  /\ held' \in SUBSET Package
  /\ files' \in SUBSET Package
  /\ UNCHANGED <<limiter, handler, announced, unsent, nudged, server>>

Next ==
  \/ Serve \/ HTTPServe \/ Close \/ HTTPClose
  \/ \E h \in Handler :
       Arrive(h) \/ Admit(h) \/ Open(h) \/ Return(h)
  \/ \E p \in Package : OnNotHeld(p)
  \/ TakeNudge
  \/ CacheDrifts

Spec == Init /\ [][Next]_vars

(***************************************************************************)
(* Goroutines run: Serve's, Close's caller, OnNotHeld's and the            *)
(* keep-alive's.  Nothing is assumed of requesters: a transfer may last    *)
(* for ever.                                                               *)
(***************************************************************************)
FairSpec ==
  /\ Spec
  /\ WF_vars(Serve) /\ WF_vars(HTTPServe) /\ WF_vars(HTTPClose)
  /\ \A p \in Package : WF_vars(OnNotHeld(p))
  /\ WF_vars(TakeNudge)

-----------------------------------------------------------------------------
(* What has to hold. *)

Holding == {h \in Handler : pc[h] \in {"open", "answer"}}

(***************************************************************************)
(* Counters, handler states and lifecycle flags have their types; the      *)
(* occupancy counters, plain ints in the code, never go negative.          *)
(***************************************************************************)
TypeOK ==
  /\ global \in Nat
  /\ DOMAIN perIP \subseteq IP
  /\ perIP \in [DOMAIN perIP -> Nat]
  /\ pc \in [Handler -> {"idle", "admission", "open", "answer"}]
  /\ from \in [{h \in Handler : pc[h] # "idle"} -> IP]
  /\ wanted \in [{h \in Handler : pc[h] # "idle"} -> Package]
  /\ held \subseteq Package
  /\ files \subseteq Package
  /\ announced \subseteq Package
  /\ unsent \in BOOLEAN
  /\ telling \subseteq Package
  /\ nudged \in BOOLEAN
  /\ closed \in BOOLEAN
  /\ http \in {"nil", "made", "shut"}
  /\ closing \in {"no", "shutting", "returned"}
  /\ serve \in {"start", "ready", "serving", "returned"}
  /\ listening \in BOOLEAN

(***************************************************************************)
(* The two counters are the handlers that hold a slot, in all and per      *)
(* address: no path through ServeHTTP leaks a slot or returns one twice,   *)
(* and an address with none has no entry.                                  *)
(***************************************************************************)
SlotsMatchHandlers ==
  /\ global = Cardinality(Holding)
  /\ DOMAIN perIP = {from[h] : h \in Holding}
  /\ \A ip \in DOMAIN perIP : perIP[ip] = Cardinality({h \in Holding : from[h] = ip})

(***************************************************************************)
(* Neither cap is ever exceeded by transfers in progress, however          *)
(* arrivals and departures interleave.                                     *)
(***************************************************************************)
CapsRespected ==
  /\ MaxConcurrentSeeds > 0 => Cardinality(Holding) <= MaxConcurrentSeeds
  /\ MaxConcurrentSeedsPerIP > 0 =>
       \A ip \in IP : Cardinality({h \in Holding : from[h] = ip}) <= MaxConcurrentSeedsPerIP

(***************************************************************************)
(* A stopped server lets go of serving_addr for good, in whichever order   *)
(* Serve and Close reach the lock: a Serve that was started but had not    *)
(* run yet does not resurrect it.                                          *)
(***************************************************************************)
StopReleasesPort == closed ~> [](~listening /\ serve # "serving")

(***************************************************************************)
(* A drifted entry is corrected: once a peer has been answered 404 for a   *)
(* package the tracker lists this daemon for, the list sent next leaves it *)
(* out, even if the nudge finds one pending.  Two things keep it listed: a *)
(* file that a scan finds although its plain name leads nowhere, and an    *)
(* announcement that fails, which is not tried again (OnNotHeld,           *)
(* requestReannounce, announce).                                           *)
(***************************************************************************)
DriftCorrected ==
  \A p \in Package :
    p \in telling /\ p \in announced ~> p \notin announced \/ p \in files \/ unsent
=============================================================================
