----------------------------- MODULE Discovery -----------------------------
(***************************************************************************)
(* A daemon's tracker conversation: the keep-alive loop of                 *)
(* internal/discovery/keepalive.go, the HTTP client it drives and the      *)
(* cache watcher's nudge channel, composed with the Tracker module over a  *)
(* network that loses requests, loses replies and delivers a request after *)
(* its sender has given up on it.                                          *)
(*                                                                         *)
(* Time is discrete and the loop is prompt: a goroutine with something     *)
(* ready to do does it before the clock moves (Urgent), and an exchange    *)
(* ends within RequestTimeout.  The code's 20 s, 60 s and 10 s are         *)
(* PingInterval, Timeout and RequestTimeout in units of ten seconds.       *)
(***************************************************************************)
EXTENDS Naturals, FiniteSets

CONSTANTS IP,              \* one daemon per source address
          NameVersion, BadName, MaxPort, MaxPackages, Timeout, MaxPeers, MaxTime,
          PingInterval,    \* the ticker's period
          RequestTimeout,  \* http.Client.Timeout
          ScanErrors,      \* whether a scan of the cache can fail
          MaxMisses,       \* where counting consecutive failures stops
          MaxLate          \* bound on requests still travelling after a client gave up

ASSUME DiscoveryAssumption ==
  /\ PingInterval \in Nat \ {0}
  /\ RequestTimeout \in Nat
  /\ ScanErrors \in BOOLEAN
  /\ MaxLate \in Nat
  /\ MaxMisses \in Nat \ {0, 1}
  /\ IsFiniteSet(NameVersion)

(* The tracker's own assumptions, on the constants it shares. *)
ASSUME SharedAssumption ==
  /\ MaxPort \in Nat \ {0}
  /\ MaxPackages \in Nat
  /\ Timeout \in Nat
  /\ MaxPeers \in Nat
  /\ MaxTime \in Nat
  /\ NameVersion \cap BadName = {}

(***************************************************************************)
(* client.go: PingInterval "must be comfortably shorter than the tracker's *)
(* TIMEOUT".  How much, when an exchange may last RequestTimeout and one   *)
(* of them may fail.                                                       *)
(***************************************************************************)
ASSUME TimingAssumption ==
  /\ Timeout >= 2 * PingInterval + 2 * RequestTimeout
  /\ Timeout >= PingInterval + 3 * RequestTimeout

VARIABLES peers, packages, now, reply,    \* the tracker
          cache,       \* what a scan of the package cache would list
          unseen,      \* a cache change whose file event is still to be handled
          changed,     \* the nudge channel, buffered with room for one
          registered,  \* KeepAlive.registered
          pc,          \* where Run is
          exchange,    \* the HTTP exchange the loop is blocked on
          nextTick,    \* when the ticker fires next; 0 before it exists
          ticked,      \* the ticker's channel, buffered with room for one
          late,        \* requests that reach the tracker after a client error
          \* History, read by the properties only:
          scanned,     \* the cache as it was at the loop's latest call of Scan
          calm,        \* time of the latest loss, late arrival, restart or local failure
          misses       \* exchanges that failed since the latest that succeeded

tracker == <<peers, packages, now, reply>>
loop    == <<registered, pc, exchange, nextTick, ticked>>
watcher == <<cache, unseen, changed>>
history == <<scanned, calm, misses>>
vars    == <<tracker, watcher, loop, late, history>>

T == INSTANCE Tracker

-----------------------------------------------------------------------------
ServingPort == 1

NoExchange == [kind |-> "none"]
Request ==
  [kind : {"announce"}, packages : SUBSET NameVersion] \cup [kind : {"ping"}]

(* An exchange in flight, and one the tracker has answered. *)
Asked(req, t)       == [kind |-> "asked", req |-> req, sentAt |-> t]
Answered(x, status) == [kind |-> "answered", req |-> x.req, sentAt |-> x.sentAt,
                        status |-> status]

Init ==
  /\ T!Init
  /\ cache \in [IP -> SUBSET NameVersion]
  /\ unseen = [d \in IP |-> FALSE]
  /\ changed = [d \in IP |-> FALSE]
  /\ registered = [d \in IP |-> FALSE]
  /\ pc = [d \in IP |-> "announce"]
  /\ exchange = [d \in IP |-> NoExchange]
  /\ nextTick = [d \in IP |-> 0]
  /\ ticked = [d \in IP |-> FALSE]
  /\ late = {}
  /\ scanned = cache
  /\ calm = 0
  /\ misses = [d \in IP |-> 0]

-----------------------------------------------------------------------------
(* The cache and its watcher. *)

(***************************************************************************)
(* pkg adds or removes packages.                                           *)
(***************************************************************************)
CacheChanges(d) ==
  \E s \in SUBSET NameVersion \ {cache[d]} :
    /\ cache' = [cache EXCEPT ![d] = s]
    /\ unseen' = [unseen EXCEPT ![d] = TRUE]
    /\ UNCHANGED <<tracker, changed, loop, late, history>>

(***************************************************************************)
(* nudge: a non-blocking send; a full channel already holds a re-announce. *)
(***************************************************************************)
BugUnbufferedNudge(d) ==
  changed' = [changed EXCEPT ![d] = @ \/ pc[d] = "select"]

Nudge(d) == changed' = [changed EXCEPT ![d] = TRUE]

(***************************************************************************)
(* The watcher handles the file event.  An event for a link, or for a file *)
(* that has gone again, is skipped: the one for the real file, or for its  *)
(* removal, is still to come.                                              *)
(***************************************************************************)
handleEvent(d) ==
  /\ unseen[d]
  /\ unseen' = [unseen EXCEPT ![d] = FALSE]
  /\ Nudge(d)
  /\ UNCHANGED <<tracker, cache, loop, late, history>>

(***************************************************************************)
(* A nudge with no cache change behind it: a catalogue reload, or the seed *)
(* server asked for a package it does not hold.                            *)
(***************************************************************************)
requestReannounce(d) ==
  /\ Nudge(d)
  /\ UNCHANGED <<tracker, cache, unseen, loop, late, history>>

-----------------------------------------------------------------------------
(* The loop. *)

(***************************************************************************)
(* Back to the select.  The first time, Run makes the ticker on the way.   *)
(***************************************************************************)
BugKeepsExchange(d) ==
  /\ pc' = [pc EXCEPT ![d] = "select"]
  /\ nextTick' = IF nextTick[d] = 0
                 THEN [nextTick EXCEPT ![d] = now + PingInterval] ELSE nextTick
  /\ UNCHANGED exchange

BugNewTickerEachTime(d) ==
  /\ pc' = [pc EXCEPT ![d] = "select"]
  /\ nextTick' = [nextTick EXCEPT ![d] = now + PingInterval]
  /\ exchange' = [exchange EXCEPT ![d] = NoExchange]

ToSelect(d) ==
  /\ pc' = [pc EXCEPT ![d] = "select"]
  /\ nextTick' = IF nextTick[d] = 0
                 THEN [nextTick EXCEPT ![d] = now + PingInterval] ELSE nextTick
  /\ exchange' = [exchange EXCEPT ![d] = NoExchange]

Send(d, req) ==
  /\ exchange' = [exchange EXCEPT ![d] = Asked(req, now)]
  /\ pc' = [pc EXCEPT ![d] = "wait"]

(***************************************************************************)
(* announce: scan, validate, post.  A scan error, or a list Validate       *)
(* refuses, ends it with registered as it was.                             *)
(***************************************************************************)
SendAnnounce(d) ==
  /\ pc[d] = "announce"
  /\ Cardinality(cache[d]) <= MaxPackages
  /\ Send(d, [kind |-> "announce", packages |-> cache[d]])
  /\ scanned' = [scanned EXCEPT ![d] = cache[d]]
  /\ UNCHANGED <<tracker, watcher, registered, nextTick, ticked, late, calm, misses>>

AnnounceAborts(d) ==
  /\ pc[d] = "announce"
  /\ ScanErrors \/ Cardinality(cache[d]) > MaxPackages
  /\ ToSelect(d)
  /\ scanned' = [scanned EXCEPT ![d] = cache[d]]
  /\ calm' = now
  /\ UNCHANGED <<tracker, watcher, registered, ticked, late, misses>>

(***************************************************************************)
(* The select: a nudge re-announces, a tick pings if registered.  When     *)
(* both are ready either may be taken.                                     *)
(***************************************************************************)
TakeChanged(d) ==
  /\ pc[d] = "select"
  /\ changed[d]
  /\ changed' = [changed EXCEPT ![d] = FALSE]
  /\ pc' = [pc EXCEPT ![d] = "announce"]
  /\ UNCHANGED <<tracker, cache, unseen, registered, exchange, nextTick, ticked,
                 late, history>>

BugPingAlways(d) == Send(d, [kind |-> "ping"])

ping(d) ==
  IF registered[d] THEN Send(d, [kind |-> "ping"]) ELSE UNCHANGED <<exchange, pc>>

TakeTick(d) ==
  /\ pc[d] = "select"
  /\ ticked[d]
  /\ ticked' = [ticked EXCEPT ![d] = FALSE]
  /\ ping(d)
  /\ UNCHANGED <<tracker, watcher, registered, nextTick, late, history>>

(***************************************************************************)
(* The answer arrives.  Announce: registered follows the length of the     *)
(* list.  Ping: a 404 announces at once, a 200 needs nothing.              *)
(***************************************************************************)
BugIgnoreUnknown(d, x) == ToSelect(d) /\ UNCHANGED registered

AfterPing(d, x) ==
  \/ /\ x.status = 404
     /\ pc' = [pc EXCEPT ![d] = "announce"]
     /\ exchange' = [exchange EXCEPT ![d] = NoExchange]
     /\ UNCHANGED <<registered, nextTick>>
  \/ /\ x.status = 200
     /\ ToSelect(d)
     /\ UNCHANGED registered

AfterAnnounce(d, x) ==
  /\ x.status = 200
  /\ registered' = [registered EXCEPT ![d] = x.req.packages # {}]
  /\ ToSelect(d)

Receive(d) ==
  /\ exchange[d].kind = "answered"
  /\ \/ exchange[d].req.kind = "ping" /\ AfterPing(d, exchange[d])
     \/ exchange[d].req.kind = "announce" /\ AfterAnnounce(d, exchange[d])
  /\ misses' = [misses EXCEPT ![d] = 0]
  /\ UNCHANGED <<tracker, watcher, ticked, late, scanned, calm>>

(***************************************************************************)
(* The exchange fails: refused, reset or timed out, before or after the    *)
(* tracker acted on the request.  Ping and announce only log it.  If the   *)
(* tracker has not acted yet, the request may still reach it.              *)
(***************************************************************************)
ExchangeFails(d) ==
  /\ pc[d] = "wait"
  /\ ToSelect(d)
  /\ late' \in {late} \cup {late \cup {[from |-> d, req |-> exchange[d].req]}}
  /\ exchange[d].kind = "answered" => late' = late
  /\ Cardinality(late') <= MaxLate
  /\ calm' = now
  /\ misses' = [misses EXCEPT ![d] = IF @ < MaxMisses THEN @ + 1 ELSE @]
  /\ UNCHANGED <<tracker, watcher, registered, ticked, scanned>>

-----------------------------------------------------------------------------
(* The tracker's side. *)

Handle(d, req) ==
  \/ /\ req.kind = "ping"
     /\ T!handlePing(d)
  \/ /\ req.kind = "announce"
     /\ T!handleAnnounce(d, [body |-> "json", port |-> ServingPort,
                             packages |-> req.packages])

TrackerHandles(d) ==
  /\ exchange[d].kind = "asked"
  /\ Handle(d, exchange[d].req)
  /\ exchange' = [exchange EXCEPT ![d] = Answered(@, reply'.status)]
  /\ UNCHANGED <<watcher, registered, pc, nextTick, ticked, late, history>>

LateArrival ==
  \E m \in late :
    /\ Handle(m.from, m.req)
    /\ late' = late \ {m}
    /\ calm' = now
    /\ UNCHANGED <<watcher, loop, scanned, misses>>

TrackerSweeps ==
  /\ T!Sweep
  /\ UNCHANGED <<watcher, loop, late, history>>

TrackerRestarts ==
  /\ T!Restart
  /\ calm' = now
  /\ UNCHANGED <<watcher, loop, late, scanned, misses>>

-----------------------------------------------------------------------------
(* The clock.  A tick that finds the ticker's channel full is dropped.     *)

Urgent(d) ==
  \/ unseen[d]
  \/ pc[d] = "announce"
  \/ pc[d] = "select" /\ (changed[d] \/ ticked[d])
  \/ pc[d] = "wait" /\ now >= exchange[d].sentAt + RequestTimeout

Fires(d) == nextTick[d] # 0 /\ nextTick[d] = now + 1

Advance ==
  /\ \A d \in IP : ~Urgent(d)
  /\ T!Advance
  /\ ticked' = [d \in IP |-> ticked[d] \/ Fires(d)]
  /\ nextTick' = [d \in IP |-> IF Fires(d) THEN now + 1 + PingInterval ELSE nextTick[d]]
  /\ UNCHANGED <<watcher, registered, pc, exchange, late, history>>

Next ==
  \/ \E d \in IP :
        \/ CacheChanges(d) \/ handleEvent(d) \/ requestReannounce(d)
        \/ SendAnnounce(d) \/ AnnounceAborts(d)
        \/ TakeChanged(d) \/ TakeTick(d)
        \/ Receive(d) \/ ExchangeFails(d)
        \/ TrackerHandles(d)
  \/ LateArrival
  \/ TrackerSweeps
  \/ TrackerRestarts
  \/ Advance

Spec == Init /\ [][Next]_vars

-----------------------------------------------------------------------------
(* What has to hold. *)

(***************************************************************************)
(* The loop's state has the shape the code gives it, and it waits exactly  *)
(* while an exchange is open.                                              *)
(***************************************************************************)
TypeOK ==
  /\ T!TypeOK
  /\ cache \in [IP -> SUBSET NameVersion]
  /\ unseen \in [IP -> BOOLEAN]
  /\ changed \in [IP -> BOOLEAN]
  /\ registered \in [IP -> BOOLEAN]
  /\ pc \in [IP -> {"announce", "select", "wait"}]
  /\ \A d \in IP : (pc[d] = "wait") = (exchange[d].kind \in {"asked", "answered"})
  /\ nextTick \in [IP -> Nat]
  /\ ticked \in [IP -> BOOLEAN]
  /\ late \subseteq [from : IP, req : Request]
  /\ scanned \in [IP -> SUBSET NameVersion]
  /\ calm \in Nat
  /\ misses \in [IP -> Nat]

(* No answer is on its way that would change what the daemon believes. *)
Settled(d) == exchange[d].kind # "answered"

Idle(d)   == pc[d] = "select" /\ ~unseen[d] /\ ~changed[d] /\ ~ticked[d]
Listed(d) == d \in T!Live

(***************************************************************************)
(* A cache change is never slept through: while the loop's latest scan     *)
(* predates the cache's contents, a file event, a nudge or an announce is  *)
(* still to come.  The one-slot channel may collapse any number of nudges  *)
(* but not lose the last.                                                  *)
(***************************************************************************)
NoLostWakeup ==
  \A d \in IP : scanned[d] # cache[d] => unseen[d] \/ changed[d] \/ pc[d] = "announce"

(***************************************************************************)
(* The longest a calm network needs to mend a registration: an answer that *)
(* was already on its way, the wait for the next tick, a ping that brings  *)
(* the 404 and the announce that follows.                                  *)
(***************************************************************************)
HealTime == PingInterval + 3 * RequestTimeout

(***************************************************************************)
(* Self-healing: once the network has been calm for HealTime, a daemon     *)
(* that believes it is registered is listed, whatever was lost, delivered  *)
(* late or forgotten by a tracker restart before.  It is the 404 on /ping  *)
(* and the announce in answer to it that bring this about.                 *)
(***************************************************************************)
SelfHealing ==
  \A d \in IP : registered[d] /\ Settled(d) /\ now > calm + HealTime => Listed(d)

(***************************************************************************)
(* A daemon that has gone quiet is not listed for longer than a lease:     *)
(* with registered FALSE, no step of its own keeps an entry alive that a   *)
(* lost reply or a late announce left at the tracker.                      *)
(***************************************************************************)
QuietMeansWithdrawn ==
  \A d \in IP : ~registered[d] /\ Settled(d) /\ now > calm + Timeout => ~Listed(d)

(***************************************************************************)
(* A registered entry survives one failed exchange: whatever the phase of  *)
(* the ticker and the delay of the answers, the next ping is in time.      *)
(***************************************************************************)
SurvivesOneLoss ==
  \A d \in IP : registered[d] /\ misses[d] <= 1 /\ d \in DOMAIN peers => Listed(d)

(***************************************************************************)
(* daemon.go: "A tracker that is down at startup is not fatal: the loop    *)
(* keeps trying".  With a calm network for HealTime, a daemon that has     *)
(* packages to serve is listed.                                            *)
(***************************************************************************)
KeepsTrying ==
  \A d \in IP : cache[d] # {} /\ Idle(d) /\ now > calm + HealTime => Listed(d)
=============================================================================
