-------------------------- MODULE DiscoveryProofs --------------------------
(***************************************************************************)
(* What a daemon's conversation with the tracker guarantees, for every     *)
(* number of daemons, every cache and every ping interval, exchange        *)
(* timeout and lease that TimingAssumption allows: the proofs of           *)
(* Discovery's invariants, timed ones included.                            *)
(***************************************************************************)
EXTENDS Discovery, FiniteSetTheorems, TLAPS

TP == INSTANCE TrackerProofs

USE DiscoveryAssumption, SharedAssumption

-----------------------------------------------------------------------------
(* The tracker's side, from what is proved of it alone. *)

(***************************************************************************)
(* Both modules count with the library's Cardinality.                      *)
(***************************************************************************)
LEMMA SameCardinality ==
  \A S : T!Cardinality(S) = Cardinality(S) /\ TP!Cardinality(S) = Cardinality(S)
  BY Zenon DEF T!Cardinality, TP!Cardinality, Cardinality

(***************************************************************************)
(* The tracker composed here is the one TrackerProofs is about.            *)
(***************************************************************************)
LEMMA SameTracker ==
  ASSUME NEW d, NEW req
  PROVE  /\ T!handlePing(d) = TP!handlePing(d)
         /\ T!handleAnnounce(d, req) = TP!handleAnnounce(d, req)
         /\ T!Sweep = TP!Sweep
         /\ T!Advance = TP!Advance
         /\ T!Restart = TP!Restart
         /\ T!AnnounceRequest = TP!AnnounceRequest
<1>1. \A ips : T!removeFromIndex(ips) = TP!removeFromIndex(ips)
  BY Zenon DEF T!removeFromIndex, TP!removeFromIndex, T!Gone, TP!Gone, T!Claims, TP!Claims
<1>2. \A ips : T!Without(peers, ips) = TP!Without(peers, ips)
  BY Zenon DEF T!Without, TP!Without, T!Restrict, TP!Restrict
<1>3. T!handlePing(d) = TP!handlePing(d)
  <2>1. T!Expired(d) = TP!Expired(d)
    BY Zenon DEF T!Expired, TP!Expired
  <2>2. \A known : T!Ping(d, known) = TP!Ping(d, known)
    <3> SUFFICES ASSUME NEW known PROVE T!Ping(d, known) = TP!Ping(d, known)
      OBVIOUS
    <3>1. /\ T!removeFromIndex({d}) = TP!removeFromIndex({d})
          /\ T!Without(peers, {d}) = TP!Without(peers, {d})
      BY <1>1, <1>2, Zenon
    <3> QED
      BY <2>1, <3>1, SMT DEF T!Ping, TP!Ping
  <2> QED
    BY <2>2, Zenon DEF T!handlePing, TP!handlePing
<1>4. \A port, nvs : T!Announce(d, port, nvs) = TP!Announce(d, port, nvs)
  BY <1>1, <1>2, Zenon
  DEF T!Announce, TP!Announce, T!Register, TP!Register, T!AddHolder, TP!AddHolder
<1>5. T!AnnounceStatus(req) = TP!AnnounceStatus(req)
  BY SameCardinality, SMT
  DEF T!AnnounceStatus, TP!AnnounceStatus, T!Port, TP!Port, T!MinPort, TP!MinPort
<1>6. T!handleAnnounce(d, req) = TP!handleAnnounce(d, req)
  BY <1>4, <1>5, SMT DEF T!handleAnnounce, TP!handleAnnounce
<1>7. T!Sweep = TP!Sweep
  BY <1>1, <1>2, Zenon DEF T!Sweep, TP!Sweep, T!Reaped, TP!Reaped, T!Expired, TP!Expired
<1>8. T!Advance = TP!Advance /\ T!Restart = TP!Restart /\ T!AnnounceRequest = TP!AnnounceRequest
  BY Zenon DEF T!Advance, TP!Advance, T!Restart, TP!Restart, T!Empty, TP!Empty,
               T!AnnounceRequest, TP!AnnounceRequest
<1> QED
  BY <1>3, <1>6, <1>7, <1>8

(***************************************************************************)
(* Its registry keeps its types under everything that reaches it here.     *)
(***************************************************************************)
LEMMA TrackerKeepsType ==
  ASSUME T!TypeOK,
         \/ \E d \in IP : T!handlePing(d)
         \/ \E d \in IP, req \in T!AnnounceRequest : T!handleAnnounce(d, req)
         \/ T!Sweep \/ T!Advance \/ T!Restart \/ UNCHANGED tracker
  PROVE  T!TypeOK'
<1> USE DEF T!TypeOK, TP!TypeOK, T!PeerRecord, TP!PeerRecord, T!Reply, TP!Reply,
            T!Port, TP!Port, T!PeerInfo, TP!PeerInfo, T!MinPort, TP!MinPort
<1>1. TP!TypeOK
  BY Zenon
<1>2. TP!TypeOK' => T!TypeOK'
  BY Zenon
<1> HIDE DEF T!TypeOK, TP!TypeOK, T!PeerRecord, TP!PeerRecord, T!Reply, TP!Reply,
             T!Port, TP!Port, T!PeerInfo, TP!PeerInfo, T!MinPort, TP!MinPort
<1>3. TP!Next \/ UNCHANGED TP!vars
  BY SameTracker, Zenon DEF TP!Next, TP!vars, tracker
<1> QED
  BY <1>1, <1>2, <1>3, TP!NextKeepsType

(***************************************************************************)
(* A request a daemon can send: a ping, or an announce that Validate let   *)
(* through.                                                                *)
(***************************************************************************)
ValidRequest ==
  [kind : {"announce"}, packages : {s \in SUBSET NameVersion : Cardinality(s) <= MaxPackages}]
    \cup [kind : {"ping"}]

(***************************************************************************)
(* What the tracker does for a daemon's request, as far as registrations   *)
(* and their leases go: whatever it answers, it leaves the sender with a   *)
(* full lease or with none, and nobody else is touched.                    *)
(***************************************************************************)
Handled(d, req) ==
  /\ now' = now
  /\ reply'.status \in {200, 404}
  /\ \A e \in IP \ {d} : e \in DOMAIN peers' <=> e \in DOMAIN peers
  /\ \A e \in IP \ {d} : e \in DOMAIN peers => peers'[e] = peers[e]
  /\ d \in DOMAIN peers' => peers'[d].deadline = now + Timeout
  /\ req.kind = "announce" =>
       reply'.status = 200 /\ (d \in DOMAIN peers' <=> req.packages # {})
  /\ req.kind = "ping" =>
       /\ reply'.status = 200 <=> d \in DOMAIN peers'
       /\ d \in DOMAIN peers /\ now <= peers[d].deadline => d \in DOMAIN peers'

(***************************************************************************)
(* An announce the daemon validated is one the tracker accepts.            *)
(***************************************************************************)
LEMMA AnnounceAccepted ==
  ASSUME NEW req \in ValidRequest, req.kind = "announce"
  PROVE  LET body == [body |-> "json", port |-> ServingPort, packages |-> req.packages]
         IN  body \in T!AnnounceRequest /\ T!AnnounceStatus(body) = 200
<1>1. req.packages \in SUBSET NameVersion /\ Cardinality(req.packages) <= MaxPackages
  BY DEF ValidRequest
<1>2. Cardinality(req.packages) \in Nat
  BY <1>1, FS_Subset, FS_CardinalityType
<1>3. ServingPort \in T!Port /\ ServingPort \in 0 .. MaxPort + 1
  BY DEF ServingPort, T!Port, T!MinPort
<1> QED
  BY <1>1, <1>2, <1>3, SameCardinality DEF T!AnnounceRequest, T!AnnounceStatus

(***************************************************************************)
(* Handle does what Handled says.                                          *)
(***************************************************************************)
LEMMA HandleEffect ==
  ASSUME T!TypeOK, NEW d \in IP, NEW req \in ValidRequest, Handle(d, req)
  PROVE  Handled(d, req) /\ T!TypeOK'
<1> DEFINE body == [body |-> "json", port |-> ServingPort, packages |-> req.packages]
<1>1. CASE req.kind = "ping"
  <2>1. T!handlePing(d)
    BY <1>1 DEF Handle
  <2>2. Handled(d, req)
    BY <1>1, <2>1 DEF Handled, T!handlePing, T!Ping, T!Expired, T!Without, T!Restrict,
                      T!TypeOK, T!PeerRecord
  <2> QED
    BY <2>1, <2>2, TrackerKeepsType
<1>2. CASE req.kind = "announce"
  <2>1. T!handleAnnounce(d, body)
    BY <1>2 DEF Handle
  <2>2. body \in T!AnnounceRequest /\ T!AnnounceStatus(body) = 200
    BY <1>2, AnnounceAccepted
  <2>3. T!Announce(d, ServingPort, req.packages) /\ now' = now /\ reply'.status = 200
    BY <2>1, <2>2 DEF T!handleAnnounce
  <2>4. Handled(d, req)
    BY <1>2, <2>3 DEF Handled, T!Announce, T!Register, T!Without, T!Restrict, T!TypeOK
  <2> QED
    BY <2>1, <2>2, <2>4, TrackerKeepsType
<1> QED
  BY <1>1, <1>2 DEF ValidRequest

-----------------------------------------------------------------------------
(* Types. *)

(***************************************************************************)
(* An exchange that is open carries a valid request and the time it was    *)
(* sent; one that was answered, a status the loop knows what to do with.   *)
(***************************************************************************)
ExchangeOK(x) ==
  /\ x.kind \in {"none", "asked", "answered"}
  /\ x.kind # "none" => x.req \in ValidRequest /\ x.sentAt \in Nat
  /\ x.kind = "answered" => x.status \in {200, 404}
  /\ x.kind = "answered" /\ x.req.kind = "announce" => x.status = 200

(***************************************************************************)
(* TypeOK with what travels: the inductive form.                           *)
(***************************************************************************)
Typed ==
  /\ TypeOK
  /\ DOMAIN exchange = IP
  /\ \A d \in IP : ExchangeOK(exchange[d])
  /\ \A m \in late : m.req \in ValidRequest

(***************************************************************************)
(* Every request a daemon sends is a Request.                              *)
(***************************************************************************)
LEMMA ValidIsRequest == ValidRequest \subseteq Request
  BY DEF ValidRequest, Request

(***************************************************************************)
(* Every step keeps the types.                                             *)
(***************************************************************************)
LEMMA TypedStep ==
  ASSUME Typed, [Next]_vars
  PROVE  Typed'
<1> USE DEF Typed, TypeOK, ExchangeOK, tracker, loop, watcher, history
<1>a. now \in Nat
  BY DEF T!TypeOK
<1>b. UNCHANGED tracker => T!TypeOK'
  BY TrackerKeepsType
<1>1. CASE UNCHANGED vars
  BY <1>1, <1>b DEF vars
<1>2. ASSUME NEW d \in IP, CacheChanges(d)
      PROVE  Typed'
  BY <1>2, <1>b DEF CacheChanges
<1>3. ASSUME NEW d \in IP, handleEvent(d) \/ requestReannounce(d)
      PROVE  Typed'
  <2>1. CASE handleEvent(d)
    BY <2>1, <1>b DEF handleEvent, Nudge
  <2>2. CASE requestReannounce(d)
    BY <2>2, <1>b DEF requestReannounce, Nudge
  <2> QED
    BY <1>3, <2>1, <2>2
<1>4. ASSUME NEW d \in IP, SendAnnounce(d)
      PROVE  Typed'
  <2>1. [kind |-> "announce", packages |-> cache[d]] \in ValidRequest
    BY <1>4 DEF SendAnnounce, ValidRequest
  <2> QED
    BY <1>4, <2>1, <1>a, <1>b DEF SendAnnounce, Send, Asked
<1>5. ASSUME NEW d \in IP, AnnounceAborts(d)
      PROVE  Typed'
  BY <1>5, <1>a, <1>b DEF AnnounceAborts, ToSelect, NoExchange
<1>6. ASSUME NEW d \in IP, TakeChanged(d)
      PROVE  Typed'
  BY <1>6, <1>b DEF TakeChanged
<1>7. ASSUME NEW d \in IP, TakeTick(d)
      PROVE  Typed'
  <2>1. [kind |-> "ping"] \in ValidRequest
    BY DEF ValidRequest
  <2>2. CASE registered[d]
    BY <1>7, <2>1, <2>2, <1>a, <1>b DEF TakeTick, ping, Send, Asked
  <2>3. CASE ~registered[d]
    BY <1>7, <2>3, <1>b DEF TakeTick, ping
  <2> QED
    BY <2>2, <2>3
<1>8. ASSUME NEW d \in IP, Receive(d)
      PROVE  Typed'
  <2>1. CASE AfterPing(d, exchange[d])
    <3>1. CASE ToSelect(d) /\ UNCHANGED registered
      BY <1>8, <3>1, <1>a, <1>b DEF Receive, ToSelect, NoExchange
    <3>2. CASE /\ pc' = [pc EXCEPT ![d] = "announce"]
               /\ exchange' = [exchange EXCEPT ![d] = NoExchange]
               /\ UNCHANGED <<registered, nextTick>>
      BY <1>8, <3>2, <1>b DEF Receive, NoExchange
    <3> QED
      BY <2>1, <3>1, <3>2 DEF AfterPing
  <2>2. CASE AfterAnnounce(d, exchange[d])
    <3>1. PICK b \in BOOLEAN : registered' = [registered EXCEPT ![d] = b]
      BY <2>2 DEF AfterAnnounce
    <3>2. registered' \in [IP -> BOOLEAN]
      BY <3>1
    <3>3. ToSelect(d) /\ misses' = [misses EXCEPT ![d] = 0]
      BY <1>8, <2>2 DEF Receive, AfterAnnounce
    <3> QED
      BY <1>8, <3>2, <3>3, <1>a, <1>b DEF Receive, ToSelect, NoExchange
  <2> QED
    BY <1>8, <2>1, <2>2 DEF Receive
<1>9. ASSUME NEW d \in IP, ExchangeFails(d)
      PROVE  Typed'
  BY <1>9, <1>a, <1>b, ValidIsRequest DEF ExchangeFails, ToSelect, NoExchange
<1>10. ASSUME NEW d \in IP, TrackerHandles(d)
       PROVE  Typed'
  BY <1>10, HandleEffect DEF TrackerHandles, Answered, Handled
<1>11. CASE LateArrival
  BY <1>11, HandleEffect DEF LateArrival, Handled, T!TypeOK
<1>12. CASE TrackerSweeps \/ TrackerRestarts
  BY <1>12, TrackerKeepsType DEF TrackerSweeps, TrackerRestarts, T!TypeOK
<1>13. CASE Advance
  BY <1>13, TrackerKeepsType DEF Advance, Fires, T!TypeOK
<1> QED
  BY <1>1, <1>2, <1>3, <1>4, <1>5, <1>6, <1>7, <1>8, <1>9, <1>10, <1>11, <1>12, <1>13
  DEF Next

(***************************************************************************)
(* The inductive form holds of every behaviour.                            *)
(***************************************************************************)
LEMMA AlwaysTyped == Spec => []Typed
<1>1. Init => Typed
  <2> SUFFICES ASSUME Init PROVE Typed
    OBVIOUS
  <2>1. T!TypeOK
    BY DEF Init, T!Init, T!TypeOK, T!Empty, T!Reply
  <2> QED
    BY <2>1 DEF Init, Typed, TypeOK, ExchangeOK, NoExchange
<1> QED
  BY <1>1, TypedStep, PTL DEF Spec

(***************************************************************************)
(* The loop and the tracker keep the shape the code gives them, and the    *)
(* loop waits exactly while an exchange is open.                           *)
(***************************************************************************)
THEOREM TypeCorrect == Spec => []TypeOK
  BY AlwaysTyped, PTL DEF Typed

-----------------------------------------------------------------------------
(* The nudge channel. *)

(***************************************************************************)
(* However many changes the one-slot channel collapses, it never loses the *)
(* last one.                                                               *)
(***************************************************************************)
THEOREM WakeupNeverLost == Spec => []NoLostWakeup
<1>1. Init => NoLostWakeup
  BY DEF Init, NoLostWakeup
<1>2. Typed /\ NoLostWakeup /\ [Next]_vars => NoLostWakeup'
  <2> SUFFICES ASSUME Typed, NoLostWakeup, [Next]_vars
               PROVE  NoLostWakeup'
    OBVIOUS
  <2> USE DEF NoLostWakeup, Typed, TypeOK, tracker, loop, watcher, history
  <2>1. ASSUME NEW d \in IP, CacheChanges(d)
        PROVE  NoLostWakeup'
    BY <2>1 DEF CacheChanges
  <2>2. ASSUME NEW d \in IP, handleEvent(d) \/ requestReannounce(d)
        PROVE  NoLostWakeup'
    BY <2>2 DEF handleEvent, requestReannounce, Nudge
  <2>3. ASSUME NEW d \in IP, SendAnnounce(d) \/ AnnounceAborts(d)
        PROVE  NoLostWakeup'
    BY <2>3 DEF SendAnnounce, AnnounceAborts, Send, ToSelect
  <2>4. ASSUME NEW d \in IP, TakeChanged(d) \/ TakeTick(d)
        PROVE  NoLostWakeup'
    BY <2>4 DEF TakeChanged, TakeTick, ping, Send
  <2>5. ASSUME NEW d \in IP, Receive(d) \/ ExchangeFails(d)
        PROVE  NoLostWakeup'
    BY <2>5 DEF Receive, AfterPing, AfterAnnounce, ExchangeFails, ToSelect
  <2>6. CASE UNCHANGED <<watcher, pc, scanned>>
    BY <2>6
  <2> QED
    BY <2>1, <2>2, <2>3, <2>4, <2>5, <2>6
    DEF Next, vars, TrackerHandles, LateArrival, TrackerSweeps, TrackerRestarts, Advance
<1> QED
  BY <1>1, <1>2, AlwaysTyped, PTL DEF Spec

-----------------------------------------------------------------------------
(* Time. *)

(***************************************************************************)
(* What the clock, the ticker and a prompt loop keep to: an exchange lasts *)
(* at most RequestTimeout, the next tick is at most PingInterval away, a   *)
(* registered daemon has its ticker, only a registered one pings, and no   *)
(* lease reaches beyond Timeout from now.                                  *)
(***************************************************************************)
OnClock(d) ==
  /\ exchange[d].kind # "none" =>
       exchange[d].sentAt <= now /\ now <= exchange[d].sentAt + RequestTimeout
  /\ nextTick[d] # 0 => now < nextTick[d] /\ nextTick[d] <= now + PingInterval
  /\ registered[d] => nextTick[d] # 0
  /\ exchange[d].kind # "none" /\ exchange[d].req.kind = "ping" => registered[d]
  /\ d \in DOMAIN peers => peers[d].deadline <= now + Timeout

Clock == calm <= now /\ \A d \in IP : OnClock(d)

(***************************************************************************)
(* Latest moment the network was not calm, as the model keeps it: never in *)
(* the future, and only ever moved to the present.                         *)
(***************************************************************************)
LEMMA ClockStep ==
  ASSUME Typed, Clock, [Next]_vars
  PROVE  Clock'
<1> USE DEF Clock, OnClock, Typed, TypeOK, ExchangeOK, tracker, loop, watcher, history
<1>a. /\ now \in Nat
      /\ \A e \in DOMAIN peers : peers[e].deadline \in Nat
  BY DEF T!TypeOK, T!PeerRecord
<1>1. CASE UNCHANGED <<tracker, loop, calm>>
  BY <1>1
<1>2. ASSUME NEW d \in IP, SendAnnounce(d)
      PROVE  Clock'
  BY <1>2, <1>a DEF SendAnnounce, Send, Asked
<1>3. ASSUME NEW d \in IP, AnnounceAborts(d)
      PROVE  Clock'
  BY <1>3, <1>a DEF AnnounceAborts, ToSelect, NoExchange
<1>4. ASSUME NEW d \in IP, TakeChanged(d)
      PROVE  Clock'
  BY <1>4, <1>a DEF TakeChanged
<1>5. ASSUME NEW d \in IP, TakeTick(d)
      PROVE  Clock'
  BY <1>5, <1>a DEF TakeTick, ping, Send, Asked
<1>6. ASSUME NEW d \in IP, Receive(d)
      PROVE  Clock'
  BY <1>6, <1>a DEF Receive, AfterPing, AfterAnnounce, ToSelect, NoExchange
<1>7. ASSUME NEW d \in IP, ExchangeFails(d)
      PROVE  Clock'
  BY <1>7, <1>a DEF ExchangeFails, ToSelect, NoExchange
<1>8. ASSUME NEW d \in IP, TrackerHandles(d)
      PROVE  Clock'
  BY <1>8, <1>a, HandleEffect DEF TrackerHandles, Answered, Handled
<1>9. CASE LateArrival
  BY <1>9, <1>a, HandleEffect DEF LateArrival, Handled
<1>10. CASE TrackerSweeps
  BY <1>10, <1>a DEF TrackerSweeps, T!Sweep, T!Without, T!Restrict
<1>11. CASE TrackerRestarts
  BY <1>11, <1>a DEF TrackerRestarts, T!Restart, T!Empty
<1>12. CASE Advance
  BY <1>12, <1>a DEF Advance, Fires, Urgent, T!Advance
<1> QED
  BY <1>1, <1>2, <1>3, <1>4, <1>5, <1>6, <1>7, <1>8, <1>9, <1>10, <1>11, <1>12
  DEF Next, vars, CacheChanges, handleEvent, requestReannounce

(***************************************************************************)
(* The clock holds throughout.                                             *)
(***************************************************************************)
LEMMA AlwaysOnClock == Spec => [](Typed /\ Clock)
<1>1. Init => Clock
  BY DEF Init, Clock, OnClock, NoExchange, T!Init, T!Empty
<1> QED
  BY <1>1, ClockStep, AlwaysTyped, PTL DEF Spec

(***************************************************************************)
(* The times and flags the timed proofs compare, with their types and      *)
(* their places on the clock.                                              *)
(***************************************************************************)
Readings(d) ==
  /\ now \in Nat /\ calm \in Nat /\ calm <= now
  /\ DOMAIN exchange = IP /\ DOMAIN nextTick = IP /\ DOMAIN ticked = IP
  /\ DOMAIN registered = IP /\ DOMAIN pc = IP /\ DOMAIN misses = IP
  /\ nextTick[d] \in Nat /\ misses[d] \in Nat
  /\ pc[d] \in {"announce", "select", "wait"}
  /\ pc[d] = "wait" <=> exchange[d].kind \in {"asked", "answered"}
  /\ d \in DOMAIN peers => peers[d].deadline \in Nat
  /\ ExchangeOK(exchange[d])
  /\ exchange[d].kind # "none" =>
       /\ exchange[d].sentAt \in Nat
       /\ exchange[d].req.kind \in {"announce", "ping"}
       /\ exchange[d].req \in ValidRequest
  /\ OnClock(d)

(***************************************************************************)
(* They follow from the types and the clock.                               *)
(***************************************************************************)
LEMMA ReadingsTyped ==
  ASSUME Typed, Clock, NEW d \in IP
  PROVE  Readings(d)
<1>1. now \in Nat /\ (d \in DOMAIN peers => peers[d].deadline \in Nat)
  BY DEF Typed, TypeOK, T!TypeOK, T!PeerRecord
<1>2. \A req \in ValidRequest : req.kind \in {"announce", "ping"}
  BY DEF ValidRequest
<1> QED
  BY <1>1, <1>2 DEF Readings, Typed, TypeOK, ExchangeOK, Clock

(***************************************************************************)
(* What an answer does to the daemon that gets it; nobody else is touched. *)
(***************************************************************************)
Received(d) ==
  LET x == exchange[d]
  IN  /\ UNCHANGED <<tracker, ticked, calm>>
      /\ \A e \in IP \ {d} :
           UNCHANGED <<registered[e], pc[e], exchange[e], nextTick[e], misses[e]>>
      /\ x.kind = "answered"
      /\ exchange'[d].kind = "none"
      /\ misses'[d] = 0
      /\ x.status = 404 => pc'[d] = "announce" /\ nextTick'[d] = nextTick[d]
      /\ x.status # 404 =>
           /\ pc'[d] = "select"
           /\ nextTick'[d] = IF nextTick[d] = 0 THEN now + PingInterval ELSE nextTick[d]
      /\ x.req.kind = "announce" => (registered'[d] <=> x.req.packages # {})
      /\ x.req.kind = "ping" => (registered'[d] <=> registered[d])

(***************************************************************************)
(* Receive does what Received says.                                        *)
(***************************************************************************)
LEMMA ReceiveEffect ==
  ASSUME Typed, NEW d \in IP, Receive(d)
  PROVE  Received(d)
<1> USE DEF Typed, TypeOK, ExchangeOK, tracker, loop, watcher, history, NoExchange
<1>1. CASE exchange[d].req.kind = "ping" /\ AfterPing(d, exchange[d])
  <2>1. CASE exchange[d].status = 404
    BY <1>1, <2>1 DEF Receive, Received, AfterPing
  <2>2. CASE exchange[d].status = 200
    BY <1>1, <2>2 DEF Receive, Received, AfterPing, ToSelect
  <2> QED
    BY <1>1, <2>1, <2>2 DEF AfterPing
<1>2. CASE exchange[d].req.kind = "announce" /\ AfterAnnounce(d, exchange[d])
  <2>1. exchange[d].status = 200 /\ ToSelect(d) /\ misses' = [misses EXCEPT ![d] = 0]
    BY <1>2 DEF Receive, AfterAnnounce
  <2>2. registered' = [registered EXCEPT ![d] = exchange[d].req.packages # {}]
    BY <1>2 DEF AfterAnnounce
  <2>3. registered'[d] <=> exchange[d].req.packages # {}
    BY <2>2
  <2>4. \A e \in IP \ {d} : registered'[e] = registered[e]
    BY <2>2
  <2>5. exchange[d].kind = "answered" /\ UNCHANGED <<tracker, ticked, calm>>
    BY <1>2 DEF Receive
  <2> QED
    BY <1>2, <2>1, <2>3, <2>4, <2>5 DEF Received, ToSelect
<1> QED
  BY <1>1, <1>2 DEF Receive

-----------------------------------------------------------------------------
(* Leaving. *)

(***************************************************************************)
(* Why a daemon that is not registered is not listed for long: a lease     *)
(* that outlasts the latest trouble by more than Timeout belongs to one    *)
(* that is registered, or is about to learn that it is.                    *)
(***************************************************************************)
Accounted(d) ==
  LET x == exchange[d]
  IN  d \in DOMAIN peers /\ peers[d].deadline > calm + Timeout =>
        IF x.kind = "answered" /\ x.req.kind = "announce"
        THEN x.req.packages # {}
        ELSE registered[d]

(***************************************************************************)
(* No step gives a daemon that is not registered a lease it does not hear  *)
(* of, unless that step was trouble itself.                                *)
(***************************************************************************)
LEMMA AccountedStep ==
  ASSUME Typed, Clock, NEW e \in IP, Accounted(e), [Next]_vars
  PROVE  Accounted(e)'
<1> USE DEF Accounted, OnClock, ExchangeOK, tracker, loop, watcher, history
<1>a. Readings(e)
  BY ReadingsTyped
<1>1. CASE UNCHANGED <<tracker, loop, calm, misses>>
  BY <1>1
<1>2. ASSUME NEW d \in IP, SendAnnounce(d)
      PROVE  Accounted(e)'
  BY <1>2, <1>a DEF Readings, SendAnnounce, Send, Asked
<1>3. ASSUME NEW d \in IP, AnnounceAborts(d)
      PROVE  Accounted(e)'
  BY <1>3, <1>a DEF Readings, AnnounceAborts, ToSelect, NoExchange
<1>4. ASSUME NEW d \in IP, TakeChanged(d)
      PROVE  Accounted(e)'
  BY <1>4, <1>a DEF Readings, TakeChanged
<1>5. ASSUME NEW d \in IP, TakeTick(d)
      PROVE  Accounted(e)'
  BY <1>5, <1>a DEF Readings, TakeTick, ping, Send, Asked
<1>6. ASSUME NEW d \in IP, Receive(d)
      PROVE  Accounted(e)'
  <2>1. Received(d)
    BY <1>6, ReceiveEffect
  <2> QED
    BY <2>1, <1>a DEF Readings, Received
<1>7. ASSUME NEW d \in IP, ExchangeFails(d)
      PROVE  Accounted(e)'
  BY <1>7, <1>a DEF Readings, ExchangeFails, ToSelect, NoExchange
<1>8. ASSUME NEW d \in IP, TrackerHandles(d)
      PROVE  Accounted(e)'
  <2>1. Handled(d, exchange[d].req)
    BY <1>8, HandleEffect DEF Typed, TypeOK, ExchangeOK, TrackerHandles
  <2> QED
    BY <1>8, <1>a, <2>1 DEF Readings, TrackerHandles, Answered, Handled
<1>9. CASE LateArrival
  <2>1. PICK m \in late : Handled(m.from, m.req) /\ m.from \in IP /\ calm' = now
    BY <1>9, HandleEffect DEF Typed, TypeOK, LateArrival
  <2> QED
    BY <1>9, <1>a, <2>1 DEF Readings, LateArrival, Handled
<1>10. CASE TrackerSweeps
  BY <1>10, <1>a DEF Readings, TrackerSweeps, T!Sweep, T!Without, T!Restrict, T!Reaped, T!Expired
<1>11. CASE TrackerRestarts
  BY <1>11, <1>a DEF Readings, TrackerRestarts, T!Restart, T!Empty
<1>12. CASE Advance
  BY <1>12, <1>a DEF Readings, Advance, Fires, Urgent, T!Advance
<1> QED
  BY <1>1, <1>2, <1>3, <1>4, <1>5, <1>6, <1>7, <1>8, <1>9, <1>10, <1>11, <1>12
  DEF Next, vars, CacheChanges, handleEvent, requestReannounce

(***************************************************************************)
(* A daemon that has gone quiet is not listed for longer than a lease      *)
(* after the latest trouble.                                               *)
(***************************************************************************)
THEOREM QuietDaemonIsWithdrawn == Spec => []QuietMeansWithdrawn
<1> DEFINE Inv == \A d \in IP : Accounted(d)
<1>1. Init => Inv
  BY DEF Init, Accounted, T!Init, T!Empty
<1>2. Typed /\ Clock /\ Inv /\ [Next]_vars => Inv'
  BY AccountedStep
<1>3. Typed /\ Clock /\ Inv => QuietMeansWithdrawn
  <2> SUFFICES ASSUME Typed, Clock, Inv, NEW d \in IP,
                      ~registered[d], Settled(d), now > calm + Timeout, Listed(d)
               PROVE  FALSE
    BY DEF QuietMeansWithdrawn
  <2>1. Readings(d) /\ Accounted(d)
    BY ReadingsTyped
  <2>2. d \in DOMAIN peers /\ now <= peers[d].deadline
    BY <2>1 DEF Listed, T!Live, T!Expired, Readings
  <2> QED
    BY <2>1, <2>2 DEF Readings, Accounted, Settled
<1> HIDE DEF Inv
<1> QED
  BY <1>1, <1>2, <1>3, AlwaysOnClock, PTL DEF Spec

-----------------------------------------------------------------------------
(* A lost ping. *)

(***************************************************************************)
(* An answered exchange has left the sender with a lease counted from when *)
(* it was sent at the earliest.                                            *)
(***************************************************************************)
Renewed(d) == peers[d].deadline >= exchange[d].sentAt + Timeout

(***************************************************************************)
(* The lease outlasts the exchange under way, or the one the next tick     *)
(* starts.                                                                 *)
(***************************************************************************)
LastsOneExchange(d) ==
  LET x == exchange[d]
      deadline == peers[d].deadline
  IN  /\ x.kind = "answered" => Renewed(d)
      /\ x.kind = "asked" => deadline >= x.sentAt + RequestTimeout
      /\ x.kind = "none" /\ ticked[d]  => deadline >= now + RequestTimeout
      /\ x.kind = "none" /\ ~ticked[d] => deadline >= nextTick[d] + RequestTimeout

(***************************************************************************)
(* The lease outlasts that exchange, should it fail, and the one after it. *)
(***************************************************************************)
LastsTwoExchanges(d) ==
  LET x == exchange[d]
      deadline == peers[d].deadline
  IN  /\ x.kind = "answered" => Renewed(d)
      /\ x.kind = "asked" =>
           /\ deadline >= x.sentAt + 2 * RequestTimeout
           /\ ~ticked[d] => deadline >= nextTick[d] + RequestTimeout
      /\ x.kind = "none" /\ ticked[d] =>
           /\ deadline >= now + 2 * RequestTimeout
           /\ deadline >= nextTick[d] + RequestTimeout
      /\ x.kind = "none" /\ ~ticked[d] =>
           /\ deadline >= nextTick[d] + 2 * RequestTimeout
           /\ deadline >= nextTick[d] + PingInterval + RequestTimeout

(***************************************************************************)
(* The inductive invariant behind SurvivesOneLoss: a failed exchange uses  *)
(* up one of the two the lease outlasts.                                   *)
(***************************************************************************)
LossesLeft(d) ==
  d \in DOMAIN peers =>
    /\ exchange[d].kind = "answered" => Renewed(d)
    /\ registered[d] /\ misses[d] = 0 => LastsTwoExchanges(d)
    /\ registered[d] /\ misses[d] = 1 => LastsOneExchange(d)

(***************************************************************************)
(* A tick that comes due finds a lease that outlasts what it starts; a     *)
(* failure uses one exchange up; an answer brings both back.               *)
(***************************************************************************)
LEMMA LossesLeftStep ==
  ASSUME Typed, Clock, NEW e \in IP, LossesLeft(e), [Next]_vars
  PROVE  LossesLeft(e)'
<1> USE TimingAssumption DEF LossesLeft, LastsOneExchange, LastsTwoExchanges, Renewed,
    OnClock, ExchangeOK, tracker, loop, watcher, history
<1>a. Readings(e)
  BY ReadingsTyped
<1>1. CASE UNCHANGED <<tracker, loop, calm, misses>>
  BY <1>1
<1>2. ASSUME NEW d \in IP, SendAnnounce(d)
      PROVE  LossesLeft(e)'
  BY <1>2, <1>a DEF Readings, SendAnnounce, Send, Asked
<1>3. ASSUME NEW d \in IP, AnnounceAborts(d)
      PROVE  LossesLeft(e)'
  BY <1>3, <1>a DEF Readings, AnnounceAborts, ToSelect, NoExchange
<1>4. ASSUME NEW d \in IP, TakeChanged(d)
      PROVE  LossesLeft(e)'
  BY <1>4, <1>a DEF Readings, TakeChanged
<1>5. ASSUME NEW d \in IP, TakeTick(d)
      PROVE  LossesLeft(e)'
  BY <1>5, <1>a DEF Readings, TakeTick, ping, Send, Asked
<1>6. ASSUME NEW d \in IP, Receive(d)
      PROVE  LossesLeft(e)'
  <2>1. Received(d)
    BY <1>6, ReceiveEffect
  <2> QED
    BY <2>1, <1>a DEF Readings, Received
<1>7. ASSUME NEW d \in IP, ExchangeFails(d)
      PROVE  LossesLeft(e)'
  BY <1>7, <1>a DEF Readings, ExchangeFails, ToSelect, NoExchange
<1>8. ASSUME NEW d \in IP, TrackerHandles(d)
      PROVE  LossesLeft(e)'
  <2>1. Handled(d, exchange[d].req)
    BY <1>8, HandleEffect DEF Typed, TypeOK, ExchangeOK, TrackerHandles
  <2> QED
    BY <1>8, <1>a, <2>1 DEF Readings, TrackerHandles, Answered, Handled
<1>9. CASE LateArrival
  <2>1. PICK m \in late : Handled(m.from, m.req) /\ m.from \in IP /\ calm' = now
    BY <1>9, HandleEffect DEF Typed, TypeOK, LateArrival
  <2> QED
    BY <1>9, <1>a, <2>1 DEF Readings, LateArrival, Handled
<1>10. CASE TrackerSweeps
  BY <1>10, <1>a DEF Readings, TrackerSweeps, T!Sweep, T!Without, T!Restrict, T!Reaped, T!Expired
<1>11. CASE TrackerRestarts
  BY <1>11, <1>a DEF Readings, TrackerRestarts, T!Restart, T!Empty
<1>12. CASE Advance
  BY <1>12, <1>a DEF Readings, Advance, Fires, Urgent, T!Advance
<1> QED
  BY <1>1, <1>2, <1>3, <1>4, <1>5, <1>6, <1>7, <1>8, <1>9, <1>10, <1>11, <1>12
  DEF Next, vars, CacheChanges, handleEvent, requestReannounce

(***************************************************************************)
(* A registered entry survives one failed exchange, whatever the phase of  *)
(* the ticker and the delay of the answers, for every choice of intervals  *)
(* within TimingAssumption.                                                *)
(***************************************************************************)
THEOREM OneLossIsSurvived == Spec => []SurvivesOneLoss
<1> DEFINE Inv == \A d \in IP : LossesLeft(d)
<1>1. Init => Inv
  BY DEF Init, LossesLeft, T!Init, T!Empty
<1>2. Typed /\ Clock /\ Inv /\ [Next]_vars => Inv'
  BY LossesLeftStep
<1>3. Typed /\ Clock /\ Inv => SurvivesOneLoss
  <2> SUFFICES ASSUME Typed, Clock, Inv, NEW d \in IP,
                      registered[d], misses[d] <= 1, d \in DOMAIN peers
               PROVE  Listed(d)
    BY DEF SurvivesOneLoss
  <2>1. Readings(d) /\ LossesLeft(d)
    BY ReadingsTyped
  <2>2. now <= peers[d].deadline
    BY <2>1, TimingAssumption
    DEF Readings, OnClock, ExchangeOK, LossesLeft, LastsOneExchange, LastsTwoExchanges, Renewed
  <2> QED
    BY <2>1, <2>2 DEF Listed, T!Live, T!Expired, Readings
<1> HIDE DEF Inv
<1> QED
  BY <1>1, <1>2, <1>3, AlwaysOnClock, PTL DEF Spec

-----------------------------------------------------------------------------
(* Healing. *)

(***************************************************************************)
(* What is still to happen before a registration is mended, and by when,   *)
(* counted from the latest trouble: the tick, its ping, the announce that  *)
(* answers a 404.                                                          *)
(***************************************************************************)
Mending(d) ==
  LET x == exchange[d]
      pingBy == calm + PingInterval + RequestTimeout
      announceBy == pingBy + RequestTimeout
  IN  \/ pc[d] = "select" /\ ticked[d] /\ now <= pingBy
      \/ pc[d] = "select" /\ ~ticked[d] /\ nextTick[d] <= pingBy
      \/ pc[d] = "announce" /\ now <= announceBy
      \/ x.kind = "asked" /\ x.req.kind = "ping" /\ x.sentAt <= pingBy
      \/ x.kind = "asked" /\ x.req.kind = "announce" /\ x.sentAt <= announceBy
      \/ x.kind = "answered" /\ x.status = 404 /\ x.sentAt <= pingBy
      \/ x.kind = "answered" /\ x.sentAt <= calm
      \/ x.kind = "answered" /\ x.req.kind = "announce" /\ x.req.packages = {}

(***************************************************************************)
(* The inductive invariant behind SelfHealing: a daemon that is, or is     *)
(* about to be, registered is listed for long enough, or is being mended   *)
(* on time.                                                                *)
(***************************************************************************)
Healing(d) ==
  registered[d] \/ exchange[d].kind = "answered" =>
    \/ d \in DOMAIN peers /\ LastsOneExchange(d)
    \/ Mending(d)

(***************************************************************************)
(* Every step of a calm network moves the mending on in time, or keeps the *)
(* lease long enough; every other step starts the count afresh.            *)
(***************************************************************************)
LEMMA HealingStep ==
  ASSUME Typed, Clock, NEW e \in IP, Healing(e), [Next]_vars
  PROVE  Healing(e)'
<1> USE TimingAssumption DEF Healing, Mending, LastsOneExchange, Renewed, OnClock, ExchangeOK,
    tracker, loop, watcher, history
<1>a. Readings(e)
  BY ReadingsTyped
<1>1. CASE UNCHANGED <<tracker, loop, calm, misses>>
  BY <1>1
<1>2. ASSUME NEW d \in IP, SendAnnounce(d)
      PROVE  Healing(e)'
  BY <1>2, <1>a DEF Readings, SendAnnounce, Send, Asked
<1>3. ASSUME NEW d \in IP, AnnounceAborts(d)
      PROVE  Healing(e)'
  BY <1>3, <1>a DEF Readings, AnnounceAborts, ToSelect, NoExchange
<1>4. ASSUME NEW d \in IP, TakeChanged(d)
      PROVE  Healing(e)'
  BY <1>4, <1>a DEF Readings, TakeChanged
<1>5. ASSUME NEW d \in IP, TakeTick(d)
      PROVE  Healing(e)'
  BY <1>5, <1>a DEF Readings, TakeTick, ping, Send, Asked
<1>6. ASSUME NEW d \in IP, Receive(d)
      PROVE  Healing(e)'
  <2>1. Received(d)
    BY <1>6, ReceiveEffect
  <2> QED
    BY <2>1, <1>a DEF Readings, Received
<1>7. ASSUME NEW d \in IP, ExchangeFails(d)
      PROVE  Healing(e)'
  BY <1>7, <1>a DEF Readings, ExchangeFails, ToSelect, NoExchange
<1>8. ASSUME NEW d \in IP, TrackerHandles(d)
      PROVE  Healing(e)'
  <2>1. Handled(d, exchange[d].req)
    BY <1>8, HandleEffect DEF Typed, TypeOK, ExchangeOK, TrackerHandles
  <2> QED
    BY <1>8, <1>a, <2>1 DEF Readings, TrackerHandles, Answered, Handled
<1>9. CASE LateArrival
  <2>1. PICK m \in late : Handled(m.from, m.req) /\ m.from \in IP /\ calm' = now
    BY <1>9, HandleEffect DEF Typed, TypeOK, LateArrival
  <2> QED
    BY <1>9, <1>a, <2>1 DEF Readings, LateArrival, Handled
<1>10. CASE TrackerSweeps
  BY <1>10, <1>a DEF Readings, TrackerSweeps, T!Sweep, T!Without, T!Restrict, T!Reaped, T!Expired
<1>11. CASE TrackerRestarts
  BY <1>11, <1>a DEF Readings, TrackerRestarts, T!Restart, T!Empty
<1>12. CASE Advance
  <2>1. /\ now' = now + 1 /\ ~Urgent(e)
        /\ UNCHANGED <<peers, calm, registered, pc, exchange>>
    BY <1>12 DEF Advance, T!Advance
  <2>2. ticked'[e] <=> ticked[e] \/ Fires(e)
    BY <1>12 DEF Advance
  <2>3. nextTick'[e] = IF Fires(e) THEN now + 1 + PingInterval ELSE nextTick[e]
    BY <1>12 DEF Advance
  <2>4. CASE exchange[e].kind # "none"
    BY <2>1, <2>4, <1>a DEF Readings
  <2>5. CASE exchange[e].kind = "none"
    <3>1. pc[e] = "select" /\ ~ticked[e]
      BY <2>1, <2>5, <1>a DEF Readings, Urgent
    <3>2. registered[e] => nextTick[e] # 0 /\ (Fires(e) => nextTick[e] = now')
      BY <2>1, <1>a DEF Readings, Fires
    <3>3. CASE Fires(e)
      BY <2>1, <2>2, <2>5, <3>1, <3>2, <3>3, <1>a DEF Readings
    <3>4. CASE ~Fires(e)
      BY <2>1, <2>2, <2>3, <2>5, <3>1, <3>4, <1>a DEF Readings
    <3> QED
      BY <3>3, <3>4
  <2> QED
    BY <2>4, <2>5
<1> QED
  BY <1>1, <1>2, <1>3, <1>4, <1>5, <1>6, <1>7, <1>8, <1>9, <1>10, <1>11, <1>12
  DEF Next, vars, CacheChanges, handleEvent, requestReannounce

(***************************************************************************)
(* Self-healing: once the network has been calm for PingInterval and three *)
(* exchanges, a daemon that believes it is registered is listed, whatever  *)
(* was lost, delivered late or forgotten before.                           *)
(***************************************************************************)
THEOREM RegistrationHeals == Spec => []SelfHealing
<1> DEFINE Inv == \A d \in IP : Healing(d)
<1>1. Init => Inv
  BY DEF Init, Healing, NoExchange
<1>2. Typed /\ Clock /\ Inv /\ [Next]_vars => Inv'
  BY HealingStep
<1>3. Typed /\ Clock /\ Inv => SelfHealing
  <2> SUFFICES ASSUME Typed, Clock, Inv, NEW d \in IP,
                      registered[d], Settled(d), now > calm + HealTime
               PROVE  Listed(d)
    BY DEF SelfHealing
  <2>1. Readings(d) /\ Healing(d)
    BY ReadingsTyped
  <2>2. ~Mending(d)
    BY <2>1 DEF Readings, OnClock, ExchangeOK, Mending, Settled, HealTime
  <2>3. d \in DOMAIN peers /\ now <= peers[d].deadline
    BY <2>1, <2>2, TimingAssumption
    DEF Readings, OnClock, ExchangeOK, Healing, LastsOneExchange, Settled
  <2> QED
    BY <2>1, <2>3 DEF Listed, T!Live, T!Expired, Readings
<1> HIDE DEF Inv
<1> QED
  BY <1>1, <1>2, <1>3, AlwaysOnClock, PTL DEF Spec

-----------------------------------------------------------------------------
(* The composed system and the tracker's own specification. *)

(***************************************************************************)
(* Whatever the daemons, their losses and their late requests do, the      *)
(* tracker's variables take a step of the tracker or none.                 *)
(***************************************************************************)
LEMMA HandleIsTrackerStep ==
  ASSUME NEW d \in IP, NEW req \in ValidRequest, Handle(d, req)
  PROVE  T!Next
<1>1. CASE T!handlePing(d)
  BY <1>1, Zenon DEF T!Next
<1>2. CASE req.kind = "announce" /\ ~T!handlePing(d)
  <2> DEFINE body == [body |-> "json", port |-> ServingPort, packages |-> req.packages]
  <2>1. body \in T!AnnounceRequest
    BY <1>2, AnnounceAccepted
  <2>2. T!handleAnnounce(d, body)
    BY <1>2 DEF Handle
  <2> HIDE DEF body
  <2> QED BY <2>1, <2>2, Zenon DEF T!Next
<1> QED BY <1>1, <1>2 DEF Handle

(***************************************************************************)
(* Each step of the system is one of the tracker's or leaves it alone.     *)
(***************************************************************************)
LEMMA StepIsTrackerStep ==
  ASSUME Typed, [Next]_vars
  PROVE  T!Next \/ UNCHANGED T!vars
<1>1. UNCHANGED tracker => UNCHANGED T!vars
  BY DEF tracker, T!vars
<1>2. CASE UNCHANGED vars
  BY <1>1, <1>2 DEF vars
<1>3. ASSUME NEW d \in IP,
             \/ CacheChanges(d) \/ handleEvent(d) \/ requestReannounce(d)
             \/ SendAnnounce(d) \/ AnnounceAborts(d)
             \/ TakeChanged(d) \/ TakeTick(d)
             \/ Receive(d) \/ ExchangeFails(d)
      PROVE  UNCHANGED T!vars
  <2>1. UNCHANGED tracker
    BY <1>3 DEF CacheChanges, handleEvent, requestReannounce, SendAnnounce, AnnounceAborts,
                TakeChanged, TakeTick, Receive, ExchangeFails
  <2> QED BY <1>1, <2>1
<1>4. ASSUME NEW d \in IP, TrackerHandles(d)
      PROVE  T!Next
  <2>1. exchange[d].req \in ValidRequest /\ Handle(d, exchange[d].req)
    BY <1>4 DEF TrackerHandles, Typed, ExchangeOK
  <2> QED BY <2>1, HandleIsTrackerStep
<1>5. CASE LateArrival
  <2>1. PICK m \in late : Handle(m.from, m.req)
    BY <1>5 DEF LateArrival
  <2>2. m.from \in IP /\ m.req \in ValidRequest
    BY DEF Typed, TypeOK
  <2> QED BY <2>1, <2>2, HandleIsTrackerStep
<1>6. CASE TrackerSweeps \/ TrackerRestarts \/ Advance
  <2>1. T!Sweep \/ T!Restart \/ T!Advance
    BY <1>6 DEF TrackerSweeps, TrackerRestarts, Advance
  <2> QED BY <2>1, Zenon DEF T!Next
<1> QED
  BY <1>2, <1>3, <1>4, <1>5, <1>6 DEF Next

(***************************************************************************)
(* The system of daemons and tracker implements the tracker: nothing in    *)
(* the composition reaches into the registry past its handlers.            *)
(***************************************************************************)
THEOREM SystemImplementsTracker == Spec => T!Spec
<1>1. Init => T!Init
  BY DEF Init
<1>2. Typed /\ [Next]_vars => [T!Next]_(T!vars)
  BY StepIsTrackerStep
<1> QED
  BY <1>1, <1>2, AlwaysTyped, PTL DEF Spec, T!Spec

(***************************************************************************)
(* The two instances of Tracker on the same variables agree: initial       *)
(* states,                                                                 *)
(***************************************************************************)
LEMMA SameInit == T!Init => TP!Init
  BY Zenon DEF T!Init, TP!Init, T!Empty, TP!Empty

(***************************************************************************)
(* and steps.                                                              *)
(***************************************************************************)
LEMMA SameNext == T!Next => TP!Next
<1>1. \A nv : T!handlePeers(nv) = TP!handlePeers(nv)
  <2>1. \A nv : T!LiveHolders(nv) = TP!LiveHolders(nv)
    BY Zenon DEF T!LiveHolders, TP!LiveHolders, T!Expired, TP!Expired
  <2>2. \A nv : T!Peers(nv) = TP!Peers(nv)
    BY <2>1, SameCardinality, Zenon DEF T!Peers, TP!Peers
  <2> QED
    BY <2>2, Zenon DEF T!handlePeers, TP!handlePeers
<1> QED
  BY <1>1, SameTracker, Zenon DEF T!Next, TP!Next

(***************************************************************************)
(* Seen from the daemons, the tracker in the composed system is the        *)
(* directory that forgets a lease the instant it runs out, whatever is     *)
(* lost, delivered late or forgotten on the way.                           *)
(***************************************************************************)
THEOREM SystemImplementsDirectory == Spec => TP!ImplementsDirectory
<1>1. [T!Next]_(T!vars) => [TP!Next]_(TP!vars)
  BY SameNext DEF T!vars, TP!vars
<1>2. T!Spec => TP!Spec
  BY <1>1, SameInit, PTL DEF T!Spec, TP!Spec
<1>3. TP!Spec => TP!ImplementsDirectory
  BY TP!TrackerImplementsDirectory, PTL
<1> QED
  BY <1>2, <1>3, SystemImplementsTracker, PTL
=============================================================================
