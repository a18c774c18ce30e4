------------------------------ MODULE Tracker ------------------------------
(***************************************************************************)
(* The tracker process: internal/tracker/tracker.go behind the three HTTP  *)
(* handlers of cmd/trac/main.go.                                           *)
(*                                                                         *)
(* Every operation of tracker.go runs under one mutex, so each handler's   *)
(* call is one atomic action here.  What makes it intricate is that the    *)
(* same registration is kept twice, in peers and, turned around, in the    *)
(* index packages, and that a record past its deadline stays in both until *)
(* the sweeper or a ping meets it.                                         *)
(***************************************************************************)
EXTENDS Naturals, FiniteSets, Functions

CONSTANTS IP,             \* connection source addresses
          NameVersion,    \* name-versions ValidateNameVersion accepts
          BadName,        \* name-versions it refuses (too long, empty, control characters)
          MaxPort,        \* 65535 in the code
          MaxPackages,    \* 4096 in the code
          Timeout,        \* 60 s in the code
          MaxPeers,       \* 3 in the code
          MaxTime         \* bound on the clock

ASSUME TrackerAssumption ==
  /\ MaxPort \in Nat \ {0}
  /\ MaxPackages \in Nat
  /\ Timeout \in Nat
  /\ MaxPeers \in Nat
  /\ MaxTime \in Nat
  /\ NameVersion \cap BadName = {}

VARIABLES peers,      \* IP -> record of the registered daemons
          packages,   \* reverse index: name-version -> set of IPs
          now,        \* time.Now()
          reply       \* what the latest handler wrote back

vars == <<peers, packages, now, reply>>

-----------------------------------------------------------------------------
(* Data. *)

MinPort == 1
Port == MinPort .. MaxPort

PeerRecord == [port : Port, packages : SUBSET NameVersion, deadline : Nat]

PeerInfo == [ip : IP, port : Port]

(***************************************************************************)
(* An announce body: what the bytes decode to, with one port below and one *)
(* above the legal range, or bytes that do not decode.  A package list is  *)
(* a set: a repeated name only counts towards MaxPackages in the code.     *)
(***************************************************************************)
AnnounceRequest ==
  [body : {"json"}, port : 0 .. MaxPort + 1, packages : SUBSET (NameVersion \cup BadName)]
    \cup [body : {"malformed", "oversized"}]

Reply ==
  [op : {"none"}]
    \cup [op : {"announce", "ping"}, ip : IP, status : {200, 400, 404, 413}]
    \cup [op : {"peers"}, nameVersion : NameVersion, status : {200}, peers : SUBSET PeerInfo]
    \cup [op : {"peers"}, status : {400}]

-----------------------------------------------------------------------------
(* The registry. *)

Empty == [x \in {} |-> {}]

Init ==
  /\ peers = Empty
  /\ packages = Empty
  /\ now = 0
  /\ reply = [op |-> "none"]

Expired(ip) == now > peers[ip].deadline

(***************************************************************************)
(* The index once every ip in ips has been stripped from the packages its  *)
(* own record lists.  A holder set this empties is dropped.                *)
(***************************************************************************)
Claims(ip) == IF ip \in DOMAIN peers THEN peers[ip].packages ELSE {}
Gone(ips, nv) == {ip \in ips : nv \in Claims(ip)}

BugLeakEmptyHolders(ips) ==
  [nv \in DOMAIN packages |-> packages[nv] \ Gone(ips, nv)]

removeFromIndex(ips) ==
  [nv \in {n \in DOMAIN packages :
             Gone(ips, n) # {} => packages[n] \ Gone(ips, n) # {}}
     |-> packages[nv] \ Gone(ips, nv)]

AddHolder(index, ip, nvs) ==
  [nv \in DOMAIN index \cup nvs |->
     (IF nv \in DOMAIN index THEN index[nv] ELSE {})
       \cup (IF nv \in nvs THEN {ip} ELSE {})]

Without(f, S) == Restrict(f, DOMAIN f \ S)

(***************************************************************************)
(* Announce: the old claims go first, whatever the new list is; an empty   *)
(* list deregisters.                                                       *)
(***************************************************************************)
Register(ip, port, nvs) ==
  peers' = [i \in DOMAIN peers \cup {ip} |->
              IF i = ip
              THEN [port |-> port, packages |-> nvs, deadline |-> now + Timeout]
              ELSE peers[i]]

Announce(ip, port, nvs) ==
  \/ /\ nvs = {}
     /\ packages' = removeFromIndex({ip})
     /\ peers' = Without(peers, {ip})
  \/ /\ nvs # {}
     /\ packages' = AddHolder(removeFromIndex({ip}), ip, nvs)
     /\ Register(ip, port, nvs)

(***************************************************************************)
(* Ping: TRUE when known.  A record past its deadline that the sweeper has *)
(* not reached is dropped on the spot rather than renewed.                 *)
(***************************************************************************)
Ping(ip, known) ==
  \/ /\ ip \notin DOMAIN peers
     /\ known = FALSE
     /\ UNCHANGED <<peers, packages>>
  \/ /\ ip \in DOMAIN peers
     /\ Expired(ip)
     /\ known = FALSE
     /\ packages' = removeFromIndex({ip})
     /\ peers' = Without(peers, {ip})
  \/ /\ ip \in DOMAIN peers
     /\ ~Expired(ip)
     /\ known = TRUE
     /\ peers' = [peers EXCEPT ![ip].deadline = now + Timeout]
     /\ UNCHANGED packages

(***************************************************************************)
(* Peers: a random-order walk over the holder set that skips the expired   *)
(* and stops at MaxPeers, so any MaxPeers of the live holders.             *)
(***************************************************************************)
BugListsExpired(nv) ==
  IF nv \in DOMAIN packages THEN packages[nv] \cap DOMAIN peers ELSE {}

LiveHolders(nv) ==
  IF nv \in DOMAIN packages
  THEN {ip \in packages[nv] : ip \in DOMAIN peers /\ ~Expired(ip)}
  ELSE {}

Peers(nv) ==
  LET size == IF Cardinality(LiveHolders(nv)) > MaxPeers
              THEN MaxPeers ELSE Cardinality(LiveHolders(nv))
  IN  {{[ip |-> ip, port |-> peers[ip].port] : ip \in chosen} :
         chosen \in {c \in SUBSET LiveHolders(nv) : Cardinality(c) = size}}

(***************************************************************************)
(* Sweep: every expired record, index first.                               *)
(***************************************************************************)
BugReapAfterTwoTimeouts == {ip \in DOMAIN peers : now > peers[ip].deadline + Timeout}

Reaped == {ip \in DOMAIN peers : Expired(ip)}

Sweep ==
  /\ packages' = removeFromIndex(Reaped)
  /\ peers' = Without(peers, Reaped)
  /\ UNCHANGED <<now, reply>>

-----------------------------------------------------------------------------
(* The handlers. *)

(***************************************************************************)
(* proto.AnnounceRequest.Validate and the bounds on the body, as the       *)
(* status handleAnnounce answers with.                                     *)
(***************************************************************************)
BugNoPortCheck(req) ==
  IF req.body # "json" \/ req.packages \cap BadName # {} THEN 400 ELSE 200

AnnounceStatus(req) ==
  IF req.body = "oversized" THEN 413
  ELSE IF req.body = "malformed" THEN 400
  ELSE IF req.port \notin Port THEN 400
  ELSE IF Cardinality(req.packages) > MaxPackages THEN 413
  ELSE IF req.packages \cap BadName # {} THEN 400
  ELSE 200

handleAnnounce(ip, req) ==
  /\ reply' = [op |-> "announce", ip |-> ip, status |-> AnnounceStatus(req)]
  /\ IF AnnounceStatus(req) = 200
     THEN Announce(ip, req.port, req.packages)
     ELSE UNCHANGED <<peers, packages>>
  /\ UNCHANGED now

handlePing(ip) ==
  \E known \in BOOLEAN :
    /\ Ping(ip, known)
    /\ reply' = [op |-> "ping", ip |-> ip, status |-> IF known THEN 200 ELSE 404]
    /\ UNCHANGED now

handlePeers(nv) ==
  /\ \/ /\ nv \in BadName
        /\ reply' = [op |-> "peers", status |-> 400]
     \/ /\ nv \notin BadName
        /\ \E found \in Peers(nv) :
             reply' = [op |-> "peers", nameVersion |-> nv, status |-> 200, peers |-> found]
  /\ UNCHANGED <<peers, packages, now>>

-----------------------------------------------------------------------------
(* The world: the clock, and a tracker process that dies and is started    *)
(* again with empty maps.                                                  *)

Advance ==
  /\ now < MaxTime
  /\ now' = now + 1
  /\ UNCHANGED <<peers, packages, reply>>

Restart ==
  /\ peers' = Empty
  /\ packages' = Empty
  /\ reply' = [op |-> "none"]
  /\ UNCHANGED now

Next ==
  \/ \E ip \in IP :
        \/ \E req \in AnnounceRequest : handleAnnounce(ip, req)
        \/ handlePing(ip)
  \/ \E nv \in NameVersion \cup BadName : handlePeers(nv)
  \/ Sweep
  \/ Advance
  \/ Restart

Spec == Init /\ [][Next]_vars

(***************************************************************************)
(* RunSweeper sweeps on a ticker for as long as the process lives.         *)
(***************************************************************************)
FairSpec == Spec /\ WF_vars(Sweep)

-----------------------------------------------------------------------------
(* What has to hold. *)

(***************************************************************************)
(* Every record, index entry and answer has the shape its Go type gives.   *)
(***************************************************************************)
TypeOK ==
  /\ DOMAIN peers \subseteq IP
  /\ peers \in [DOMAIN peers -> PeerRecord]
  /\ DOMAIN packages \subseteq NameVersion
  /\ packages \in [DOMAIN packages -> SUBSET IP]
  /\ now \in Nat
  /\ reply \in Reply

(***************************************************************************)
(* The reverse index is exactly the records turned around: an IP is listed *)
(* under a name-version just when its own record lists that name-version,  *)
(* and no holder set is empty.  removeFromIndex reads the record it is     *)
(* about to become stale with, so every order of strip, delete and insert  *)
(* in Announce, Ping and Sweep is at stake here.                           *)
(***************************************************************************)
IndexConsistent ==
  /\ \A nv \in NameVersion, ip \in IP :
       nv \in Claims(ip) <=> nv \in DOMAIN packages /\ ip \in packages[nv]
  /\ \A nv \in DOMAIN packages : packages[nv] # {}

Dead(ip) == ip \in DOMAIN peers /\ Expired(ip)

(***************************************************************************)
(* A record that outlives its deadline does not stay: it is reaped, or its *)
(* daemon announces again.                                                 *)
(***************************************************************************)
DeadRecordsReaped == \A ip \in IP : Dead(ip) ~> ~Dead(ip)

Live == {ip \in DOMAIN peers : ~Expired(ip)}

Directory == INSTANCE LeaseDirectory WITH lease <- Restrict(peers, Live)

(***************************************************************************)
(* Daemons cannot tell this tracker from a directory that forgets a lease  *)
(* the instant it runs out: the index answers like a scan of the records,  *)
(* and dead records that wait for the sweeper are invisible to /peers and  *)
(* to /ping alike.                                                         *)
(***************************************************************************)
ImplementsDirectory == Directory!Spec
=============================================================================
