--------------------------- MODULE TrackerProofs ---------------------------
(***************************************************************************)
(* Proofs about the tracker, for every set of addresses and packages and   *)
(* every timeout, cap and clock bound.                                     *)
(***************************************************************************)
EXTENDS Tracker, TLAPS

USE TrackerAssumption

(***************************************************************************)
(* Every value of AnnounceStatus is one of the four statuses, and 200 is   *)
(* only answered to a request that Validate accepts.                       *)
(***************************************************************************)
LEMMA AcceptedIsValid ==
  ASSUME NEW req \in AnnounceRequest
  PROVE  /\ AnnounceStatus(req) \in {200, 400, 413}
         /\ AnnounceStatus(req) = 200 =>
              /\ req.port \in Port
              /\ req.packages \in SUBSET NameVersion
  BY DEF AnnounceRequest, AnnounceStatus

(***************************************************************************)
(* What removeFromIndex leaves is still an index.                          *)
(***************************************************************************)
LEMMA StripType ==
  ASSUME TypeOK, NEW ips
  PROVE  /\ DOMAIN removeFromIndex(ips) \subseteq NameVersion
         /\ removeFromIndex(ips) \in [DOMAIN removeFromIndex(ips) -> SUBSET IP]
  BY DEF TypeOK, removeFromIndex

(***************************************************************************)
(* Announce's insertion of an address under each announced name-version    *)
(* keeps an index an index.                                                *)
(***************************************************************************)
LEMMA AddHolderType ==
  ASSUME NEW index, DOMAIN index \subseteq NameVersion,
         index \in [DOMAIN index -> SUBSET IP],
         NEW ip \in IP, NEW nvs \in SUBSET NameVersion
  PROVE  /\ DOMAIN AddHolder(index, ip, nvs) \subseteq NameVersion
         /\ AddHolder(index, ip, nvs) \in [DOMAIN AddHolder(index, ip, nvs) -> SUBSET IP]
  BY DEF AddHolder

(***************************************************************************)
(* What Announce of an empty list, Ping of an expired record and Sweep     *)
(* have in common.                                                         *)
(***************************************************************************)
LEMMA DropType ==
  ASSUME TypeOK, NEW ips, now' \in Nat, reply' \in Reply,
         packages' = removeFromIndex(ips), peers' = Without(peers, ips)
  PROVE  TypeOK'
<1>1. /\ DOMAIN packages' \subseteq NameVersion
      /\ packages' \in [DOMAIN packages' -> SUBSET IP]
  BY DEF removeFromIndex, TypeOK
<1>2. /\ DOMAIN peers' \subseteq IP
      /\ peers' \in [DOMAIN peers' -> PeerRecord]
  BY DEF Without, Restrict, TypeOK
<1> QED
  BY <1>1, <1>2 DEF TypeOK

(***************************************************************************)
(* Announce's new record is a record, and the other records stay.          *)
(***************************************************************************)
LEMMA RegisterType ==
  ASSUME TypeOK, NEW ip \in IP, NEW port \in Port, NEW nvs \in SUBSET NameVersion,
         Register(ip, port, nvs)
  PROVE  /\ DOMAIN peers' = DOMAIN peers \cup {ip}
         /\ peers' \in [DOMAIN peers' -> PeerRecord]
  BY DEF TypeOK, Register, PeerRecord

-----------------------------------------------------------------------------
(***************************************************************************)
(* Type correctness.  A tracker starts with empty maps.                    *)
(***************************************************************************)
LEMMA InitType == Init => TypeOK
  BY DEF Init, TypeOK, Empty, Reply

(***************************************************************************)
(* handleAnnounce: a refusal changes nothing, an empty list drops, any     *)
(* other list is stripped and inserted.                                    *)
(***************************************************************************)
LEMMA AnnounceKeepsType ==
  ASSUME TypeOK, NEW ip \in IP, NEW req \in AnnounceRequest, handleAnnounce(ip, req)
  PROVE  TypeOK'
<1>1. reply' \in Reply
  BY AcceptedIsValid DEF handleAnnounce, Reply
<1>2. now' \in Nat
  BY DEF handleAnnounce, TypeOK
<1>3. CASE AnnounceStatus(req) # 200
  BY <1>1, <1>2, <1>3 DEF handleAnnounce, TypeOK
<1>4. CASE AnnounceStatus(req) = 200
  <2>1. req.port \in Port /\ req.packages \in SUBSET NameVersion
    BY <1>4, AcceptedIsValid
  <2>2. CASE req.packages = {}
    <3>1. packages' = removeFromIndex({ip}) /\ peers' = Without(peers, {ip})
      BY <1>4, <2>2 DEF handleAnnounce, Announce
    <3> QED
      BY <1>1, <1>2, <3>1, DropType
  <2>3. CASE req.packages # {}
    <3>1. /\ packages' = AddHolder(removeFromIndex({ip}), ip, req.packages)
          /\ Register(ip, req.port, req.packages)
      BY <1>4, <2>3 DEF handleAnnounce, Announce
    <3>2. /\ DOMAIN packages' \subseteq NameVersion
          /\ packages' \in [DOMAIN packages' -> SUBSET IP]
      BY <2>1, <3>1, StripType, AddHolderType
    <3>3. /\ DOMAIN peers' \subseteq IP
          /\ peers' \in [DOMAIN peers' -> PeerRecord]
      BY <2>1, <3>1, RegisterType DEF TypeOK
    <3> QED
      BY <1>1, <1>2, <3>2, <3>3 DEF TypeOK
  <2> QED
    BY <2>2, <2>3
<1> QED
  BY <1>3, <1>4

(***************************************************************************)
(* handlePing: nothing, a drop or a new deadline.                          *)
(***************************************************************************)
LEMMA PingKeepsType ==
  ASSUME TypeOK, NEW ip \in IP, handlePing(ip)
  PROVE  TypeOK'
<1>1. PICK known \in BOOLEAN :
        /\ Ping(ip, known)
        /\ reply' = [op |-> "ping", ip |-> ip, status |-> IF known THEN 200 ELSE 404]
        /\ UNCHANGED now
  BY DEF handlePing
<1>2. reply' \in Reply
  BY <1>1 DEF Reply
<1>3. CASE UNCHANGED <<peers, packages>>
  BY <1>1, <1>2, <1>3 DEF TypeOK
<1>4. CASE packages' = removeFromIndex({ip}) /\ peers' = Without(peers, {ip})
  <2>1. now' \in Nat
    BY <1>1 DEF TypeOK
  <2> QED
    BY <1>2, <1>4, <2>1, DropType
<1>5. CASE /\ ip \in DOMAIN peers
           /\ peers' = [peers EXCEPT ![ip].deadline = now + Timeout]
           /\ UNCHANGED packages
  <2>1. [peers[ip] EXCEPT !.deadline = now + Timeout] \in PeerRecord
    BY <1>5 DEF TypeOK, PeerRecord
  <2>2. peers' \in [DOMAIN peers -> PeerRecord] /\ DOMAIN peers' = DOMAIN peers
    BY <1>5, <2>1 DEF TypeOK
  <2> QED
    BY <1>1, <1>2, <1>5, <2>2 DEF TypeOK
<1> QED
  BY <1>1, <1>3, <1>4, <1>5 DEF Ping

(***************************************************************************)
(* handlePeers changes no map and answers with well-formed addresses.      *)
(***************************************************************************)
LEMMA PeersKeepsType ==
  ASSUME TypeOK, NEW nv \in NameVersion \cup BadName, handlePeers(nv)
  PROVE  TypeOK'
<1>1. CASE nv \in BadName
  <2>1. reply' \in Reply
    BY <1>1 DEF handlePeers, Reply
  <2> QED
    BY <2>1 DEF handlePeers, TypeOK
<1>2. CASE nv \notin BadName
  <2>1. PICK found \in Peers(nv) :
          reply' = [op |-> "peers", nameVersion |-> nv, status |-> 200, peers |-> found]
    BY <1>2 DEF handlePeers
  <2>2. PICK chosen \in SUBSET LiveHolders(nv) :
          found = {[ip |-> ip, port |-> peers[ip].port] : ip \in chosen}
    BY DEF Peers
  <2>3. \A ip \in chosen : ip \in IP /\ peers[ip].port \in Port
    BY <2>2 DEF LiveHolders, TypeOK, PeerRecord
  <2>4. found \in SUBSET PeerInfo
    BY <2>2, <2>3 DEF PeerInfo
  <2>5. reply' \in Reply
    BY <1>2, <2>1, <2>4 DEF Reply
  <2> QED
    BY <2>5 DEF handlePeers, TypeOK
<1> QED
  BY <1>1, <1>2

(***************************************************************************)
(* Every step of the tracker process keeps the types.                      *)
(***************************************************************************)
LEMMA NextKeepsType == TypeOK /\ [Next]_vars => TypeOK'
<1> SUFFICES ASSUME TypeOK, [Next]_vars PROVE TypeOK'
  OBVIOUS
<1>1. CASE \E ip \in IP, req \in AnnounceRequest : handleAnnounce(ip, req)
  BY <1>1, AnnounceKeepsType
<1>2. CASE \E ip \in IP : handlePing(ip)
  BY <1>2, PingKeepsType
<1>3. CASE \E nv \in NameVersion \cup BadName : handlePeers(nv)
  BY <1>3, PeersKeepsType
<1>4. CASE Sweep
  <2>1. now' \in Nat /\ reply' \in Reply
    BY <1>4 DEF Sweep, TypeOK
  <2> QED
    BY <1>4, <2>1, DropType DEF Sweep
<1>5. CASE Advance
  BY <1>5 DEF Advance, TypeOK
<1>6. CASE Restart
  BY <1>6 DEF Restart, Empty, TypeOK, Reply
<1>7. CASE UNCHANGED vars
  BY <1>7 DEF vars, TypeOK
<1> QED
  BY <1>1, <1>2, <1>3, <1>4, <1>5, <1>6, <1>7 DEF Next

(***************************************************************************)
(* Records, index entries and answers keep the shape of their Go types     *)
(* through every interleaving of handlers, sweeps, restarts and ticks: in  *)
(* particular no refused port or name ever reaches the registry.           *)
(***************************************************************************)
THEOREM TypeCorrect == Spec => []TypeOK
  BY InitType, NextKeepsType, PTL DEF Spec

-----------------------------------------------------------------------------
(***************************************************************************)
(* The index.  Dropping a set of addresses from both maps keeps them in    *)
(* step because the strip reads the records before they are deleted.       *)
(***************************************************************************)
LEMMA DropKeepsIndex ==
  ASSUME TypeOK, IndexConsistent, NEW ips,
         packages' = removeFromIndex(ips), peers' = Without(peers, ips)
  PROVE  IndexConsistent'
<1>1. ASSUME NEW nv \in NameVersion, NEW ip \in IP
      PROVE  (nv \in Claims(ip))' <=> nv \in DOMAIN packages' /\ ip \in packages'[nv]
  BY DEF removeFromIndex, Gone, Without, Restrict, Claims, TypeOK, IndexConsistent
<1>2. ASSUME NEW nv \in DOMAIN packages' PROVE packages'[nv] # {}
  BY DEF removeFromIndex, Gone, IndexConsistent
<1> QED
  BY <1>1, <1>2 DEF IndexConsistent

(***************************************************************************)
(* Announce of a non-empty list: after the strip the index holds the       *)
(* claims of everyone else, and the insertion adds exactly the new ones.   *)
(***************************************************************************)
LEMMA RegisterKeepsIndex ==
  ASSUME TypeOK, IndexConsistent,
         NEW ip \in IP, NEW port \in Port, NEW nvs \in SUBSET NameVersion,
         packages' = AddHolder(removeFromIndex({ip}), ip, nvs),
         Register(ip, port, nvs)
  PROVE  IndexConsistent'
<1> DEFINE index == removeFromIndex({ip})
<1>1. \A nv \in NameVersion, i \in IP :
        (nv \in DOMAIN index /\ i \in index[nv]) <=> (i # ip /\ nv \in Claims(i))
  BY DEF removeFromIndex, Gone, Claims, TypeOK, IndexConsistent
<1>2. \A nv \in DOMAIN index : nv \in NameVersion /\ index[nv] # {}
  BY DEF removeFromIndex, Gone, TypeOK, IndexConsistent
<1>3. packages' = AddHolder(index, ip, nvs)
  OBVIOUS
<1> HIDE DEF index
<1>4. ASSUME NEW nv \in NameVersion, NEW i \in IP
      PROVE  (nv \in Claims(i))' <=> nv \in DOMAIN packages' /\ i \in packages'[nv]
  <2>1. (nv \in Claims(i))' <=> IF i = ip THEN nv \in nvs ELSE nv \in Claims(i)
    BY DEF Claims, Register, TypeOK
  <2>2. (nv \in DOMAIN packages' /\ i \in packages'[nv])
          <=> \/ nv \in DOMAIN index /\ i \in index[nv]
              \/ nv \in nvs /\ i = ip
    <3>1. DOMAIN packages' = DOMAIN index \cup nvs
      BY <1>3 DEF AddHolder
    <3>2. \A n \in DOMAIN index \cup nvs :
            packages'[n] = (IF n \in DOMAIN index THEN index[n] ELSE {})
                             \cup (IF n \in nvs THEN {ip} ELSE {})
      BY <1>3 DEF AddHolder
    <3> QED
      BY <3>1, <3>2
  <2> QED
    BY <1>1, <2>1, <2>2
<1>5. ASSUME NEW nv \in DOMAIN packages' PROVE packages'[nv] # {}
  BY <1>2, <1>3 DEF AddHolder
<1> QED
  BY <1>4, <1>5 DEF IndexConsistent

(***************************************************************************)
(* Every step of the tracker process keeps the index in step with the      *)
(* records.                                                                *)
(***************************************************************************)
LEMMA NextKeepsIndex == TypeOK /\ IndexConsistent /\ [Next]_vars => IndexConsistent'
<1> SUFFICES ASSUME TypeOK, IndexConsistent, [Next]_vars PROVE IndexConsistent'
  OBVIOUS
<1>1. CASE UNCHANGED <<peers, packages>>
  BY <1>1 DEF IndexConsistent, Claims
<1>2. ASSUME NEW ip \in IP, NEW req \in AnnounceRequest, handleAnnounce(ip, req)
      PROVE  IndexConsistent'
  <2>1. CASE AnnounceStatus(req) # 200
    BY <1>1, <1>2, <2>1 DEF handleAnnounce
  <2>2. CASE AnnounceStatus(req) = 200 /\ req.packages = {}
    BY <1>2, <2>2, DropKeepsIndex DEF handleAnnounce, Announce
  <2>3. CASE AnnounceStatus(req) = 200 /\ req.packages # {}
    <3>1. req.port \in Port /\ req.packages \in SUBSET NameVersion
      BY <2>3, AcceptedIsValid
    <3> QED
      BY <1>2, <2>3, <3>1, RegisterKeepsIndex DEF handleAnnounce, Announce
  <2> QED
    BY <2>1, <2>2, <2>3
<1>3. ASSUME NEW ip \in IP, handlePing(ip)
      PROVE  IndexConsistent'
  <2>1. PICK known \in BOOLEAN : Ping(ip, known)
    BY <1>3 DEF handlePing
  <2>2. CASE packages' = removeFromIndex({ip}) /\ peers' = Without(peers, {ip})
    BY <2>2, DropKeepsIndex
  <2>3. CASE /\ ip \in DOMAIN peers
             /\ peers' = [peers EXCEPT ![ip].deadline = now + Timeout]
             /\ UNCHANGED packages
    <3>1. \A i : Claims(i)' = Claims(i)
      BY <2>3 DEF Claims, TypeOK, PeerRecord
    <3> QED
      BY <2>3, <3>1 DEF IndexConsistent
  <2> QED
    BY <1>1, <2>1, <2>2, <2>3 DEF Ping
<1>4. CASE Sweep
  BY <1>4, DropKeepsIndex DEF Sweep
<1>5. CASE Restart
  BY <1>5 DEF Restart, Empty, IndexConsistent, Claims
<1>6. CASE \/ Advance
           \/ \E nv \in NameVersion \cup BadName : handlePeers(nv)
           \/ UNCHANGED vars
  BY <1>1, <1>6 DEF Advance, handlePeers, vars
<1> QED
  BY <1>2, <1>3, <1>4, <1>5, <1>6 DEF Next

(***************************************************************************)
(* The reverse index never disagrees with the records: no address stays    *)
(* listed for a package it dropped or after its record went, none is       *)
(* missing, and no empty holder set is left behind.                        *)
(***************************************************************************)
THEOREM IndexStaysConsistent == Spec => []IndexConsistent
<1>1. Init => IndexConsistent
  BY DEF Init, Empty, IndexConsistent, Claims
<1> QED
  BY <1>1, TypeCorrect, NextKeepsIndex, PTL DEF Spec

-----------------------------------------------------------------------------
(***************************************************************************)
(* The tracker implements the directory of leases.  The directory's lease  *)
(* map is the live part of peers; each lemma says what one step of the     *)
(* tracker does to it.                                                     *)
(***************************************************************************)
Lease == Restrict(peers, Live)

(***************************************************************************)
(* Dropping records, live or not, drops just their leases.                 *)
(***************************************************************************)
LEMMA DropLease ==
  ASSUME TypeOK, NEW ips, peers' = Without(peers, ips), now' = now
  PROVE  Lease' = Restrict(Lease, DOMAIN Lease \ ips)
  BY DEF Lease, Restrict, Live, Expired, Without, TypeOK

(***************************************************************************)
(* An accepted announce opens or replaces one lease, an expired one        *)
(* included, and touches no other.                                         *)
(***************************************************************************)
LEMMA RegisterLease ==
  ASSUME TypeOK, NEW ip \in IP, NEW port \in Port, NEW nvs \in SUBSET NameVersion,
         Register(ip, port, nvs), now' = now
  PROVE  Lease' = [i \in DOMAIN Lease \cup {ip} |->
                     IF i = ip THEN [port |-> port, packages |-> nvs,
                                     deadline |-> now + Timeout]
                     ELSE Lease[i]]
<1>1. Live' = Live \cup {ip}
  BY DEF Live, Expired, Register, TypeOK
<1>2. \A i \in Live' : peers'[i] = IF i = ip THEN [port |-> port, packages |-> nvs,
                                                    deadline |-> now + Timeout]
                                    ELSE peers[i]
  BY <1>1 DEF Live, Register
<1> QED
  BY <1>1, <1>2 DEF Lease, Restrict

(***************************************************************************)
(* A ping of a live record moves the deadline of that lease only.          *)
(***************************************************************************)
LEMMA RenewLease ==
  ASSUME TypeOK, NEW ip \in Live, now' = now,
         peers' = [peers EXCEPT ![ip].deadline = now + Timeout]
  PROVE  Lease' = [Lease EXCEPT ![ip].deadline = now + Timeout]
<1>1. Live' = Live
  BY DEF Live, Expired, TypeOK, PeerRecord
<1>2. \A i \in Live : peers'[i] = IF i = ip THEN [peers[ip] EXCEPT !.deadline = now + Timeout]
                                  ELSE peers[i]
  BY DEF Live
<1> QED
  BY <1>1, <1>2 DEF Lease, Restrict

(***************************************************************************)
(* handleAnnounce is the directory's Announce, or its Refuse.              *)
(***************************************************************************)
LEMMA AnnounceRefines ==
  ASSUME TypeOK, NEW ip \in IP, NEW req \in AnnounceRequest, handleAnnounce(ip, req)
  PROVE  Directory!Next
<1>1. AnnounceStatus(req) \in {200, 400, 413}
  BY AcceptedIsValid
<1>2. CASE AnnounceStatus(req) # 200
  <2>1. Directory!Refuse(ip, AnnounceStatus(req))
    BY <1>2 DEF handleAnnounce, Directory!Refuse, Live, Expired
  <2> QED
    BY <1>1, <1>2, <2>1 DEF Directory!Next
<1>3. CASE AnnounceStatus(req) = 200
  <2>1. req.port \in Port /\ req.packages \in SUBSET NameVersion
    BY <1>3, AcceptedIsValid
  <2>2. /\ Announce(ip, req.port, req.packages)
        /\ now' = now
        /\ reply' = [op |-> "announce", ip |-> ip, status |-> 200]
    BY <1>3 DEF handleAnnounce
  <2>3. Directory!Announce(ip, req.port, req.packages)
    <3>1. CASE req.packages = {}
      BY <2>2, <3>1, DropLease
      DEF Announce, Directory!Announce, Lease, Restrict, Directory!Restrict
    <3>2. CASE req.packages # {}
      <4>1. Register(ip, req.port, req.packages)
        BY <2>2, <3>2 DEF Announce
      <4> QED
        BY <2>1, <2>2, <3>2, <4>1, RegisterLease DEF Directory!Announce, Lease
    <3> QED
      BY <3>1, <3>2
  <2> QED
    BY <2>1, <2>3 DEF Directory!Next
<1> QED
  BY <1>2, <1>3

(***************************************************************************)
(* handlePing is Renew for a live record; for a missing one and for one    *)
(* past its deadline alike it is Unknown.                                  *)
(***************************************************************************)
LEMMA PingRefines ==
  ASSUME TypeOK, NEW ip \in IP, handlePing(ip)
  PROVE  Directory!Next
<1>1. PICK known \in BOOLEAN :
        /\ Ping(ip, known)
        /\ reply' = [op |-> "ping", ip |-> ip, status |-> IF known THEN 200 ELSE 404]
        /\ now' = now
  BY DEF handlePing
<1>2. DOMAIN Lease = Live
  BY DEF Lease, Restrict
<1>3. CASE ip \notin DOMAIN peers
  <2>1. /\ ip \notin Live
        /\ Lease' = Lease
        /\ known = FALSE
    BY <1>1, <1>3 DEF Ping, Live, Expired, Lease
  <2>2. Directory!Unknown(ip)
    BY <1>1, <1>2, <2>1 DEF Directory!Unknown, Lease
  <2> QED
    BY <2>2 DEF Directory!Next
<1>4. CASE ip \in DOMAIN peers /\ Expired(ip)
  <2>1. known = FALSE /\ peers' = Without(peers, {ip})
    BY <1>1, <1>4 DEF Ping
  <2>2. ip \notin Live
    BY <1>4 DEF Live
  <2>3. Lease' = Restrict(Lease, DOMAIN Lease \ {ip})
    BY <1>1, <2>1, DropLease
  <2>4. Lease' = Lease
    BY <1>2, <2>2, <2>3 DEF Lease, Restrict
  <2>5. Directory!Unknown(ip)
    BY <1>1, <1>2, <2>1, <2>2, <2>4 DEF Directory!Unknown, Lease
  <2> QED
    BY <2>5 DEF Directory!Next
<1>5. CASE ip \in DOMAIN peers /\ ~Expired(ip)
  <2>1. /\ known = TRUE
        /\ peers' = [peers EXCEPT ![ip].deadline = now + Timeout]
    BY <1>1, <1>5 DEF Ping
  <2>2. ip \in Live
    BY <1>5 DEF Live
  <2>3. Lease' = [Lease EXCEPT ![ip].deadline = now + Timeout]
    BY <1>1, <2>1, <2>2, RenewLease
  <2>4. Directory!Renew(ip)
    BY <1>1, <1>2, <2>1, <2>2, <2>3 DEF Directory!Renew, Lease
  <2> QED
    BY <2>4 DEF Directory!Next
<1> QED
  BY <1>3, <1>4, <1>5

(***************************************************************************)
(* The index gives a lookup the holders that a scan of the leases would.   *)
(***************************************************************************)
LEMMA IndexAnswersLikeScan ==
  ASSUME TypeOK, IndexConsistent, NEW nv \in NameVersion
  PROVE  LiveHolders(nv) = Directory!Holders(nv)
  BY DEF LiveHolders, Directory!Holders, Restrict, Live, Claims, TypeOK, IndexConsistent

(***************************************************************************)
(* handlePeers is the directory's Lookup, or RefuseLookup.                 *)
(***************************************************************************)
LEMMA PeersRefines ==
  ASSUME TypeOK, IndexConsistent, NEW nv \in NameVersion \cup BadName, handlePeers(nv)
  PROVE  Directory!Next
<1>1. Lease' = Lease /\ now' = now
  BY DEF handlePeers, Lease, Live, Expired
<1>2. CASE nv \in BadName
  <2>1. Directory!RefuseLookup
    BY <1>1, <1>2 DEF handlePeers, Directory!RefuseLookup, Lease
  <2> QED
    BY <2>1 DEF Directory!Next
<1>3. CASE nv \in NameVersion
  <2>1. PICK found \in Peers(nv) :
          reply' = [op |-> "peers", nameVersion |-> nv, status |-> 200, peers |-> found]
    BY <1>3 DEF handlePeers
  <2> DEFINE size == IF Cardinality(LiveHolders(nv)) > MaxPeers
                     THEN MaxPeers ELSE Cardinality(LiveHolders(nv))
  <2>2. PICK chosen \in SUBSET LiveHolders(nv) :
          /\ Cardinality(chosen) = size
          /\ found = {[ip |-> ip, port |-> peers[ip].port] : ip \in chosen}
    BY DEF Peers
  <2>3. \A ip \in chosen : Lease[ip] = peers[ip]
    BY <2>2 DEF LiveHolders, Lease, Restrict, Live
  <2>4. found = {[ip |-> ip, port |-> Lease[ip].port] : ip \in chosen}
    BY <2>2, <2>3
  <2>5. LiveHolders(nv) = Directory!Holders(nv)
    BY <1>3, IndexAnswersLikeScan
  <2>6. Directory!Lookup(nv)
    <3>1. \A S : Directory!Cardinality(S) = Cardinality(S)
      BY DEF Cardinality, Directory!Cardinality
    <3> QED
      BY <1>1, <2>1, <2>2, <2>4, <2>5, <3>1 DEF Directory!Lookup, Lease
  <2> QED
    BY <1>3, <2>6 DEF Directory!Next
<1> QED
  BY <1>2, <1>3

(***************************************************************************)
(* Sweep cannot be seen from outside: it only drops records that are not   *)
(* leases any more.                                                        *)
(***************************************************************************)
LEMMA SweepRefines ==
  ASSUME TypeOK, Sweep
  PROVE  UNCHANGED Directory!vars
<1>1. DOMAIN Lease = Live /\ Live \cap Reaped = {}
  BY DEF Lease, Restrict, Live, Reaped
<1>2. Lease' = Restrict(Lease, DOMAIN Lease \ Reaped)
  BY DropLease DEF Sweep
<1>3. Lease' = Lease
  BY <1>1, <1>2 DEF Lease, Restrict
<1> QED
  BY <1>3 DEF Sweep, Directory!vars, Lease

(***************************************************************************)
(* A tick of the clock takes the leases that run out on it.                *)
(***************************************************************************)
LEMMA AdvanceRefines ==
  ASSUME TypeOK, Advance
  PROVE  Directory!Next
<1>1. Live' = {ip \in Live : peers[ip].deadline >= now + 1}
  BY DEF Advance, Live, Expired, TypeOK, PeerRecord
<1>2. Lease' = Restrict(Lease, {ip \in DOMAIN Lease : Lease[ip].deadline >= now + 1})
  BY <1>1 DEF Advance, Lease, Restrict
<1>3. Directory!Advance
  BY <1>2 DEF Advance, Directory!Advance, Lease, Restrict, Directory!Restrict
<1> QED
  BY <1>3 DEF Directory!Next

(***************************************************************************)
(* A restart of the process forgets every lease.                           *)
(***************************************************************************)
LEMMA RestartRefines ==
  ASSUME Restart
  PROVE  Directory!Next
<1>1. Lease' = [ip \in {} |-> {}]
  BY DEF Restart, Empty, Lease, Restrict, Live
<1>2. Directory!Forget
  BY <1>1 DEF Restart, Directory!Forget, Lease
<1> QED
  BY <1>2 DEF Directory!Next

(***************************************************************************)
(* Every behaviour of the tracker is one of the directory of leases: its   *)
(* answers to /announce, /ping and /peers never depend on what the sweeper *)
(* has got round to, and the reverse index never changes an answer.        *)
(***************************************************************************)
THEOREM TrackerImplementsDirectory == Spec => ImplementsDirectory
<1>1. Init => Directory!Init
  BY DEF Init, Empty, Directory!Init, Restrict, Live
<1>2. TypeOK /\ IndexConsistent /\ [Next]_vars => [Directory!Next]_(Directory!vars)
  <2> SUFFICES ASSUME TypeOK, IndexConsistent, [Next]_vars
               PROVE  Directory!Next \/ UNCHANGED Directory!vars
    OBVIOUS
  <2>1. CASE UNCHANGED vars
    BY <2>1 DEF vars, Directory!vars, Live, Expired
  <2> QED
    BY <2>1, AnnounceRefines, PingRefines, PeersRefines, SweepRefines,
       AdvanceRefines, RestartRefines DEF Next
<1> QED
  BY <1>1, <1>2, TypeCorrect, IndexStaysConsistent, PTL
  DEF Spec, ImplementsDirectory, Directory!Spec

-----------------------------------------------------------------------------
(* How records leave: the safety half of DeadRecordsReaped. *)

(***************************************************************************)
(* A record that has not run out goes only with its own daemon's           *)
(* withdrawal or with the process; no ping, sweep or announce of another   *)
(* address takes it.  One sweep takes every record that has run out.       *)
(***************************************************************************)
LeavesOnlyWhenDue ==
  /\ \A ip \in Live :
       \/ ip \in DOMAIN peers'
       \/ reply' = [op |-> "announce", ip |-> ip, status |-> 200]
       \/ Restart
  /\ Sweep => \A ip \in IP : ~Dead(ip)'

(***************************************************************************)
(* Announce drops no address but its own, and that one only to answer 200. *)
(***************************************************************************)
LEMMA AnnounceDropsItsOwn ==
  ASSUME NEW ip \in IP, NEW req \in AnnounceRequest, handleAnnounce(ip, req),
         NEW i \in DOMAIN peers, i \notin DOMAIN peers'
  PROVE  reply' = [op |-> "announce", ip |-> i, status |-> 200]
<1>1. AnnounceStatus(req) = 200 /\ Announce(ip, req.port, req.packages)
  BY DEF handleAnnounce
<1>2. i = ip
  BY <1>1 DEF Announce, Register, Without, Restrict
<1> QED
  BY <1>1, <1>2 DEF handleAnnounce

(***************************************************************************)
(* Ping drops an expired record and no other.                              *)
(***************************************************************************)
LEMMA PingDropsExpired ==
  ASSUME NEW ip \in IP, handlePing(ip), NEW i \in DOMAIN peers, i \notin DOMAIN peers'
  PROVE  Expired(i)
  BY DEF handlePing, Ping, Without, Restrict

(***************************************************************************)
(* Records leave when they are due, and one turn of RunSweeper's ticker is *)
(* enough: that dead records go away then only needs the sweeper to run.   *)
(***************************************************************************)
THEOREM RecordsLeaveWhenDue == Spec => [][LeavesOnlyWhenDue]_vars
<1>1. TypeOK /\ [Next]_vars => [LeavesOnlyWhenDue]_vars
  <2> SUFFICES ASSUME TypeOK, Next PROVE LeavesOnlyWhenDue
    OBVIOUS
  <2>1. ASSUME NEW ip \in Live, ip \notin DOMAIN peers', ~Restart
        PROVE  reply' = [op |-> "announce", ip |-> ip, status |-> 200]
    <3>1. ip \in DOMAIN peers /\ ~Expired(ip)
      BY <2>1 DEF Live
    <3>2. ~Sweep
      BY <2>1, <3>1 DEF Sweep, Reaped, Without, Restrict
    <3>3. \A i \in IP : ~handlePing(i)
      BY <2>1, <3>1, PingDropsExpired
    <3>4. ~Advance /\ \A nv : ~handlePeers(nv)
      BY <2>1, <3>1 DEF Advance, handlePeers
    <3>5. \E i \in IP : \E req \in AnnounceRequest : handleAnnounce(i, req)
      BY <2>1, <3>2, <3>3, <3>4 DEF Next
    <3> QED
      BY <2>1, <3>1, <3>5, AnnounceDropsItsOwn
  <2>2. ASSUME Sweep, NEW ip \in IP
        PROVE  ~Dead(ip)'
    <3>1. now' = now /\ peers' = Without(peers, Reaped)
      BY <2>2 DEF Sweep
    <3> QED
      BY <3>1 DEF Dead, Expired, Reaped, Without, Restrict
  <2> QED
    BY <2>1, <2>2 DEF LeavesOnlyWhenDue
<1> QED
  BY <1>1, TypeCorrect, PTL DEF Spec
=============================================================================
