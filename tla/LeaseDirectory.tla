--------------------------- MODULE LeaseDirectory ---------------------------
(***************************************************************************)
(* What the tracker promises to the daemons that talk to it: a directory   *)
(* of leases.  A daemon, known by its IP address, holds a lease on the     *)
(* list of packages it last announced; a ping renews the lease; a lease    *)
(* that runs out is gone at that instant.  A lookup names live holders.    *)
(*                                                                         *)
(* There is no reverse index, no sweeper and no dead record here: whether  *)
(* the tracker has reaped an expired record yet must not be observable.    *)
(* Tracker.tla is shown to implement this specification.                   *)
(***************************************************************************)
EXTENDS Naturals, FiniteSets, Functions

CONSTANTS IP,            \* source addresses, the identity of a daemon
          NameVersion,   \* well-formed package identifiers
          Port,          \* ports a daemon may advertise
          Timeout,       \* how long a lease lasts
          MaxPeers,      \* longest answer to a lookup
          MaxTime        \* bound on the clock

VARIABLES lease,   \* the live leases: IP -> [port, packages, deadline]
          now,     \* the tracker's clock
          reply    \* the answer to the latest request

vars == <<lease, now, reply>>

Init ==
  /\ lease = [ip \in {} |-> {}]
  /\ now = 0
  /\ reply = [op |-> "none"]

(***************************************************************************)
(* An accepted announce replaces whatever the daemon announced before; the *)
(* empty list gives the lease up.                                          *)
(***************************************************************************)
Announce(ip, port, packages) ==
  /\ lease' = IF packages = {}
              THEN Restrict(lease, DOMAIN lease \ {ip})
              ELSE [i \in DOMAIN lease \cup {ip} |->
                      IF i = ip THEN [port |-> port,
                                      packages |-> packages,
                                      deadline |-> now + Timeout]
                      ELSE lease[i]]
  /\ reply' = [op |-> "announce", ip |-> ip, status |-> 200]
  /\ UNCHANGED now

(***************************************************************************)
(* A refused announce leaves every lease as it was.                        *)
(***************************************************************************)
Refuse(ip, status) ==
  /\ reply' = [op |-> "announce", ip |-> ip, status |-> status]
  /\ UNCHANGED <<lease, now>>

(***************************************************************************)
(* A ping renews a live lease, and only a live one.                        *)
(***************************************************************************)
Renew(ip) ==
  /\ ip \in DOMAIN lease
  /\ lease' = [lease EXCEPT ![ip].deadline = now + Timeout]
  /\ reply' = [op |-> "ping", ip |-> ip, status |-> 200]
  /\ UNCHANGED now

Unknown(ip) ==
  /\ ip \notin DOMAIN lease
  /\ reply' = [op |-> "ping", ip |-> ip, status |-> 404]
  /\ UNCHANGED <<lease, now>>

(***************************************************************************)
(* A lookup names as many live holders as there are, up to MaxPeers.       *)
(***************************************************************************)
Holders(nv) == {ip \in DOMAIN lease : nv \in lease[ip].packages}

Lookup(nv) ==
  \E chosen \in SUBSET Holders(nv) :
    /\ Cardinality(chosen) = IF Cardinality(Holders(nv)) > MaxPeers
                             THEN MaxPeers ELSE Cardinality(Holders(nv))
    /\ reply' = [op |-> "peers", nameVersion |-> nv, status |-> 200,
                 peers |-> {[ip |-> ip, port |-> lease[ip].port] : ip \in chosen}]
    /\ UNCHANGED <<lease, now>>

RefuseLookup ==
  /\ reply' = [op |-> "peers", status |-> 400]
  /\ UNCHANGED <<lease, now>>

(***************************************************************************)
(* Time passes, and takes the leases that have run out with it.            *)
(***************************************************************************)
Advance ==
  /\ now < MaxTime
  /\ now' = now + 1
  /\ lease' = Restrict(lease, {ip \in DOMAIN lease : lease[ip].deadline >= now + 1})
  /\ UNCHANGED reply

(***************************************************************************)
(* The directory is not durable: it may lose every lease at once.          *)
(***************************************************************************)
Forget ==
  /\ lease' = [ip \in {} |-> {}]
  /\ reply' = [op |-> "none"]
  /\ UNCHANGED now

Next ==
  \/ \E ip \in IP :
        \/ \E port \in Port, packages \in SUBSET NameVersion :
              Announce(ip, port, packages)
        \/ \E status \in {400, 413} : Refuse(ip, status)
        \/ Renew(ip)
        \/ Unknown(ip)
  \/ \E nv \in NameVersion : Lookup(nv)
  \/ RefuseLookup
  \/ Advance
  \/ Forget

Spec == Init /\ [][Next]_vars
=============================================================================
