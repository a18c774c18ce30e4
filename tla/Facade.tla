------------------------------- MODULE Facade -------------------------------
(***************************************************************************)
(* The mirror facade that answers pkg (internal/daemon/facade.go) and the  *)
(* peer fetch path under it (internal/peer: FetchFirst, FetchFromPeer,     *)
(* Blacklist, Discard), serving several requests at once while the         *)
(* repository catalogue is reloaded underneath them.                       *)
(*                                                                         *)
(* A file's bytes are a Content; SHA-256 tells any two Contents apart, so  *)
(* a Content stands for its own hash, and Size gives its length.           *)
(***************************************************************************)
EXTENDS Integers, FiniteSets

CONSTANTS Request,    \* requests from pkg
          Package,    \* name-versions
          Peer,       \* peer addresses the tracker may name
          Honest,     \* the peers that only ever send genuine package bytes
          Content,    \* files
          Genuine,    \* the files that are packages some build of the repository published
          Size,       \* [Content -> Nat]
          None,       \* no row, no bytes
          Snapshots   \* the catalogues a reload may load: [Package -> Genuine \cup {None}]

ASSUME FacadeAssumption ==
  /\ Honest \subseteq Peer
  /\ Genuine \subseteq Content
  /\ Size \in [Content -> Nat]
  /\ None \notin Content
  /\ Snapshots \subseteq [Package -> Genuine \cup {None}]

VARIABLES catalogue,   \* Repositories.rows
          blocked,     \* Blacklist.blocked
          spool,       \* requests that have a temp file on disk
          pc,          \* where each request's handler is
          name,        \* the package it asks for
          hash, size,  \* want, as far as it has been read
          todo,        \* listed peers not tried yet
          addr,        \* the peer being tried
          body,        \* what that peer sends
          reply,       \* what pkg was answered
          \* History, read by the properties only:
          absent       \* the package has been missing from the catalogue during the request

shared  == <<catalogue, blocked, spool>>
want    == <<name, hash, size>>
attempt == <<addr, body>>
vars    == <<shared, pc, want, todo, attempt, reply, absent>>

NoReply == [status |-> 0, source |-> "none", bytes |-> None]
Status(code) == [status |-> code, source |-> "facade", bytes |-> None]

Init ==
  /\ catalogue \in Snapshots
  /\ blocked = {}
  /\ spool = {}
  /\ pc = [r \in Request |-> "new"]
  /\ name \in [Request -> Package]
  /\ hash = [r \in Request |-> None]
  /\ size = [r \in Request |-> -1]
  /\ todo = [r \in Request |-> {}]
  /\ addr = [r \in Request |-> None]
  /\ body = [r \in Request |-> None]
  /\ reply = [r \in Request |-> NoReply]
  /\ absent = [r \in Request |-> FALSE]

Go(r, label) == pc' = [pc EXCEPT ![r] = label]
Answer(r, a) == reply' = [reply EXCEPT ![r] = a] /\ Go(r, "done")

(* An attempt's locals go with it, and so do the handler's. *)
EndAttempt(r) == addr' = [addr EXCEPT ![r] = None] /\ body' = [body EXCEPT ![r] = None]
Return(r)     == todo' = [todo EXCEPT ![r] = {}] /\ EndAttempt(r)

(***************************************************************************)
(* Repositories.Reload swaps a complete snapshot in under the lock.        *)
(***************************************************************************)
Reload ==
  /\ catalogue' \in Snapshots
  /\ absent' = [r \in Request |->
                  absent[r] \/ (pc[r] \notin {"new", "done"} /\ catalogue'[name[r]] = None)]
  /\ UNCHANGED <<blocked, spool, pc, want, todo, attempt, reply>>

-----------------------------------------------------------------------------
(* ServeHTTP: what the request is. *)

(***************************************************************************)
(* Not a GET, or shaped like a package path without naming one.            *)
(***************************************************************************)
Refuse(r) ==
  /\ pc[r] = "new"
  /\ \E code \in {405, 400} : Answer(r, Status(code))
  /\ UNCHANGED <<shared, want, todo, attempt, absent>>

(***************************************************************************)
(* Catalogue files and everything else: upstream's own answer, or 502.     *)
(***************************************************************************)
relayUpstream(r) ==
  /\ pc[r] = "new"
  /\ \/ Answer(r, Status(502))
     \/ \E code \in {200, 304, 404} :
          Answer(r, [status |-> code, source |-> "relay", bytes |-> None])
  /\ UNCHANGED <<shared, want, todo, attempt, absent>>

(***************************************************************************)
(* expected: the hash and then the size, each read under a lock of its     *)
(* own.  404 when either is missing.                                       *)
(***************************************************************************)
ExpectedHash(r) ==
  /\ pc[r] = "new"
  /\ hash' = [hash EXCEPT ![r] = catalogue[name[r]]]
  /\ absent' = [absent EXCEPT ![r] = catalogue[name[r]] = None]
  /\ Go(r, "size")
  /\ UNCHANGED <<shared, name, size, todo, attempt, reply>>

BugHalfRowIsARow(r) == hash[r] = None /\ catalogue[name[r]] = None
BugChangedRowIsAbsent(r) == hash[r] = None \/ catalogue[name[r]] # hash[r]

NoRow(r) == hash[r] = None \/ catalogue[name[r]] = None

ExpectedFileSizeBytes(r) ==
  /\ pc[r] = "size"
  /\ size' = [size EXCEPT ![r] = IF catalogue[name[r]] = None THEN -1
                                 ELSE Size[catalogue[name[r]]]]
  /\ IF NoRow(r)
     THEN Answer(r, Status(404))
     ELSE Go(r, "list") /\ UNCHANGED reply
  /\ UNCHANGED <<shared, name, hash, todo, attempt, absent>>

-----------------------------------------------------------------------------
(* servePeers and FetchFirst. *)

(***************************************************************************)
(* The tracker names some peers, in an order nobody chose, or cannot be    *)
(* asked; a failed or empty lookup goes upstream.                          *)
(***************************************************************************)
Listings == SUBSET Peer

ListPeers(r) ==
  /\ pc[r] = "list"
  /\ \/ Go(r, "upstream") /\ UNCHANGED todo
     \/ \E ps \in Listings \ {{}} :
          todo' = [todo EXCEPT ![r] = ps] /\ Go(r, "next")
  /\ UNCHANGED <<shared, want, attempt, reply, absent>>

(***************************************************************************)
(* One turn of FetchFirst's loop: skip a blacklisted peer, dial another.   *)
(***************************************************************************)
BugRetrySamePeer(r, p) == todo[r]
Untried(r, p) == todo[r] \ {p}

NextPeer(r) ==
  /\ pc[r] = "next"
  /\ \/ /\ todo[r] = {}
        /\ Go(r, "upstream")
        /\ UNCHANGED <<todo, addr>>
     \/ \E p \in todo[r] :
          /\ todo' = [todo EXCEPT ![r] = Untried(r, p)]
          /\ IF p \in blocked
             THEN UNCHANGED <<pc, addr>>
             ELSE Go(r, "fetch") /\ addr' = [addr EXCEPT ![r] = p]
  /\ UNCHANGED <<shared, want, body, reply, absent>>

(***************************************************************************)
(* ErrSpool: temp_dir is at fault, no peer; the loop ends.                 *)
(***************************************************************************)
SpoolError(r) == Go(r, "upstream")

(***************************************************************************)
(* FetchFromPeer up to the temp file: a transport error, a non-200 or a    *)
(* declared length that disagrees with size costs the attempt before a     *)
(* file exists.  Serves is what a peer may send (the peer is external).    *)
(***************************************************************************)
Serves(p) == IF p \in Honest THEN Genuine ELSE Content

FetchHeaders(r) ==
  /\ pc[r] = "fetch"
  /\ \/ Go(r, "next") /\ EndAttempt(r) /\ UNCHANGED spool
     \/ \E b \in Serves(addr[r]) : \E declared \in {-1, Size[b]} :
          \/ /\ declared \notin {-1, size[r]}
             /\ Go(r, "next") /\ EndAttempt(r)
             /\ UNCHANGED spool
          \/ /\ declared \in {-1, size[r]}
             /\ SpoolError(r) /\ EndAttempt(r)
             /\ UNCHANGED spool
          \/ /\ declared \in {-1, size[r]}
             /\ spool' = spool \cup {r}
             /\ body' = [body EXCEPT ![r] = b]
             /\ Go(r, "copy")
             /\ UNCHANGED addr
  /\ UNCHANGED <<catalogue, blocked, want, todo, reply, absent>>

(***************************************************************************)
(* The rest of FetchFromPeer: at most size + 1 bytes are read; the count   *)
(* is checked, then the hash.  Every failing path removes the temp file.   *)
(***************************************************************************)
BytesRead(r) == IF Size[body[r]] > size[r] THEN size[r] + 1 ELSE Size[body[r]]

BugSkipHash(r) == IF BytesRead(r) = size[r] THEN "ok" ELSE "size"
BugSizeIsAVerdict(r) == IF body[r] = hash[r] THEN "ok" ELSE "hash"

Verdict(r) ==
  IF BytesRead(r) # size[r] THEN "size"
  ELSE IF body[r] # hash[r] THEN "hash" ELSE "ok"

BugKeepSpool(r) == UNCHANGED spool
Discard(r) == spool' = spool \ {r}

Fails(r, label) == Go(r, label) /\ Discard(r)

FetchBody(r) ==
  /\ pc[r] = "copy"
  /\ \/ (* the stream breaks, or a write fails, which is told of in the same way *)
        Fails(r, "next") /\ EndAttempt(r)
     \/ Verdict(r) = "size" /\ Fails(r, "next") /\ EndAttempt(r)
     \/ Verdict(r) = "hash" /\ Fails(r, "block") /\ UNCHANGED attempt
     \/ (* the rewind fails *)
        Verdict(r) = "ok" /\ SpoolError(r) /\ Discard(r) /\ EndAttempt(r)
     \/ Verdict(r) = "ok" /\ Go(r, "serve") /\ UNCHANGED <<spool, attempt>>
  /\ UNCHANGED <<catalogue, blocked, want, todo, reply, absent>>

(***************************************************************************)
(* FetchFirst blacklists the peer whose bytes failed, and moves on.        *)
(***************************************************************************)
Block(r) ==
  /\ pc[r] = "block"
  /\ blocked' = blocked \cup {addr[r]}
  /\ Go(r, "next") /\ EndAttempt(r)
  /\ UNCHANGED <<catalogue, spool, want, todo, reply, absent>>

(***************************************************************************)
(* The spool is copied to pkg, which may hang up, and discarded.           *)
(***************************************************************************)
ServeSpool(r) ==
  /\ pc[r] = "serve"
  /\ \E sent \in {body[r], None} :
       Answer(r, [status |-> 200, source |-> "peer", bytes |-> sent])
  /\ Discard(r)
  /\ Return(r)
  /\ UNCHANGED <<catalogue, blocked, want, absent>>

(***************************************************************************)
(* serveUpstreamPackage: 502 when upstream cannot be reached or says no;   *)
(* otherwise its bytes go straight to pkg under a length of size, so that  *)
(* a broken stream, or a file of another length, arrives cut short.        *)
(***************************************************************************)
serveUpstreamPackage(r) ==
  /\ pc[r] = "upstream"
  /\ \/ Answer(r, Status(502))
     \/ \E b \in {c \in Content : Size[c] = size[r]} \cup {None} :
          Answer(r, [status |-> 200, source |-> "upstream", bytes |-> b])
  /\ Return(r)
  /\ UNCHANGED <<shared, want, absent>>

-----------------------------------------------------------------------------
Handler(r) ==
  \/ Refuse(r) \/ relayUpstream(r)
  \/ ExpectedHash(r) \/ ExpectedFileSizeBytes(r)
  \/ ListPeers(r) \/ NextPeer(r)
  \/ FetchHeaders(r) \/ FetchBody(r) \/ Block(r) \/ ServeSpool(r)
  \/ serveUpstreamPackage(r)

Finished == (\A r \in Request : pc[r] = "done") /\ UNCHANGED vars

Next == (\E r \in Request : Handler(r)) \/ Reload \/ Finished

Spec == Init /\ [][Next]_vars

(***************************************************************************)
(* Each handler runs in a goroutine of its own.  A transfer is given no    *)
(* deadline by the code: that one ends is pkg's doing, which hangs up and  *)
(* cancels the request's context.                                          *)
(***************************************************************************)
FairSpec == Spec /\ \A r \in Request : WF_vars(Handler(r))

-----------------------------------------------------------------------------
(* What has to hold. *)

Label == {"new", "size", "list", "next", "fetch", "copy", "block", "serve",
          "upstream", "done"}

(***************************************************************************)
(* The state has its shape, and past the catalogue read a request has both *)
(* halves of a row or none: no fetch starts without a hash to verify with  *)
(* and a size to bound it by.                                              *)
(***************************************************************************)
TypeOK ==
  /\ catalogue \in Snapshots
  /\ blocked \subseteq Peer
  /\ spool \subseteq Request
  /\ pc \in [Request -> Label]
  /\ name \in [Request -> Package]
  /\ \A r \in Request :
       pc[r] \notin {"new", "size", "done"} => hash[r] \in Content /\ size[r] \in Nat
  /\ todo \in [Request -> SUBSET Peer]
  /\ \A r \in Request : pc[r] \in {"fetch", "copy", "block"} => addr[r] \in Peer
  /\ \A r \in Request : pc[r] \in {"copy", "serve"} => body[r] \in Content
  /\ absent \in [Request -> BOOLEAN]

(***************************************************************************)
(* Bytes a peer sent reach pkg only if their hash is the one the catalogue *)
(* gave for this request, however requests, reloads and peers interleave.  *)
(***************************************************************************)
VerifiedOnly ==
  \A r \in Request :
    reply[r].source = "peer" => reply[r].bytes \in {hash[r], None}

(***************************************************************************)
(* A temp file belongs to a handler that is copying into it or serving     *)
(* from it: none outlives its request, on any failing path, and none is    *)
(* left behind when the loop moves on to another peer.                     *)
(***************************************************************************)
SpoolOwned == \A r \in spool : pc[r] \in {"copy", "serve"}

(***************************************************************************)
(* 404 is only answered for a package that the catalogue did not have at   *)
(* some moment of the request, even when a reload falls between the two    *)
(* reads of expected.                                                      *)
(***************************************************************************)
NotFoundMeansAbsent ==
  \A r \in Request :
    reply[r].status = 404 /\ reply[r].source = "facade" => absent[r]

(***************************************************************************)
(* fetch.go: "Both fields come from the SAME row", and a hash mismatch is  *)
(* "the one failure that is evidence about the PEER": a peer that only     *)
(* ever sends genuine packages is never blacklisted.                       *)
(***************************************************************************)
HonestNeverBlocked == blocked \cap Honest = {}

(***************************************************************************)
(* An expectation whose hash and size come from two catalogues.            *)
(***************************************************************************)
TornExpectation(r) == hash[r] \in Content /\ size[r] \notin {-1, Size[hash[r]]}

(***************************************************************************)
(* Another genuine build of the same package is exactly as long as the one *)
(* the catalogue asks for (repodb.go: pkg rebuilds a name-version without  *)
(* renaming it).                                                           *)
(***************************************************************************)
TwinBuild(r) == \E b \in Genuine \ {hash[r]} : hash[r] \in Content /\ Size[b] = Size[hash[r]]

(***************************************************************************)
(* An honest peer is blacklisted only if some request held an expectation  *)
(* that the peer's genuine bytes can meet in length and not in hash: a     *)
(* torn one, or one for a build that has a twin.  Never for sending late,  *)
(* cut short, or a build of another length, and never because another      *)
(* request blocks it or a reload falls into the transfer (FetchFirst,      *)
(* FetchFromPeer).                                                         *)
(***************************************************************************)
HonestBlockedOnlyIfMisled ==
  blocked \cap Honest # {} => \E r \in Request : TornExpectation(r) \/ TwinBuild(r)

(***************************************************************************)
(* Every request is answered, whatever the peers do, and its temp file is  *)
(* gone.                                                                   *)
(***************************************************************************)
EveryRequestAnswered == \A r \in Request : <>[](pc[r] = "done" /\ r \notin spool)
=============================================================================
