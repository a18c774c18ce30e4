---------------------------- MODULE FacadeProofs ----------------------------
(***************************************************************************)
(* What the mirror facade guarantees for every number of requests, peers   *)
(* and catalogues: the proofs of Facade's safety invariants.               *)
(***************************************************************************)
EXTENDS Facade, FiniteSetTheorems, TLAPS

USE FacadeAssumption

(***************************************************************************)
(* Replies pkg can be given.                                               *)
(***************************************************************************)
Reply == [status : {0, 200, 304, 400, 404, 405, 502},
          source : {"none", "facade", "relay", "peer", "upstream"},
          bytes  : Content \cup {None}]

(***************************************************************************)
(* The locals TypeOK leaves open where no property reads them.             *)
(***************************************************************************)
Locals ==
  /\ hash \in [Request -> Genuine \cup {None}]
  /\ size \in [Request -> Nat \cup {-1}]
  /\ addr \in [Request -> Peer \cup {None}]
  /\ body \in [Request -> Content \cup {None}]
  /\ reply \in [Request -> Reply]

(***************************************************************************)
(* TypeOK is inductive together with the shape of the locals.              *)
(***************************************************************************)
Typed == TypeOK /\ Locals

(***************************************************************************)
(* What serveUpstreamPackage and relayUpstream answer: never under the     *)
(* name of a peer, and never a 404 of the facade's own.                    *)
(***************************************************************************)
LEMMA UpstreamAnswer ==
  ASSUME NEW r \in Request, relayUpstream(r) \/ serveUpstreamPackage(r)
  PROVE  \E a \in Reply : /\ a.source # "peer"
                          /\ a.source = "facade" => a.status = 502
                          /\ Answer(r, a)
<1> DEFINE Fine == \E a \in Reply : /\ a.source # "peer"
                                    /\ a.source = "facade" => a.status = 502
                                    /\ Answer(r, a)
<1>1. CASE Answer(r, Status(502))
  BY <1>1 DEF Status, Reply
<1>2. ASSUME NEW code \in {200, 304, 404},
             Answer(r, [status |-> code, source |-> "relay", bytes |-> None])
      PROVE  Fine
  BY <1>2 DEF Reply
<1>3. ASSUME NEW b \in Content \cup {None},
             Answer(r, [status |-> 200, source |-> "upstream", bytes |-> b])
      PROVE  Fine
  BY <1>3 DEF Reply
<1> HIDE DEF Fine
<1>4. ASSUME relayUpstream(r)
      PROVE  Fine
  <2>1. \/ Answer(r, Status(502))
        \/ \E code \in {200, 304, 404} :
             Answer(r, [status |-> code, source |-> "relay", bytes |-> None])
    BY <1>4 DEF relayUpstream
  <2>2. CASE Answer(r, Status(502))
    BY <1>1, <2>2 DEF Fine
  <2>3. CASE \E code \in {200, 304, 404} :
               Answer(r, [status |-> code, source |-> "relay", bytes |-> None])
    BY <1>2, <2>3
  <2> QED
    BY <2>1, <2>2, <2>3
<1>5. ASSUME serveUpstreamPackage(r)
      PROVE  Fine
  <2>1. \/ Answer(r, Status(502))
        \/ \E b \in Content \cup {None} :
             Answer(r, [status |-> 200, source |-> "upstream", bytes |-> b])
    BY <1>5 DEF serveUpstreamPackage
  <2>2. CASE Answer(r, Status(502))
    BY <1>1, <2>2 DEF Fine
  <2>3. CASE \E b \in Content \cup {None} :
               Answer(r, [status |-> 200, source |-> "upstream", bytes |-> b])
    BY <1>3, <2>3
  <2> QED
    BY <2>1, <2>2, <2>3
<1> QED
  BY <1>4, <1>5 DEF Fine

(***************************************************************************)
(* A step of one handler keeps the types; stated per action so that the    *)
(* later proofs need not repeat it.                                        *)
(***************************************************************************)
LEMMA TypedStep ==
  ASSUME Typed, [Next]_vars
  PROVE  Typed'
<1> USE DEF Typed, TypeOK, Locals, Label, shared, want, attempt
<1>1. CASE UNCHANGED vars
  BY <1>1 DEF vars
<1>2. CASE Reload
  BY <1>2 DEF Reload
<1>3. ASSUME NEW r \in Request, Refuse(r)
      PROVE  Typed'
  BY <1>3 DEF Refuse, Answer, Go, Status, Reply
<1>4. ASSUME NEW r \in Request, relayUpstream(r)
      PROVE  Typed'
  <2>1. PICK a \in Reply : Answer(r, a)
    BY <1>4, UpstreamAnswer
  <2> QED
    BY <1>4, <2>1 DEF relayUpstream, Answer, Go
<1>5. ASSUME NEW r \in Request, ExpectedHash(r)
      PROVE  Typed'
  BY <1>5 DEF ExpectedHash, Go
<1>6. ASSUME NEW r \in Request, ExpectedFileSizeBytes(r)
      PROVE  Typed'
  BY <1>6 DEF ExpectedFileSizeBytes, NoRow, Answer, Go, Status, Reply
<1>7. ASSUME NEW r \in Request, ListPeers(r)
      PROVE  Typed'
  BY <1>7 DEF ListPeers, Listings, Go
<1>8. ASSUME NEW r \in Request, NextPeer(r)
      PROVE  Typed'
  BY <1>8 DEF NextPeer, Untried, Go
<1>9. ASSUME NEW r \in Request, FetchHeaders(r)
      PROVE  Typed'
  BY <1>9 DEF FetchHeaders, Serves, SpoolError, EndAttempt, Go
<1>10. ASSUME NEW r \in Request, FetchBody(r)
       PROVE  Typed'
  BY <1>10 DEF FetchBody, Fails, SpoolError, Discard, EndAttempt, Go
<1>11. ASSUME NEW r \in Request, Block(r)
       PROVE  Typed'
  BY <1>11 DEF Block, EndAttempt, Go
<1>12. ASSUME NEW r \in Request, ServeSpool(r)
       PROVE  Typed'
  BY <1>12 DEF ServeSpool, Answer, Discard, Return, EndAttempt, Go, Reply
<1>13. ASSUME NEW r \in Request, serveUpstreamPackage(r)
       PROVE  Typed'
  <2>1. PICK a \in Reply : Answer(r, a)
    BY <1>13, UpstreamAnswer
  <2> QED
    BY <1>13, <2>1 DEF serveUpstreamPackage, Answer, Return, EndAttempt, Go
<1> QED
  BY <1>1, <1>2, <1>3, <1>4, <1>5, <1>6, <1>7, <1>8, <1>9, <1>10, <1>11, <1>12, <1>13
  DEF Next, Handler, Finished

(***************************************************************************)
(* The types with the locals' shape, for the proofs that read the locals.  *)
(***************************************************************************)
LEMMA AlwaysTyped == Spec => []Typed
<1>1. Init => Typed
  BY DEF Init, Typed, TypeOK, Locals, Label, NoReply, Reply
<1> QED
  BY <1>1, TypedStep, PTL DEF Spec

(***************************************************************************)
(* The state keeps its shape, and no fetch starts without a hash to verify *)
(* with and a size to bound it by.                                         *)
(***************************************************************************)
THEOREM TypeCorrect == Spec => []TypeOK
  BY AlwaysTyped, PTL DEF Typed

-----------------------------------------------------------------------------
(* What pkg is sent, and what stays on disk. *)

(***************************************************************************)
(* A request in progress has not been answered.                            *)
(***************************************************************************)
Unanswered == \A r \in Request : pc[r] # "done" => reply[r] = NoReply

(***************************************************************************)
(* What a handler is about to serve from its temp file is what the         *)
(* catalogue gave the hash of.                                             *)
(***************************************************************************)
ServesVerified == \A r \in Request : pc[r] = "serve" => body[r] = hash[r]

(***************************************************************************)
(* The inductive invariant behind VerifiedOnly and SpoolOwned.             *)
(***************************************************************************)
Verified == Unanswered /\ ServesVerified /\ VerifiedOnly /\ SpoolOwned

(***************************************************************************)
(* No step of a handler, a reload or another request sends pkg peer bytes  *)
(* that were not verified, or leaves a temp file without a handler.        *)
(***************************************************************************)
LEMMA VerifiedStep ==
  ASSUME Typed, Verified, [Next]_vars
  PROVE  Verified'
<1> USE DEF Typed, TypeOK, Locals, Label, shared, want, attempt,
            Verified, Unanswered, ServesVerified, VerifiedOnly, SpoolOwned
<1>1. CASE UNCHANGED vars
  BY <1>1 DEF vars
<1>2. CASE Reload
  BY <1>2 DEF Reload
<1>3. ASSUME NEW r \in Request, Refuse(r)
      PROVE  Verified'
  BY <1>3 DEF Refuse, Answer, Go, Status
<1>4. ASSUME NEW r \in Request, relayUpstream(r)
      PROVE  Verified'
  <2>1. PICK a \in Reply : a.source # "peer" /\ Answer(r, a)
    BY <1>4, UpstreamAnswer
  <2> QED
    BY <1>4, <2>1 DEF relayUpstream, Answer, Go
<1>5. ASSUME NEW r \in Request, ExpectedHash(r)
      PROVE  Verified'
  BY <1>5 DEF ExpectedHash, Go, NoReply
<1>6. ASSUME NEW r \in Request, ExpectedFileSizeBytes(r)
      PROVE  Verified'
  <2>1. pc[r] = "size" /\ UNCHANGED <<spool, hash, body>>
    BY <1>6 DEF ExpectedFileSizeBytes
  <2>2. CASE reply' = [reply EXCEPT ![r] = Status(404)] /\ pc' = [pc EXCEPT ![r] = "done"]
    BY <2>1, <2>2 DEF Status
  <2>3. CASE pc' = [pc EXCEPT ![r] = "list"] /\ UNCHANGED reply
    BY <2>1, <2>3
  <2> QED
    BY <1>6, <2>2, <2>3 DEF ExpectedFileSizeBytes, Answer, Go
<1>7. ASSUME NEW r \in Request, ListPeers(r)
      PROVE  Verified'
  BY <1>7 DEF ListPeers, Go
<1>8. ASSUME NEW r \in Request, NextPeer(r)
      PROVE  Verified'
  BY <1>8 DEF NextPeer, Go
<1>9. ASSUME NEW r \in Request, FetchHeaders(r)
      PROVE  Verified'
  BY <1>9 DEF FetchHeaders, SpoolError, EndAttempt, Go
<1>10. ASSUME NEW r \in Request, FetchBody(r)
       PROVE  Verified'
  BY <1>10 DEF FetchBody, Verdict, Fails, SpoolError, Discard, EndAttempt, Go
<1>11. ASSUME NEW r \in Request, Block(r)
       PROVE  Verified'
  BY <1>11 DEF Block, EndAttempt, Go
<1>12. ASSUME NEW r \in Request, ServeSpool(r)
       PROVE  Verified'
  BY <1>12 DEF ServeSpool, Answer, Discard, Return, EndAttempt, Go
<1>13. ASSUME NEW r \in Request, serveUpstreamPackage(r)
       PROVE  Verified'
  <2>1. PICK a \in Reply : a.source # "peer" /\ Answer(r, a)
    BY <1>13, UpstreamAnswer
  <2> QED
    BY <1>13, <2>1 DEF serveUpstreamPackage, Answer, Return, EndAttempt, Go
<1> QED
  BY <1>1, <1>2, <1>3, <1>4, <1>5, <1>6, <1>7, <1>8, <1>9, <1>10, <1>11, <1>12, <1>13
  DEF Next, Handler, Finished

(***************************************************************************)
(* The inductive invariant holds of every behaviour.                       *)
(***************************************************************************)
LEMMA AlwaysVerified == Spec => []Verified
<1>1. Init => Verified
  BY DEF Init, Verified, Unanswered, ServesVerified, VerifiedOnly, SpoolOwned, NoReply
<1> QED
  BY <1>1, VerifiedStep, AlwaysTyped, PTL DEF Spec

(***************************************************************************)
(* Bytes a peer sent reach pkg only if their hash is the one the catalogue *)
(* gave for the request, for any number of requests, peers and reloads.    *)
(***************************************************************************)
THEOREM OnlyVerifiedBytesServed == Spec => []VerifiedOnly
  BY AlwaysVerified, PTL DEF Verified

(***************************************************************************)
(* No temp file outlives the attempt that made it, on any failing path.    *)
(***************************************************************************)
THEOREM SpoolsAreOwned == Spec => []SpoolOwned
  BY AlwaysVerified, PTL DEF Verified

-----------------------------------------------------------------------------
(* What a 404 means. *)

(***************************************************************************)
(* A request whose package is missing from the catalogue now, or was when  *)
(* it read the hash, has seen it missing.                                  *)
(***************************************************************************)
MissingSeen ==
  \A r \in Request :
    /\ pc[r] = "size" /\ hash[r] = None => absent[r]
    /\ pc[r] \notin {"new", "done"} /\ catalogue[name[r]] = None => absent[r]

(***************************************************************************)
(* The inductive invariant behind NotFoundMeansAbsent.                     *)
(***************************************************************************)
Absence == Unanswered /\ MissingSeen /\ NotFoundMeansAbsent

(***************************************************************************)
(* No reload between the two reads of expected, and no other step, makes a *)
(* 404 out of a row that was there all along.                              *)
(***************************************************************************)
LEMMA AbsenceStep ==
  ASSUME Typed, Absence, [Next]_vars
  PROVE  Absence'
<1> USE DEF Typed, TypeOK, Locals, Label, shared, want, attempt,
            Absence, Unanswered, MissingSeen, NotFoundMeansAbsent
<1>1. CASE UNCHANGED vars
  BY <1>1 DEF vars
<1>2. CASE Reload
  BY <1>2 DEF Reload
<1>3. ASSUME NEW r \in Request, Refuse(r)
      PROVE  Absence'
  BY <1>3 DEF Refuse, Answer, Go, Status
<1>4. ASSUME NEW r \in Request, relayUpstream(r)
      PROVE  Absence'
  <2>1. PICK a \in Reply : (a.source = "facade" => a.status = 502) /\ Answer(r, a)
    BY <1>4, UpstreamAnswer
  <2> QED
    BY <1>4, <2>1 DEF relayUpstream, Answer, Go
<1>5. ASSUME NEW r \in Request, ExpectedHash(r)
      PROVE  Absence'
  <2>1. /\ catalogue[name[r]] = None => absent'[r]
        /\ hash'[r] = catalogue[name[r]]
        /\ pc'[r] = "size"
        /\ reply[r] = NoReply
    BY <1>5 DEF ExpectedHash, Go
  <2>2. ASSUME NEW q \in Request, q # r
        PROVE  absent'[q] = absent[q] /\ hash'[q] = hash[q] /\ pc'[q] = pc[q]
    BY <1>5, <2>2 DEF ExpectedHash, Go
  <2>3. reply' = reply /\ name' = name /\ catalogue' = catalogue
    BY <1>5 DEF ExpectedHash
  <2>4. MissingSeen'
    BY <2>1, <2>2, <2>3
  <2>5. NotFoundMeansAbsent'
    BY <2>1, <2>2, <2>3 DEF NoReply
  <2>6. Unanswered'
    BY <2>1, <2>2, <2>3
  <2> QED
    BY <2>4, <2>5, <2>6
<1>6. ASSUME NEW r \in Request, ExpectedFileSizeBytes(r)
      PROVE  Absence'
  BY <1>6 DEF ExpectedFileSizeBytes, NoRow, Answer, Go, Status
<1>7. ASSUME NEW r \in Request, ListPeers(r)
      PROVE  Absence'
  BY <1>7 DEF ListPeers, Go
<1>8. ASSUME NEW r \in Request, NextPeer(r)
      PROVE  Absence'
  BY <1>8 DEF NextPeer, Go
<1>9. ASSUME NEW r \in Request, FetchHeaders(r)
      PROVE  Absence'
  BY <1>9 DEF FetchHeaders, SpoolError, EndAttempt, Go
<1>10. ASSUME NEW r \in Request, FetchBody(r)
       PROVE  Absence'
  BY <1>10 DEF FetchBody, Fails, SpoolError, Discard, EndAttempt, Go
<1>11. ASSUME NEW r \in Request, Block(r)
       PROVE  Absence'
  BY <1>11 DEF Block, EndAttempt, Go
<1>12. ASSUME NEW r \in Request, ServeSpool(r)
       PROVE  Absence'
  BY <1>12 DEF ServeSpool, Answer, Discard, Return, EndAttempt, Go
<1>13. ASSUME NEW r \in Request, serveUpstreamPackage(r)
       PROVE  Absence'
  <2>1. PICK a \in Reply : (a.source = "facade" => a.status = 502) /\ Answer(r, a)
    BY <1>13, UpstreamAnswer
  <2> QED
    BY <1>13, <2>1 DEF serveUpstreamPackage, Answer, Return, EndAttempt, Go
<1> QED
  BY <1>1, <1>2, <1>3, <1>4, <1>5, <1>6, <1>7, <1>8, <1>9, <1>10, <1>11, <1>12, <1>13
  DEF Next, Handler, Finished

(***************************************************************************)
(* A 404 is only answered for a package the catalogue did not have at some *)
(* moment of the request, whatever reloads fall into it.                   *)
(***************************************************************************)
THEOREM NotFoundIsHonest == Spec => []NotFoundMeansAbsent
<1>1. Init => Absence
  BY DEF Init, Absence, Unanswered, MissingSeen, NotFoundMeansAbsent, NoReply
<1> QED
  BY <1>1, AbsenceStep, AlwaysTyped, PTL DEF Spec, Absence

-----------------------------------------------------------------------------
(* Who is blacklisted. *)

(***************************************************************************)
(* An honest peer's attempt carries genuine bytes; a handler about to      *)
(* blacklist has bytes of the expected length and another hash; and hash   *)
(* and size are read once, in this order.                                  *)
(***************************************************************************)
Evidence ==
  \A r \in Request :
    /\ pc[r] \in {"copy", "block"} /\ addr[r] \in Honest => body[r] \in Genuine
    /\ pc[r] = "block" =>
         body[r] \in Content /\ body[r] # hash[r] /\ Size[body[r]] = size[r]
    /\ pc[r] = "new" => hash[r] = None
    /\ pc[r] \in {"new", "size"} => size[r] = -1

(***************************************************************************)
(* The inductive invariant behind HonestBlockedOnlyIfMisled.               *)
(***************************************************************************)
Blame == Evidence /\ HonestBlockedOnlyIfMisled

(***************************************************************************)
(* An expectation that misleads once does so for good, as hash and size    *)
(* are each read once.                                                     *)
(***************************************************************************)
LEMMA BlameStep ==
  ASSUME Typed, Blame, [Next]_vars
  PROVE  Blame'
<1> USE DEF Typed, TypeOK, Locals, Label, shared, want, attempt,
            Blame, Evidence, HonestBlockedOnlyIfMisled, TornExpectation, TwinBuild
<1>1. CASE UNCHANGED vars
  BY <1>1 DEF vars
<1>2. CASE Reload
  BY <1>2 DEF Reload
<1>3. ASSUME NEW r \in Request, Refuse(r)
      PROVE  Blame'
  BY <1>3 DEF Refuse, Answer, Go
<1>4. ASSUME NEW r \in Request, relayUpstream(r)
      PROVE  Blame'
  BY <1>4 DEF relayUpstream, Answer, Go
<1>5. ASSUME NEW r \in Request, ExpectedHash(r)
      PROVE  Blame'
  BY <1>5, FacadeAssumption DEF ExpectedHash, Go
<1>6. ASSUME NEW r \in Request, ExpectedFileSizeBytes(r)
      PROVE  Blame'
  BY <1>6 DEF ExpectedFileSizeBytes, NoRow, Answer, Go
<1>7. ASSUME NEW r \in Request, ListPeers(r)
      PROVE  Blame'
  BY <1>7 DEF ListPeers, Go
<1>8. ASSUME NEW r \in Request, NextPeer(r)
      PROVE  Blame'
  BY <1>8 DEF NextPeer, Go
<1>9. ASSUME NEW r \in Request, FetchHeaders(r)
      PROVE  Blame'
  BY <1>9 DEF FetchHeaders, Serves, SpoolError, EndAttempt, Go
<1>10. ASSUME NEW r \in Request, FetchBody(r)
       PROVE  Blame'
  BY <1>10 DEF FetchBody, Verdict, BytesRead, Fails, SpoolError, Discard, EndAttempt, Go
<1>11. ASSUME NEW r \in Request, Block(r)
       PROVE  Blame'
  <2>1. addr[r] \in Honest => TornExpectation(r) \/ TwinBuild(r)
    BY <1>11 DEF Block
  <2> QED
    BY <1>11, <2>1 DEF Block, EndAttempt, Go
<1>12. ASSUME NEW r \in Request, ServeSpool(r)
       PROVE  Blame'
  BY <1>12 DEF ServeSpool, Answer, Discard, Return, EndAttempt, Go
<1>13. ASSUME NEW r \in Request, serveUpstreamPackage(r)
       PROVE  Blame'
  BY <1>13 DEF serveUpstreamPackage, Answer, Return, EndAttempt, Go
<1> QED
  BY <1>1, <1>2, <1>3, <1>4, <1>5, <1>6, <1>7, <1>8, <1>9, <1>10, <1>11, <1>12, <1>13
  DEF Next, Handler, Finished

(***************************************************************************)
(* An honest peer is blacklisted only through an expectation whose hash    *)
(* and size come from two catalogues, or one for a build that has a        *)
(* genuine twin of its length.                                             *)
(***************************************************************************)
THEOREM HonestPeerBlockedOnlyIfMisled == Spec => []HonestBlockedOnlyIfMisled
<1>1. Init => Blame
  BY FacadeAssumption DEF Init, Blame, Evidence, HonestBlockedOnlyIfMisled
<1>2. Typed /\ Blame /\ [Next]_vars => Blame'
  BY BlameStep
<1> QED
  BY <1>1, <1>2, AlwaysTyped, PTL DEF Spec, Blame

-----------------------------------------------------------------------------
(* Progress: the safety half of EveryRequestAnswered. *)

(***************************************************************************)
(* The most steps that handler r can still take.  Every listed peer costs  *)
(* at most four: one turn of FetchFirst's loop, the headers, the body, the *)
(* blacklisting.                                                           *)
(***************************************************************************)
Left(r) ==
  CASE pc[r] = "new"      -> 4 * Cardinality(Peer) + 5
    [] pc[r] = "size"     -> 4 * Cardinality(Peer) + 4
    [] pc[r] = "list"     -> 4 * Cardinality(Peer) + 3
    [] pc[r] = "next"     -> 4 * Cardinality(todo[r]) + 2
    [] pc[r] = "fetch"    -> 4 * Cardinality(todo[r]) + 5
    [] pc[r] = "copy"     -> 4 * Cardinality(todo[r]) + 4
    [] pc[r] = "block"    -> 4 * Cardinality(todo[r]) + 3
    [] pc[r] = "serve"    -> 1
    [] pc[r] = "upstream" -> 1
    [] pc[r] = "done"     -> 0

(***************************************************************************)
(* What a step does to the counts: a handler's own step takes at least one *)
(* off its own, and nothing, a reload, another handler or a peer that the  *)
(* others have blacklisted included, adds to any.                          *)
(***************************************************************************)
Nearer ==
  \A r \in Request : /\ Left(r)' <= Left(r)
                     /\ Handler(r) => Left(r)' < Left(r)

(***************************************************************************)
(* The listed peers are finitely many, so Left is a number, and only an    *)
(* answered request has none left.                                         *)
(***************************************************************************)
LEMMA LeftIsNumber ==
  ASSUME IsFiniteSet(Peer), TypeOK, NEW r \in Request
  PROVE  /\ Cardinality(Peer) \in Nat
         /\ Cardinality(todo[r]) \in Nat
         /\ Cardinality(todo[r]) <= Cardinality(Peer)
         /\ Left(r) \in Nat
         /\ Left(r) = 0 <=> pc[r] = "done"
<1>1. todo[r] \subseteq Peer /\ pc[r] \in Label
  BY DEF TypeOK
<1>2. /\ Cardinality(Peer) \in Nat
      /\ Cardinality(todo[r]) \in Nat
      /\ Cardinality(todo[r]) <= Cardinality(Peer)
  BY <1>1, FS_Subset, FS_CardinalityType
<1> QED
  BY <1>1, <1>2 DEF Left, Label

(***************************************************************************)
(* Each of a handler's own steps takes at least one off what is left.      *)
(***************************************************************************)
LEMMA HandlerIsNearer ==
  ASSUME IsFiniteSet(Peer), TypeOK, TypeOK', NEW r \in Request, Handler(r)
  PROVE  Left(r)' < Left(r)
<1> DEFINE n == Cardinality(Peer)
           t == Cardinality(todo[r])
           u == Cardinality(todo'[r])
<1>1. n \in Nat /\ t \in Nat /\ t <= n /\ pc \in [Request -> Label]
  BY LeftIsNumber DEF TypeOK
<1>2. u \in Nat /\ u <= n
  <2>1. todo'[r] \subseteq Peer
    BY DEF TypeOK
  <2> QED
    BY <2>1, FS_Subset, FS_CardinalityType
<1> HIDE DEF n, t, u
<1>3. CASE Refuse(r) \/ relayUpstream(r)
  <2>1. pc[r] = "new" /\ pc'[r] = "done"
    BY <1>1, <1>3 DEF Refuse, relayUpstream, Answer, Go
  <2> QED
    BY <2>1, <1>1 DEF Left, n
<1>4. CASE ExpectedHash(r)
  <2>1. pc[r] = "new" /\ pc'[r] = "size"
    BY <1>1, <1>4 DEF ExpectedHash, Go
  <2> QED
    BY <2>1, <1>1 DEF Left, n
<1>5. CASE ExpectedFileSizeBytes(r)
  <2>1. pc[r] = "size" /\ pc'[r] \in {"done", "list"}
    BY <1>1, <1>5 DEF ExpectedFileSizeBytes, Answer, Go
  <2> QED
    BY <2>1, <1>1 DEF Left, n
<1>6. CASE ListPeers(r)
  <2>1. pc[r] = "list" /\ pc'[r] \in {"upstream", "next"}
    BY <1>1, <1>6 DEF ListPeers, Go
  <2> QED
    BY <2>1, <1>1, <1>2 DEF Left, n, u
<1>7. CASE NextPeer(r)
  <2>1. CASE todo[r] = {} /\ Go(r, "upstream")
    BY <2>1, <1>1, <1>7 DEF NextPeer, Go, Left, t
  <2>2. ASSUME NEW p \in todo[r], todo' = [todo EXCEPT ![r] = Untried(r, p)],
               pc'[r] \in {"next", "fetch"}
        PROVE  Left(r)' < Left(r)
    <3>1. todo'[r] = todo[r] \ {p} /\ IsFiniteSet(todo[r])
      BY <2>2, FS_Subset DEF Untried, TypeOK
    <3>2. u = t - 1
      BY <3>1, FS_RemoveElement DEF u, t
    <3>3. pc[r] = "next"
      BY <1>7 DEF NextPeer
    <3> QED
      BY <3>2, <3>3, <2>2, <1>1, <1>2 DEF Left, t, u
  <2>3. \/ todo[r] = {} /\ Go(r, "upstream")
        \/ \E p \in todo[r] : /\ todo' = [todo EXCEPT ![r] = Untried(r, p)]
                              /\ pc'[r] \in {"next", "fetch"}
    BY <1>1, <1>7 DEF NextPeer, Go
  <2> QED
    BY <2>1, <2>2, <2>3
<1>8. CASE FetchHeaders(r)
  <2>1. pc[r] = "fetch" /\ pc'[r] \in {"next", "copy", "upstream"} /\ u = t
    BY <1>1, <1>8 DEF FetchHeaders, SpoolError, Go, u, t
  <2> QED
    BY <2>1, <1>1 DEF Left, u, t
<1>9. CASE FetchBody(r)
  <2>1. pc[r] = "copy" /\ pc'[r] \in {"next", "block", "serve", "upstream"} /\ u = t
    BY <1>1, <1>9 DEF FetchBody, Fails, SpoolError, Go, u, t
  <2> QED
    BY <2>1, <1>1 DEF Left, u, t
<1>10. CASE Block(r)
  <2>1. pc[r] = "block" /\ pc'[r] = "next" /\ u = t
    BY <1>1, <1>10 DEF Block, Go, u, t
  <2> QED
    BY <2>1, <1>1 DEF Left, u, t
<1>11. CASE ServeSpool(r) \/ serveUpstreamPackage(r)
  <2>1. pc[r] \in {"serve", "upstream"} /\ pc'[r] = "done"
    BY <1>1, <1>11 DEF ServeSpool, serveUpstreamPackage, Answer, Go
  <2> QED
    BY <2>1 DEF Left
<1> QED
  BY <1>3, <1>4, <1>5, <1>6, <1>7, <1>8, <1>9, <1>10, <1>11 DEF Handler

(***************************************************************************)
(* A handler's step leaves the others where they are.                      *)
(***************************************************************************)
LEMMA OthersStay ==
  ASSUME TypeOK, NEW q \in Request, Handler(q), NEW r \in Request, r # q
  PROVE  pc'[r] = pc[r] /\ todo'[r] = todo[r]
<1> USE DEF TypeOK, Go, Answer
<1>1. CASE Refuse(q) \/ relayUpstream(q) \/ ExpectedHash(q) \/ ExpectedFileSizeBytes(q)
  BY <1>1 DEF Refuse, relayUpstream, ExpectedHash, ExpectedFileSizeBytes
<1>2. CASE ListPeers(q) \/ NextPeer(q)
  BY <1>2 DEF ListPeers, NextPeer
<1>3. CASE FetchHeaders(q) \/ FetchBody(q) \/ Block(q)
  BY <1>3 DEF FetchHeaders, FetchBody, Block, Fails, SpoolError
<1>4. CASE ServeSpool(q) \/ serveUpstreamPackage(q)
  BY <1>4 DEF ServeSpool, serveUpstreamPackage, Return
<1> QED
  BY <1>1, <1>2, <1>3, <1>4 DEF Handler

(***************************************************************************)
(* No request goes round in circles: a handler takes at most Left steps,   *)
(* four for each peer the tracker named and five more, whatever the peers  *)
(* send and whatever reloads and other requests do meanwhile.  That each   *)
(* request is answered then only needs the handler's goroutine to run.     *)
(***************************************************************************)
THEOREM RequestsRunOutOfSteps ==
  ASSUME IsFiniteSet(Peer)
  PROVE  Spec => [][Nearer]_vars
<1>1. TypeOK /\ TypeOK' /\ [Next]_vars => [Nearer]_vars
  <2> SUFFICES ASSUME TypeOK, TypeOK', Next, NEW r \in Request
               PROVE  /\ Left(r)' <= Left(r)
                      /\ Handler(r) => Left(r)' < Left(r)
    BY DEF Nearer
  <2>1. /\ Left(r) \in Nat
        /\ Handler(r) => Left(r)' < Left(r)
    BY LeftIsNumber, HandlerIsNearer
  <2>2. Left(r)' \in Nat
    <3>1. todo'[r] \subseteq Peer /\ pc'[r] \in Label
      BY DEF TypeOK
    <3>2. Cardinality(Peer) \in Nat /\ Cardinality(todo'[r]) \in Nat
      BY <3>1, FS_Subset, FS_CardinalityType
    <3> QED
      BY <3>1, <3>2 DEF Left, Label
  <2>3. ASSUME pc'[r] = pc[r], todo'[r] = todo[r]
        PROVE  Left(r)' = Left(r)
    BY <2>3 DEF Left
  <2>4. ASSUME NEW q \in Request, Handler(q), q # r
        PROVE  Left(r)' = Left(r)
    BY <2>3, <2>4, OthersStay
  <2>5. ASSUME Reload \/ Finished
        PROVE  Left(r)' = Left(r)
    BY <2>3, <2>5 DEF Reload, Finished, vars
  <2>6. Handler(r) \/ Left(r)' = Left(r)
    BY <2>4, <2>5 DEF Next
  <2>7. ASSUME NEW m \in Nat, NEW k \in Nat, m < k \/ m = k
        PROVE  m <= k
    BY <2>7
  <2>8. Left(r)' <= Left(r)
    BY <2>1, <2>2, <2>6, <2>7, Zenon
  <2> QED
    BY <2>1, <2>8, Zenon
<1> QED
  BY <1>1, TypeCorrect, PTL DEF Spec
=============================================================================
