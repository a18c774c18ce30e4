-------------------------- MODULE SeedServerProofs --------------------------
(***************************************************************************)
(* What the seeder guarantees for every number of requests in progress,    *)
(* addresses and caps: the proofs of SeedServer's safety invariants.       *)
(***************************************************************************)
EXTENDS SeedServer, FiniteSetTheorems, TLAPS

USE SeedAssumption

(***************************************************************************)
(* The handlers that hold a slot for an address.                           *)
(***************************************************************************)
HoldingFor(ip) == {h \in Holding : from[h] = ip}

(***************************************************************************)
(* The types that do not depend on the counters.                           *)
(***************************************************************************)
Shape ==
  /\ pc \in [Handler -> {"idle", "admission", "open", "answer"}]
  /\ from \in [{h \in Handler : pc[h] # "idle"} -> IP]
  /\ wanted \in [{h \in Handler : pc[h] # "idle"} -> Package]
  /\ held \subseteq Package
  /\ files \subseteq Package
  /\ announced \subseteq Package
  /\ unsent \in BOOLEAN
  /\ telling \subseteq Package
  /\ nudged \in BOOLEAN
  /\ closed \in BOOLEAN
  /\ http \in {"nil", "made", "shut"}
  /\ closing \in {"no", "shutting", "returned"}
  /\ serve \in {"start", "ready", "serving", "returned"}
  /\ listening \in BOOLEAN

(***************************************************************************)
(* Slots are finitely many, so the counters can be compared with them.     *)
(***************************************************************************)
LEMMA HoldingFinite ==
  /\ IsFiniteSet(Holding)
  /\ \A ip : IsFiniteSet(HoldingFor(ip))
  /\ Cardinality(Holding) \in Nat
  /\ \A ip : Cardinality(HoldingFor(ip)) \in Nat
<1>1. IsFiniteSet(Holding)
  BY FS_Subset DEF Holding
<1>2. \A ip : IsFiniteSet(HoldingFor(ip))
  BY <1>1, FS_Subset DEF HoldingFor
<1> QED
  BY <1>1, <1>2, FS_CardinalityType

(***************************************************************************)
(* One slot more, or one less, in numbers.                                 *)
(***************************************************************************)
LEMMA OneSlot ==
  ASSUME NEW S, IsFiniteSet(S), NEW h
  PROVE  /\ Cardinality(S) \in Nat
         /\ Cardinality(S \cup {h}) \in Nat /\ Cardinality(S \cup {h}) <= Cardinality(S) + 1
         /\ Cardinality(S \ {h}) \in Nat /\ Cardinality(S \ {h}) <= Cardinality(S)
<1>1. Cardinality(S) \in Nat
  BY FS_CardinalityType
<1>2. IsFiniteSet(S \cup {h}) /\ Cardinality(S \cup {h}) =
        IF h \in S THEN Cardinality(S) ELSE Cardinality(S) + 1
  BY FS_AddElement
<1>3. IsFiniteSet(S \ {h}) /\ Cardinality(S \ {h}) =
        IF h \in S THEN Cardinality(S) - 1 ELSE Cardinality(S)
  BY FS_RemoveElement
<1>4. Cardinality(S \ {h}) \in Nat /\ Cardinality(S \cup {h}) \in Nat
  BY <1>2, <1>3, FS_CardinalityType
<1> QED
  BY <1>1, <1>2, <1>3, <1>4

(***************************************************************************)
(* A handler's arrival, whose locals are put in place.                     *)
(***************************************************************************)
LEMMA ArriveShape ==
  ASSUME Shape, NEW h \in Handler, Arrive(h)
  PROVE  /\ Shape'
         /\ pc' = [pc EXCEPT ![h] = "admission"]
         /\ \A g \in Handler : pc[g] # "idle" => from'[g] = from[g]
<1>1. pc' = [pc EXCEPT ![h] = "admission"] /\ h \notin DOMAIN from /\ h \notin DOMAIN wanted
  BY DEF Arrive, Go, Shape
<1>2. PICK ip \in IP : from' = Put(from, h, ip)
  BY DEF Arrive
<1>3. PICK p \in Package : wanted' = Put(wanted, h, p)
  BY DEF Arrive
<1>4. {g \in Handler : pc'[g] # "idle"} = {g \in Handler : pc[g] # "idle"} \cup {h}
  BY <1>1 DEF Shape
<1>5. from' \in [{g \in Handler : pc'[g] # "idle"} -> IP]
  BY <1>1, <1>2, <1>4 DEF Shape, Put
<1>6. wanted' \in [{g \in Handler : pc'[g] # "idle"} -> Package]
  BY <1>1, <1>3, <1>4 DEF Shape, Put
<1>7. \A g \in Handler : pc[g] # "idle" => from'[g] = from[g]
  BY <1>1, <1>2 DEF Shape, Put
<1> QED
  BY <1>1, <1>5, <1>6, <1>7 DEF Shape, Arrive, cache, server

(***************************************************************************)
(* A handler's return, whose locals go with it.                            *)
(***************************************************************************)
LEMMA DoneShape ==
  ASSUME Shape, NEW h \in Handler, Done(h), UNCHANGED <<telling, cache, nudged, server>>
  PROVE  /\ Shape'
         /\ pc' = [pc EXCEPT ![h] = "idle"]
         /\ \A g \in Handler \ {h} : pc[g] # "idle" => from'[g] = from[g]
<1>1. pc' = [pc EXCEPT ![h] = "idle"]
  BY DEF Done, Go
<1>2. {g \in Handler : pc'[g] # "idle"} = {g \in Handler : pc[g] # "idle"} \ {h}
  BY <1>1 DEF Shape
<1>3. from' \in [{g \in Handler : pc'[g] # "idle"} -> IP]
  BY <1>2 DEF Shape, Done, Restrict
<1>4. wanted' \in [{g \in Handler : pc'[g] # "idle"} -> Package]
  BY <1>2 DEF Shape, Done, Restrict
<1>5. \A g \in Handler \ {h} : pc[g] # "idle" => from'[g] = from[g]
  BY DEF Shape, Done, Restrict
<1> QED
  BY <1>1, <1>3, <1>4, <1>5 DEF Shape, cache, server

(***************************************************************************)
(* Every step keeps the shape of the state.                                *)
(***************************************************************************)
LEMMA ShapeStep ==
  ASSUME Shape, [Next]_vars
  PROVE  Shape'
<1> USE DEF Shape, limiter, handler, server, cache
<1>1. CASE UNCHANGED vars
  BY <1>1 DEF vars
<1>2. CASE Serve
  BY <1>2 DEF Serve
<1>3. CASE HTTPServe
  BY <1>3 DEF HTTPServe
<1>4. CASE Close
  BY <1>4 DEF Close
<1>5. CASE HTTPClose
  BY <1>5 DEF HTTPClose
<1>6. ASSUME NEW h \in Handler, Arrive(h)
      PROVE  Shape'
  BY <1>6, ArriveShape
<1>7. ASSUME NEW h \in Handler, Admit(h)
      PROVE  Shape'
  <2>1. CASE Done(h)
    BY <1>7, <2>1, DoneShape DEF Admit
  <2>2. CASE Go(h, "open") /\ UNCHANGED <<from, wanted>>
    BY <1>7, <2>2 DEF Admit, Go
  <2> QED
    BY <1>7, <2>1, <2>2 DEF Admit
<1>8. ASSUME NEW h \in Handler, Open(h)
      PROVE  Shape'
  BY <1>8 DEF Open, Go
<1>9. ASSUME NEW h \in Handler, Return(h)
      PROVE  Shape'
  BY <1>9, DoneShape DEF Return
<1>10. ASSUME NEW p \in Package, OnNotHeld(p)
       PROVE  Shape'
  BY <1>10 DEF OnNotHeld
<1>11. CASE TakeNudge
  BY <1>11 DEF TakeNudge
<1>12. CASE CacheDrifts
  BY <1>12 DEF CacheDrifts
<1> QED
  BY <1>1, <1>2, <1>3, <1>4, <1>5, <1>6, <1>7, <1>8, <1>9, <1>10, <1>11, <1>12 DEF Next

-----------------------------------------------------------------------------
(* The counters. *)

(***************************************************************************)
(* perIP is a map, whatever its keys.                                      *)
(***************************************************************************)
PerIPIsMap == perIP = [ip \in DOMAIN perIP |-> perIP[ip]]

(***************************************************************************)
(* The state's shape together with what the counters count.                *)
(***************************************************************************)
Counted == Shape /\ PerIPIsMap /\ SlotsMatchHandlers

(***************************************************************************)
(* What has to be kept by a step that takes and returns no slot: the same  *)
(* handlers hold one, for the same addresses.                              *)
(***************************************************************************)
SameSlots ==
  /\ UNCHANGED limiter
  /\ Holding' = Holding
  /\ \A h \in Holding : from'[h] = from[h]

(***************************************************************************)
(* A step that moves no slot keeps the counters right.                     *)
(***************************************************************************)
LEMMA SameSlotsKeep ==
  ASSUME SlotsMatchHandlers, SameSlots
  PROVE  SlotsMatchHandlers'
<1>1. \A ip : {h \in Holding' : from'[h] = ip} = {h \in Holding : from[h] = ip}
  BY DEF SameSlots
<1>2. {from'[h] : h \in Holding'} = {from[h] : h \in Holding}
  BY DEF SameSlots
<1> QED
  BY <1>1, <1>2 DEF SlotsMatchHandlers, SameSlots, limiter

(***************************************************************************)
(* InUse is the number of slots an address holds, entry or not.            *)
(***************************************************************************)
LEMMA InUseCounts ==
  ASSUME Counted, NEW ip
  PROVE  InUse(ip) = Cardinality(HoldingFor(ip))
<1>1. CASE ip \in DOMAIN perIP
  BY <1>1 DEF Counted, SlotsMatchHandlers, InUse, HoldingFor
<1>2. CASE ip \notin DOMAIN perIP
  <2>1. HoldingFor(ip) = {}
    BY <1>2 DEF Counted, SlotsMatchHandlers, HoldingFor
  <2> QED
    BY <1>2, <2>1, FS_EmptySet DEF InUse
<1> QED
  BY <1>1, <1>2

(***************************************************************************)
(* acquire takes one slot for the handler's address.                       *)
(***************************************************************************)
LEMMA AcquireCounts ==
  ASSUME Counted, NEW h \in Handler, pc[h] = "admission",
         acquire(from[h]), Go(h, "open"), UNCHANGED <<from, wanted>>
  PROVE  /\ SlotsMatchHandlers'
         /\ Holding' = Holding \cup {h}
         /\ \A ip : HoldingFor(ip)' = IF ip = from[h] THEN HoldingFor(ip) \cup {h}
                                      ELSE HoldingFor(ip)
<1>1. h \notin Holding /\ Holding' = Holding \cup {h}
  BY DEF Counted, Shape, Go, Holding
<1>2. \A ip : HoldingFor(ip)' = IF ip = from[h] THEN HoldingFor(ip) \cup {h}
                               ELSE HoldingFor(ip)
  BY <1>1 DEF HoldingFor
<1>3. Cardinality(Holding') = Cardinality(Holding) + 1
  BY <1>1, HoldingFinite, FS_AddElement
<1>4. global' = Cardinality(Holding')
  BY <1>3 DEF acquire, Counted, SlotsMatchHandlers
<1>5. DOMAIN perIP' = {from'[g] : g \in Holding'}
  BY <1>1 DEF acquire, Put, Counted, SlotsMatchHandlers
<1>6. ASSUME NEW ip \in DOMAIN perIP'
      PROVE  perIP'[ip] = Cardinality(HoldingFor(ip)')
  <2>1. CASE ip = from[h]
    <3>1. h \notin HoldingFor(ip)
      BY <1>1 DEF HoldingFor
    <3>2. Cardinality(HoldingFor(ip)') = Cardinality(HoldingFor(ip)) + 1
      BY <2>1, <3>1, <1>2, HoldingFinite, FS_AddElement
    <3> QED
      BY <2>1, <3>2, InUseCounts DEF acquire, Put
  <2>2. CASE ip # from[h]
    BY <1>6, <2>2, <1>2 DEF acquire, Put, Counted, SlotsMatchHandlers, HoldingFor
  <2> QED
    BY <2>1, <2>2
<1> QED
  BY <1>1, <1>2, <1>4, <1>5, <1>6 DEF SlotsMatchHandlers, HoldingFor

(***************************************************************************)
(* release returns one, and drops the entry of an address that has none    *)
(* left.                                                                   *)
(***************************************************************************)
LEMMA ReleaseCounts ==
  ASSUME Counted, NEW h \in Handler, Return(h)
  PROVE  /\ SlotsMatchHandlers'
         /\ Holding' = Holding \ {h}
         /\ \A ip : HoldingFor(ip)' = HoldingFor(ip) \ {h}
<1>1. pc' = [pc EXCEPT ![h] = "idle"] /\ \A g \in Handler \ {h} : pc[g] # "idle" => from'[g] = from[g]
  BY DoneShape DEF Counted, Return
<1>2. h \in Holding /\ Holding' = Holding \ {h}
  BY <1>1 DEF Counted, Shape, Return, Holding
<1>3. \A g \in Holding' : from'[g] = from[g]
  BY <1>1, <1>2 DEF Holding
<1>4. \A ip : HoldingFor(ip)' = HoldingFor(ip) \ {h}
  BY <1>2, <1>3 DEF HoldingFor
<1>5. Cardinality(Holding') = Cardinality(Holding) - 1
  BY <1>2, HoldingFinite, FS_RemoveElement
<1>6. global' = Cardinality(Holding')
  BY <1>5 DEF Return, release, Counted, SlotsMatchHandlers
<1>7. PICK a \in IP : a = from[h]
  BY <1>2 DEF Counted, Shape, Holding
<1>8. h \in HoldingFor(a) /\ a \in DOMAIN perIP
  BY <1>2, <1>7 DEF HoldingFor, Counted, SlotsMatchHandlers
<1>9. perIP[a] = Cardinality(HoldingFor(a)) /\ perIP[a] \in Nat
  BY <1>8, HoldingFinite DEF Counted, SlotsMatchHandlers, HoldingFor
<1>10. Cardinality(HoldingFor(a)') = perIP[a] - 1
  BY <1>4, <1>8, <1>9, HoldingFinite, FS_RemoveElement
<1>11. perIP[a] - 1 <= 0 <=> HoldingFor(a)' = {}
  <2>1. IsFiniteSet(HoldingFor(a)')
    BY <1>4, <1>8, HoldingFinite, FS_RemoveElement
  <2> QED
    BY <2>1, <1>9, <1>10, FS_EmptySet, FS_CardinalityType
<1>12. DOMAIN perIP' = IF HoldingFor(a)' = {} THEN DOMAIN perIP \ {a} ELSE DOMAIN perIP
  BY <1>7, <1>11 DEF Return, release, Restrict
<1>13. \A ip \in DOMAIN perIP' : perIP'[ip] = IF ip = a THEN perIP[a] - 1 ELSE perIP[ip]
  BY <1>7, <1>8, <1>11, <1>12 DEF Return, release, Restrict
<1>14. ASSUME NEW ip
       PROVE  ip \in DOMAIN perIP' <=> HoldingFor(ip)' # {}
  <2>1. ip \in DOMAIN perIP <=> HoldingFor(ip) # {}
    BY DEF Counted, SlotsMatchHandlers, HoldingFor
  <2>2. ip # a => HoldingFor(ip)' = HoldingFor(ip)
    BY <1>4, <1>7 DEF HoldingFor
  <2> QED
    BY <2>1, <2>2, <1>8, <1>12
<1>15. DOMAIN perIP' = {from'[g] : g \in Holding'}
  BY <1>14 DEF HoldingFor
<1>16. ASSUME NEW ip \in DOMAIN perIP'
       PROVE  perIP'[ip] = Cardinality(HoldingFor(ip)')
  <2>1. CASE ip = a
    BY <2>1, <1>10, <1>13
  <2>2. CASE ip # a
    <3>1. HoldingFor(ip)' = HoldingFor(ip)
      BY <2>2, <1>4, <1>7 DEF HoldingFor
    <3>2. ip \in DOMAIN perIP
      BY <1>12
    <3> QED
      BY <2>2, <3>1, <3>2, <1>13 DEF Counted, SlotsMatchHandlers, HoldingFor
  <2> QED
    BY <2>1, <2>2
<1> QED
  BY <1>2, <1>4, <1>6, <1>15, <1>16 DEF SlotsMatchHandlers, HoldingFor

(***************************************************************************)
(* Whatever handlers, the server's lifecycle and the cache do, every step  *)
(* but an admission and a return moves no slot.                            *)
(***************************************************************************)
LEMMA OtherStepsKeepSlots ==
  ASSUME Shape, [Next]_vars,
         \A h \in Handler : ~Return(h),
         \A h \in Handler : ~(Admit(h) /\ pc'[h] = "open")
  PROVE  SameSlots
<1> USE DEF SameSlots, Holding, limiter, handler, server, cache
<1>1. CASE UNCHANGED vars
  BY <1>1 DEF vars
<1>2. CASE Serve \/ HTTPServe \/ Close \/ HTTPClose
  BY <1>2 DEF Serve, HTTPServe, Close, HTTPClose
<1>3. ASSUME NEW h \in Handler, Arrive(h)
      PROVE  SameSlots
  BY <1>3, ArriveShape DEF Arrive, Shape
<1>4. ASSUME NEW h \in Handler, Admit(h)
      PROVE  SameSlots
  <2>1. Full(from[h]) /\ Done(h) /\ UNCHANGED limiter
    BY <1>4 DEF Admit, Go, Shape
  <2>2. Done(h) /\ UNCHANGED <<telling, cache, nudged, server>> /\ pc[h] = "admission"
    BY <1>4, <2>1 DEF Admit
  <2> QED
    BY <2>1, <2>2, DoneShape DEF Shape
<1>5. ASSUME NEW h \in Handler, Open(h)
      PROVE  SameSlots
  BY <1>5 DEF Open, Go, Shape
<1>6. ASSUME NEW p \in Package, OnNotHeld(p)
      PROVE  SameSlots
  BY <1>6 DEF OnNotHeld
<1>7. CASE TakeNudge \/ CacheDrifts
  BY <1>7 DEF TakeNudge, CacheDrifts
<1> QED
  BY <1>1, <1>2, <1>3, <1>4, <1>5, <1>6, <1>7 DEF Next

(***************************************************************************)
(* An admission that succeeds takes a slot under both caps.                *)
(***************************************************************************)
LEMMA AdmissionTakesSlot ==
  ASSUME Shape, NEW h \in Handler, Admit(h), pc'[h] = "open"
  PROVE  /\ pc[h] = "admission" /\ ~Full(from[h])
         /\ acquire(from[h]) /\ Go(h, "open") /\ UNCHANGED <<from, wanted>>
  BY DEF Admit, Done, Go, Shape

(***************************************************************************)
(* The counters are right in every state, for every number of handlers.    *)
(***************************************************************************)
LEMMA AlwaysCounted == Spec => []Counted
<1>1. Init => Counted
  <2> SUFFICES ASSUME Init PROVE Counted
    OBVIOUS
  <2>1. Shape
    BY DEF Init, Shape
  <2>2. Holding = {}
    BY DEF Init, Holding
  <2>3. SlotsMatchHandlers
    BY <2>2, FS_EmptySet DEF Init, SlotsMatchHandlers
  <2>4. PerIPIsMap
    BY DEF Init, PerIPIsMap
  <2> QED
    BY <2>1, <2>3, <2>4 DEF Counted
<1>2. Counted /\ [Next]_vars => Counted'
  <2> SUFFICES ASSUME Counted, [Next]_vars PROVE Counted'
    OBVIOUS
  <2>1. Shape'
    BY ShapeStep DEF Counted
  <2>2. ASSUME NEW h \in Handler, Return(h)
        PROVE  SlotsMatchHandlers' /\ PerIPIsMap'
    BY <2>2, ReleaseCounts DEF Counted, PerIPIsMap, Return, release, Restrict
  <2>3. ASSUME NEW h \in Handler, Admit(h), pc'[h] = "open"
        PROVE  SlotsMatchHandlers' /\ PerIPIsMap'
    <3>1. /\ pc[h] = "admission" /\ acquire(from[h])
          /\ Go(h, "open") /\ UNCHANGED <<from, wanted>>
      BY <2>3, AdmissionTakesSlot DEF Counted
    <3> QED
      BY <3>1, AcquireCounts DEF PerIPIsMap, acquire, Put
  <2>4. ASSUME \A h \in Handler : ~Return(h),
               \A h \in Handler : ~(Admit(h) /\ pc'[h] = "open")
        PROVE  SlotsMatchHandlers' /\ PerIPIsMap'
    <3>1. SameSlots
      BY <2>4, OtherStepsKeepSlots DEF Counted
    <3> QED
      BY <3>1, SameSlotsKeep DEF Counted, PerIPIsMap, SameSlots, limiter
  <2> QED
    BY <2>1, <2>2, <2>3, <2>4 DEF Counted
<1> QED
  BY <1>1, <1>2, PTL DEF Spec

(***************************************************************************)
(* The occupancy counters, plain ints in the code, never go negative, and  *)
(* the rest of the state keeps its types.                                  *)
(***************************************************************************)
THEOREM TypeCorrect == Spec => []TypeOK
<1>1. Counted => TypeOK
  <2> SUFFICES ASSUME Counted PROVE TypeOK
    OBVIOUS
  <2>1. global \in Nat
    BY HoldingFinite DEF Counted, SlotsMatchHandlers
  <2>2. DOMAIN perIP \subseteq IP
    BY DEF Counted, Shape, SlotsMatchHandlers, Holding
  <2>3. \A ip \in DOMAIN perIP : perIP[ip] \in Nat
    <3> SUFFICES ASSUME NEW ip \in DOMAIN perIP PROVE perIP[ip] \in Nat
      OBVIOUS
    <3>1. perIP[ip] = Cardinality(HoldingFor(ip))
      BY DEF Counted, SlotsMatchHandlers, HoldingFor
    <3>2. Cardinality(HoldingFor(ip)) \in Nat
      BY HoldingFinite
    <3> QED
      BY <3>1, <3>2
  <2> QED
    BY <2>1, <2>2, <2>3 DEF Counted, PerIPIsMap, Shape, TypeOK
<1> QED
  BY <1>1, AlwaysCounted, PTL

(***************************************************************************)
(* No path through ServeHTTP leaks a slot or returns one twice.            *)
(***************************************************************************)
THEOREM SlotsAlwaysMatchHandlers == Spec => []SlotsMatchHandlers
  BY AlwaysCounted, PTL DEF Counted

-----------------------------------------------------------------------------
(* The caps. *)

(***************************************************************************)
(* The number of transfers in progress never exceeds either cap: the test  *)
(* in acquire and the increment are one critical section, so no two        *)
(* arrivals share the last slot.                                           *)
(***************************************************************************)
THEOREM CapsAlwaysRespected == Spec => []CapsRespected
<1>1. Init => CapsRespected
  <2> SUFFICES ASSUME Init PROVE CapsRespected
    OBVIOUS
  <2>1. Holding = {}
    BY DEF Init, Holding
  <2>2. \A ip : {h \in Holding : from[h] = ip} = {}
    BY <2>1
  <2> QED
    BY <2>1, <2>2, FS_EmptySet DEF CapsRespected
<1>2. Counted /\ CapsRespected /\ [Next]_vars => CapsRespected'
  <2> SUFFICES ASSUME Counted, CapsRespected, [Next]_vars PROVE CapsRespected'
    OBVIOUS
  <2>1. ASSUME NEW h \in Handler, Return(h)
        PROVE  CapsRespected'
    <3>1. Holding' = Holding \ {h} /\ \A ip : HoldingFor(ip)' = HoldingFor(ip) \ {h}
      BY <2>1, ReleaseCounts
    <3>2. /\ Cardinality(Holding') \in Nat /\ Cardinality(Holding) \in Nat
          /\ Cardinality(Holding') <= Cardinality(Holding)
      BY <3>1, HoldingFinite, OneSlot
    <3>3. ASSUME NEW ip \in IP
          PROVE  /\ Cardinality(HoldingFor(ip)') \in Nat /\ Cardinality(HoldingFor(ip)) \in Nat
                 /\ Cardinality(HoldingFor(ip)') <= Cardinality(HoldingFor(ip))
      <4>1. HoldingFor(ip)' = HoldingFor(ip) \ {h} /\ IsFiniteSet(HoldingFor(ip))
        BY <3>1, HoldingFinite
      <4> QED
        BY <4>1, OneSlot
    <3>4. MaxConcurrentSeeds > 0 => Cardinality(Holding') <= MaxConcurrentSeeds
      BY <3>2 DEF CapsRespected
    <3>5. ASSUME NEW ip \in IP, MaxConcurrentSeedsPerIP > 0
          PROVE  Cardinality(HoldingFor(ip)') <= MaxConcurrentSeedsPerIP
      <4>1. Cardinality(HoldingFor(ip)) <= MaxConcurrentSeedsPerIP
        BY <3>5 DEF CapsRespected, HoldingFor
      <4> QED
        BY <4>1, <3>3
    <3> QED
      BY <3>4, <3>5 DEF CapsRespected, HoldingFor
  <2>2. ASSUME NEW h \in Handler, Admit(h), pc'[h] = "open"
        PROVE  CapsRespected'
    <3>1. /\ pc[h] = "admission" /\ ~Full(from[h]) /\ acquire(from[h])
          /\ Go(h, "open") /\ UNCHANGED <<from, wanted>>
      BY <2>2, AdmissionTakesSlot DEF Counted
    <3>2. /\ Holding' = Holding \cup {h}
          /\ \A ip : HoldingFor(ip)' = IF ip = from[h] THEN HoldingFor(ip) \cup {h}
                                       ELSE HoldingFor(ip)
      BY <3>1, AcquireCounts
    <3>3. /\ MaxConcurrentSeeds > 0 => Cardinality(Holding) < MaxConcurrentSeeds
          /\ MaxConcurrentSeedsPerIP > 0 =>
               Cardinality(HoldingFor(from[h])) < MaxConcurrentSeedsPerIP
      BY <3>1, InUseCounts, HoldingFinite DEF Full, Counted, SlotsMatchHandlers
    <3>4. MaxConcurrentSeeds > 0 => Cardinality(Holding') <= MaxConcurrentSeeds
      <4>1. Cardinality(Holding) \in Nat /\ Cardinality(Holding') \in Nat
            /\ Cardinality(Holding') <= Cardinality(Holding) + 1
        BY <3>2, HoldingFinite, OneSlot
      <4> QED
        BY <4>1, <3>3
    <3>5. ASSUME NEW ip \in IP, MaxConcurrentSeedsPerIP > 0
          PROVE  Cardinality(HoldingFor(ip)') <= MaxConcurrentSeedsPerIP
      <4>1. CASE ip = from[h]
        <5>1. HoldingFor(ip)' = HoldingFor(ip) \cup {h} /\ IsFiniteSet(HoldingFor(ip))
          BY <4>1, <3>2, HoldingFinite
        <5>2. Cardinality(HoldingFor(ip)) \in Nat /\ Cardinality(HoldingFor(ip)') \in Nat
              /\ Cardinality(HoldingFor(ip)') <= Cardinality(HoldingFor(ip)) + 1
          BY <5>1, OneSlot
        <5>3. Cardinality(HoldingFor(ip)) < MaxConcurrentSeedsPerIP
          BY <4>1, <3>3, <3>5
        <5> QED
          BY <5>2, <5>3
      <4>2. CASE ip # from[h]
        BY <4>2, <3>2, <3>5 DEF CapsRespected, HoldingFor
      <4> QED
        BY <4>1, <4>2
    <3> QED
      BY <3>4, <3>5 DEF CapsRespected, HoldingFor
  <2>3. ASSUME \A h \in Handler : ~Return(h),
               \A h \in Handler : ~(Admit(h) /\ pc'[h] = "open")
        PROVE  CapsRespected'
    <3>1. SameSlots
      BY <2>3, OtherStepsKeepSlots DEF Counted
    <3>2. \A ip : {g \in Holding' : from'[g] = ip} = {g \in Holding : from[g] = ip}
      BY <3>1 DEF SameSlots
    <3> QED
      BY <3>1, <3>2 DEF SameSlots, CapsRespected
  <2> QED
    BY <2>1, <2>2, <2>3
<1> QED
  BY <1>1, <1>2, AlwaysCounted, PTL DEF Spec

-----------------------------------------------------------------------------
(* Stopping. *)

(***************************************************************************)
(* Where Serve and Close can be relative to one another.                   *)
(***************************************************************************)
Lifecycle ==
  /\ closed <=> closing # "no"
  /\ http = "nil" => serve \in {"start", "returned"}
  /\ http = "shut" => closing = "returned" /\ serve # "serving"
  /\ closing = "shutting" => http = "made"
  /\ closing = "returned" => http \in {"nil", "shut"}
  /\ serve = "returned" => ~listening

(***************************************************************************)
(* Once Close has returned, no request is accepted: nothing is serving,    *)
(* and what is left of Serve only lets go of the listener.                 *)
(***************************************************************************)
ClosedStaysClosed == closing = "returned" => serve # "serving"

(***************************************************************************)
(* The safety half of StopReleasesPort, in whichever order Serve and Close *)
(* reach the lock: a Serve that was started but had not run does not       *)
(* resurrect a closed server.                                              *)
(***************************************************************************)
THEOREM CloseIsFinal == Spec => []ClosedStaysClosed
<1>1. Init => Lifecycle
  BY DEF Init, Lifecycle
<1>2. Counted /\ Lifecycle /\ [Next]_vars => Lifecycle'
  <2> SUFFICES ASSUME Counted, Lifecycle, [Next]_vars PROVE Lifecycle'
    OBVIOUS
  <2> USE DEF Lifecycle, server
  <2>1. CASE Serve
    BY <2>1 DEF Serve, Counted, Shape
  <2>2. CASE HTTPServe
    BY <2>2 DEF HTTPServe, Counted, Shape
  <2>3. CASE Close
    BY <2>3 DEF Close, Counted, Shape
  <2>4. CASE HTTPClose
    BY <2>4 DEF HTTPClose, Counted, Shape
  <2>5. CASE UNCHANGED server
    BY <2>5
  <2> QED
    BY <2>1, <2>2, <2>3, <2>4, <2>5
    DEF Next, vars, Arrive, Admit, Open, Return, OnNotHeld, TakeNudge, CacheDrifts
<1>3. Lifecycle => ClosedStaysClosed
  BY DEF Lifecycle, ClosedStaysClosed
<1> QED
  BY <1>1, <1>2, <1>3, AlwaysCounted, PTL DEF Spec

-----------------------------------------------------------------------------
(* Drift: the safety half of DriftCorrected. *)

(***************************************************************************)
(* A re-announcement of the whole cache is on its way for p.               *)
(***************************************************************************)
Underway(p) == p \in telling \/ nudged

(***************************************************************************)
(* A 404 sets a re-announcement going, in the very step that answers it,   *)
(* and one that is going ends by the list that a scan finds then, or by an *)
(* attempt that failed.                                                    *)
(***************************************************************************)
CarriedThrough ==
  /\ \A h \in Handler :
       pc[h] = "open" /\ pc'[h] # "open" /\ ~Resolves(wanted[h]) => Underway(wanted[h])'
  /\ \A p \in Package : Underway(p) => Underway(p)' \/ announced' = files' \/ unsent'

(***************************************************************************)
(* OnNotHeld's request is never lost, even when it finds the nudge channel *)
(* full, the server closing, or the cache changing once more: it ends in   *)
(* an attempt to announce, and only one that fails leaves the tracker with *)
(* another list than a scan's.                                             *)
(***************************************************************************)
THEOREM ReannounceIsCarriedThrough == Spec => [][CarriedThrough]_vars
<1>1. Counted /\ [Next]_vars => [CarriedThrough]_vars
  <2> SUFFICES ASSUME Counted, Next PROVE CarriedThrough
    OBVIOUS
  <2>1. ASSUME NEW h \in Handler, pc[h] = "open", pc'[h] # "open", ~Resolves(wanted[h])
        PROVE  wanted[h] \in telling'
    BY <2>1 DEF Counted, Shape, Next, Serve, HTTPServe, Close, HTTPClose, Arrive, Admit,
                Open, Return, Done, OnNotHeld, TakeNudge, CacheDrifts, Go, handler
  <2>2. ASSUME NEW p \in Package, p \in telling \/ nudged
        PROVE  p \in telling' \/ nudged' \/ announced' = files' \/ unsent'
    <3>1. CASE UNCHANGED <<telling, nudged>>
      BY <2>2, <3>1
    <3>2. CASE TakeNudge
      BY <3>2 DEF TakeNudge
    <3>3. ASSUME NEW q \in Package, OnNotHeld(q)
          PROVE  nudged'
      BY <3>3 DEF OnNotHeld
    <3>4. ASSUME NEW h \in Handler, Open(h)
          PROVE  telling \subseteq telling' /\ nudged' = nudged
      BY <3>4 DEF Open
    <3>5. \/ UNCHANGED <<telling, nudged>>
          \/ TakeNudge
          \/ \E q \in Package : OnNotHeld(q)
          \/ \E h \in Handler : Open(h)
      BY DEF Next, Serve, HTTPServe, Close, HTTPClose, Arrive, Admit, Return, CacheDrifts, handler
    <3> QED
      BY <2>2, <3>1, <3>2, <3>3, <3>4, <3>5
  <2>3. ASSUME NEW h \in Handler, pc[h] = "open", pc'[h] # "open", ~Resolves(wanted[h])
        PROVE  Underway(wanted[h])'
    <3>1. wanted'[h] = wanted[h]
      BY <2>3 DEF Counted, Shape, Next, Serve, HTTPServe, Close, HTTPClose, Arrive, Admit,
                  Open, Return, Done, OnNotHeld, TakeNudge, CacheDrifts, Go, handler
    <3> QED
      BY <2>1, <2>3, <3>1 DEF Underway
  <2> QED
    BY <2>2, <2>3 DEF CarriedThrough, Underway
<1> QED
  BY <1>1, AlwaysCounted, PTL DEF Spec
=============================================================================
