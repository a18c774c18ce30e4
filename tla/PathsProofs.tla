---------------------------- MODULE PathsProofs ----------------------------
(***************************************************************************)
(* Proofs about Paths, for paths of any length over any segments.          *)
(*                                                                         *)
(* path.Clean is a recursive function on the length of the path, so the    *)
(* proofs need induction.  It is taken from the least element that every   *)
(* non-empty set of naturals has (WFMin), applied to the set of lengths    *)
(* where a claim fails.                                                    *)
(***************************************************************************)
EXTENDS Paths, NaturalsInduction, WellFoundedInduction, SequenceTheorems, TLAPS

(***************************************************************************)
(* A non-empty set of naturals has a least element: the induction of this  *)
(* module.                                                                 *)
(***************************************************************************)
LEMMA LeastElement ==
  ASSUME NEW T, T \subseteq Nat, T # {}
  PROVE  \E x \in T : \A y \in T : x <= y
<1>1. IsWellFoundedOn(OpToRel(<, Nat), Nat)
  BY NatLessThanWellFounded
<1>2. PICK x \in T : \A y \in T : ~ (<<y, x>> \in OpToRel(<, Nat))
  BY <1>1, WFMin
<1>3. \A y \in T : ~ (y < x)
  BY <1>2 DEF OpToRel
<1> QED BY <1>3

(* Induction up to a bound, for a claim given as the set where it holds. *)
LEMMA UpTo ==
  ASSUME NEW N \in Nat, NEW S, 0 \in S,
         \A n \in 0..N : n < N /\ n \in S => n + 1 \in S
  PROVE  0..N \subseteq S
<1> DEFINE T == (0..N) \ S
<1> SUFFICES ASSUME T # {} PROVE FALSE
  OBVIOUS
<1>1. T \subseteq Nat
  OBVIOUS
<1>2. PICK x \in T : \A y \in T : x <= y
  <2> HIDE DEF T
  <2> QED BY <1>1, LeastElement
<1>3. x \in 0..N /\ x # 0
  OBVIOUS
<1>4. x - 1 \in 0..N /\ x - 1 < N /\ x - 1 \notin T
  BY <1>2, <1>3
<1> QED BY <1>3, <1>4

-----------------------------------------------------------------------------
(***************************************************************************)
(* path.Clean.  The recursive equation has a solution (CleanedEquation),   *)
(* so Clean can be computed, and typed, one segment after the other.       *)
(***************************************************************************)
CleanedUpTo(p, n, g) ==
  g = [i \in 0..n |-> IF i = 0 THEN <<>> ELSE Resolve(g[i - 1], p[i])]

(***************************************************************************)
(* Cleaned(p) solves its own recursive equation, built up one segment at a *)
(* time, so its value can be reasoned about.                               *)
(***************************************************************************)
LEMMA CleanedEquation ==
  ASSUME NEW p, Len(p) \in Nat
  PROVE  CleanedUpTo(p, Len(p), Cleaned(p))
<1> DEFINE S == {n \in 0..Len(p) : \E g : CleanedUpTo(p, n, g)}
<1>1. 0 \in S
  <2> DEFINE g == [i \in 0..0 |-> <<>>]
  <2>1. CleanedUpTo(p, 0, g)
    BY DEF CleanedUpTo
  <2> QED BY <2>1
<1>2. ASSUME NEW n \in 0..Len(p), n < Len(p), n \in S
      PROVE  n + 1 \in S
  <2>1. PICK g : CleanedUpTo(p, n, g)
    BY <1>2
  <2> DEFINE h == [i \in 0..(n + 1) |-> IF i = n + 1 THEN Resolve(g[n], p[n + 1]) ELSE g[i]]
  <2>2. \A i \in 0..n : g[i] = IF i = 0 THEN <<>> ELSE Resolve(g[i - 1], p[i])
    BY <2>1 DEF CleanedUpTo
  <2>3. \A i \in 0..(n + 1) : h[i] = IF i = 0 THEN <<>> ELSE Resolve(h[i - 1], p[i])
    <3> SUFFICES ASSUME NEW i \in 0..(n + 1)
                 PROVE  h[i] = IF i = 0 THEN <<>> ELSE Resolve(h[i - 1], p[i])
      OBVIOUS
    <3>1. CASE i = n + 1
      <4>1. i # 0 /\ i - 1 = n /\ h[i - 1] = g[n]
        BY <3>1
      <4> QED BY <3>1, <4>1
    <3>2. CASE i # n + 1
      <4>1. h[i] = g[i] /\ i \in 0..n
        BY <3>2
      <4>2. i # 0 => h[i - 1] = g[i - 1]
        BY <3>2
      <4> QED BY <2>2, <4>1, <4>2
    <3> QED BY <3>1, <3>2
  <2>4. CleanedUpTo(p, n + 1, h)
    BY <2>3 DEF CleanedUpTo
  <2> QED BY <2>4, <1>2
<1>3. Len(p) \in S
  <2>1. Len(p) \in Nat /\ Len(p) \in 0..Len(p)
    OBVIOUS
  <2>2. 0..Len(p) \subseteq S
    <3> HIDE DEF S
    <3> QED BY <1>1, <1>2, <2>1, UpTo
  <2> QED BY <2>1, <2>2
<1>4. PICK g : CleanedUpTo(p, Len(p), g)
  BY <1>3
<1> QED BY <1>4 DEF CleanedUpTo, Cleaned

(***************************************************************************)
(* path.Clean, a segment at a time.                                        *)
(***************************************************************************)
LEMMA CleanedSteps ==
  ASSUME NEW p, Len(p) \in Nat
  PROVE  /\ Cleaned(p)[0] = <<>>
         /\ \A n \in 1..Len(p) : Cleaned(p)[n] = Resolve(Cleaned(p)[n - 1], p[n])
BY CleanedEquation DEF CleanedUpTo

(* What is left after cleaning: the segments that are a name. *)
Names == Segments \ {EmptySegment, Dot, DotDot}

(* The segments and directories the code names are all different. *)
LEMMA Distinct ==
  /\ EmptySegment # DotDot /\ Dot # DotDot
  /\ packageDir # hashedDir
  /\ {packageDir, hashedDir} \cap {EmptySegment, Dot, DotDot} = {}
BY DEF EmptySegment, Dot, DotDot, packageDir, hashedDir

(***************************************************************************)
(* One segment of path.Clean: no empty, dot or dot-dot segment is kept.    *)
(***************************************************************************)
LEMMA ResolveType ==
  ASSUME NEW done \in Seq(Names), NEW s \in Segments
  PROVE  Resolve(done, s) \in Seq(Names)
<1>1. CASE s \in {EmptySegment, Dot}
  BY <1>1, Distinct DEF Resolve
<1>2. CASE s \notin {EmptySegment, Dot} /\ s = DotDot
  <2>1. Resolve(done, s) = IF done = <<>> THEN done ELSE Front(done)
    BY <1>2 DEF Resolve
  <2>2. done # <<>> => Front(done) \in Seq(Names)
    BY DEF Front
  <2> QED BY <2>1, <2>2
<1>3. CASE s \notin {EmptySegment, Dot, DotDot}
  <2>1. Resolve(done, s) = Append(done, s)
    BY <1>3 DEF Resolve
  <2>2. s \in Names
    BY <1>3 DEF Names
  <2> QED BY <2>1, <2>2
<1> QED BY <1>1, <1>2, <1>3

(***************************************************************************)
(* A cleaned path holds names only, whatever went in.                      *)
(***************************************************************************)
LEMMA CleanType ==
  ASSUME NEW p \in Seq(Segments)
  PROVE  Clean(p) \in Seq(Names)
<1> DEFINE S == {n \in 0..Len(p) : Cleaned(p)[n] \in Seq(Names)}
<1>1. 0 \in S
  <2>1. Len(p) \in Nat /\ <<>> \in Seq(Names)
    OBVIOUS
  <2>2. Cleaned(p)[0] = <<>>
    BY <2>1, CleanedSteps
  <2>3. 0 \in 0..Len(p) /\ Cleaned(p)[0] \in Seq(Names)
    BY <2>1, <2>2
  <2> QED BY <2>3
<1>2. ASSUME NEW n \in 0..Len(p), n < Len(p), n \in S
      PROVE  n + 1 \in S
  <2>1. Len(p) \in Nat /\ p[n + 1] \in Segments /\ n + 1 \in 1..Len(p)
    BY <1>2
  <2>2. Cleaned(p)[n + 1] = Resolve(Cleaned(p)[n], p[n + 1])
    BY <2>1, CleanedSteps
  <2>3. Cleaned(p)[n] \in Seq(Names)
    BY <1>2
  <2>4. Cleaned(p)[n + 1] \in Seq(Names)
    BY <2>1, <2>2, <2>3, ResolveType
  <2> QED BY <2>1, <2>4
<1>3. Len(p) \in S
  <2>1. Len(p) \in Nat /\ Len(p) \in 0..Len(p)
    OBVIOUS
  <2>2. 0..Len(p) \subseteq S
    <3> HIDE DEF S
    <3> QED BY <1>1, <1>2, <2>1, UpTo
  <2> QED BY <2>1, <2>2
<1> QED BY <1>3 DEF Clean

-----------------------------------------------------------------------------
(* A request path is always a sequence of segments. *)
LEMMA PathTyped ==
  Spec => [](path \in Seq(Segments))
<1>1. Init => path \in Seq(Segments)
  BY DEF Init
<1>2. path \in Seq(Segments) /\ [Next]_path => (path \in Seq(Segments))'
  BY DEF Next, Extend
<1> QED BY <1>1, <1>2, PTL DEF Spec

(***************************************************************************)
(* What upstreamURL puts together stays under the base path, for every     *)
(* request path, dot segments in any number and place included, and every  *)
(* base path.                                                              *)
(***************************************************************************)
THEOREM ContainedAlways == Spec => []Contained
<1>1. ASSUME path \in Seq(Segments)
      PROVE  Contained
  <2> DEFINE b == Clean(Base)
             c == Clean(path)
             u == upstreamURL(Base, path)
  <2>1. b \in Seq(Names) /\ c \in Seq(Names)
    BY <1>1, PathsAssumption, CleanType
  <2>2. u = b \o c
    BY DEF upstreamURL
  <2> HIDE DEF b, c, u
  <2>3. /\ u \in Seq(Names) /\ Len(u) = Len(b) + Len(c)
        /\ \A i \in 1..Len(b) : u[i] = b[i]
    BY <2>1, <2>2
  <2>4. IsPrefix(b, u)
    <3>1. Len(b) \in Nat /\ Len(c) \in Nat /\ Len(b) <= Len(u)
      BY <2>1, <2>3
    <3>2. SubSeq(b, 1, Len(b)) = SubSeq(u, 1, Len(b))
      BY <2>1, <2>3, <3>1
    <3> QED BY <3>1, <3>2 DEF IsPrefix
  <2>5. {EmptySegment, Dot, DotDot} \cap ToSet(u) = {}
    <3>1. ToSet(u) \subseteq Names
      BY <2>3 DEF ToSet
    <3> QED BY <3>1 DEF Names
  <2> QED BY <2>4, <2>5 DEF Contained, b, u
<1> QED BY <1>1, PathTyped, PTL

-----------------------------------------------------------------------------
(* LastIndex finds the last occurrence of x, or 0 when there is none. *)
LEMMA LastIndexOf ==
  ASSUME NEW T, NEW s \in Seq(T), NEW x
  PROVE  /\ LastIndex(s, x) \in 0..Len(s)
         /\ LastIndex(s, x) # 0 => s[LastIndex(s, x)] = x
         /\ \A i \in 1..Len(s) : s[i] = x => i <= LastIndex(s, x)
<1> DEFINE I  == {i \in 1..Len(s) : s[i] = x}
           at == LastIndex(s, x)
<1>1. at = IF I # {} THEN Max(I) ELSE 0
  BY DEF LastIndex, SelectLastInSeq
<1>2. Len(s) \in Nat
  OBVIOUS
<1>3. CASE I = {}
  <2>1. at = 0
    BY <1>1, <1>3
  <2>2. \A i \in 1..Len(s) : s[i] # x
    BY <1>3
  <2> QED BY <1>2, <2>1, <2>2
<1>4. CASE I # {}
  <2> DEFINE D == {Len(s) - i : i \in I}
  <2>1. D \subseteq Nat /\ D # {}
    BY <1>2, <1>4
  <2>2. PICK d \in D : \A e \in D : d <= e
    <3> HIDE DEF D
    <3> QED BY <2>1, LeastElement
  <2>3. PICK m \in I : d = Len(s) - m
    BY <2>2
  <2>4. ASSUME NEW i \in I
        PROVE  i <= m
    <3>1. d <= Len(s) - i
      BY <2>2
    <3> QED BY <1>2, <2>3, <3>1
  <2>5. \E k \in I : \A i \in I : k >= i
    BY <2>4
  <2>6. Max(I) \in I /\ \A i \in I : Max(I) >= i
    BY <2>5 DEF Max
  <2>7. at = Max(I)
    BY <1>1, <1>4
  <2>8. at \in I /\ \A i \in I : at >= i
    BY <2>6, <2>7
  <2>9. at \in 1..Len(s) /\ s[at] = x
    BY <2>8
  <2>10. \A i \in 1..Len(s) : s[i] = x => i <= at
    BY <1>2, <2>8, <2>9
  <2> QED BY <1>2, <2>9, <2>10
<1> QED BY <1>3, <1>4
(* What follows the last All is one file exactly when the path names a file *)
(* of All or All/Hashed, and then it is the last segment.                   *)
InPackageDir(u) ==
  \E n \in {1, 2} :
    /\ Len(u) > n /\ u[Len(u) - n] = packageDir
    /\ n = 2 => u[Len(u) - 1] = hashedDir
    /\ Last(u) # packageDir

(***************************************************************************)
(* Classification's search for the last All and its one element after it   *)
(* say the same as the path's last three segments do: the file stands in   *)
(* All, or in the Hashed directory of All, and it is the path's last       *)
(* segment.                                                                *)
(***************************************************************************)
LEMMA OneFileAfterAll ==
  ASSUME NEW T, NEW u \in Seq(T)
  PROVE  /\ Len(AfterAll(u)) = 1 <=> InPackageDir(u)
         /\ Len(AfterAll(u)) = 1 => u # <<>> /\ AfterAll(u)[1] = Last(u)
<1> DEFINE N    == Len(u)
           at   == LastIndex(u, packageDir)
           rest == SubSeq(u, at + 1, N)
<1>1. /\ N \in Nat /\ at \in 0..N
      /\ at # 0 => u[at] = packageDir
      /\ \A i \in 1..N : u[i] = packageDir => i <= at
  BY LastIndexOf
<1>2. /\ rest \in Seq(T) /\ Len(rest) = N - at
      /\ \A i \in 1..(N - at) : rest[i] = u[at + i]
  <2>1. \A i \in (at + 1)..N : u[i] \in T
    BY <1>1
  <2> HIDE DEF at
  <2> QED BY <1>1, <2>1, SubSeqProperties
<1>3. AfterAll(u) = CASE at = 0 -> <<>>
                      [] at # 0 /\ Len(rest) = 2 /\ rest[1] = hashedDir -> Tail(rest)
                      [] OTHER -> rest
  BY DEF AfterAll
<1> HIDE DEF at, rest
<1>4. CASE at = 0
  <2>1. Len(AfterAll(u)) = 0
    BY <1>3, <1>4
  <2>2. ~InPackageDir(u)
    BY <1>1, <1>4 DEF InPackageDir
  <2> QED BY <2>1, <2>2
<1>5. CASE at # 0 /\ Len(rest) = 2 /\ rest[1] = hashedDir
  <2>1. AfterAll(u) = Tail(rest)
    BY <1>3, <1>5
  <2>2. at = N - 2 /\ N > 2 /\ u[N - 1] = hashedDir /\ rest[2] = u[N]
    <3>0. N - at = 2 /\ at # 0
      BY <1>2, <1>5
    <3>1. at = N - 2 /\ N > 2
      BY <1>1, <3>0
    <3>2. rest[1] = u[at + 1] /\ rest[2] = u[at + 2]
      BY <1>1, <1>2, <3>1
    <3>3. at + 1 = N - 1 /\ at + 2 = N
      BY <1>1, <3>1
    <3> QED BY <1>5, <3>1, <3>2, <3>3
  <2>3. u[N - 2] = packageDir /\ u[N] # packageDir
    BY <1>1, <2>2
  <2>4. InPackageDir(u)
    BY <1>1, <2>2, <2>3 DEF Last, InPackageDir
  <2>5. Len(AfterAll(u)) = 1 /\ AfterAll(u)[1] = u[N]
    <3>1. rest # <<>> /\ rest \in Seq(T) /\ Len(rest) = 2
      <4>1. rest \in Seq(T)
        BY <1>2
      <4>2. Len(rest) = 2
        BY <1>5
      <4> QED BY <4>1, <4>2, EmptySeq
    <3>2. /\ Len(Tail(rest)) = Len(rest) - 1
          /\ \A i \in 1..Len(Tail(rest)) : Tail(rest)[i] = rest[i + 1]
      BY <1>2, <3>1, HeadTailProperties
    <3>3. Len(Tail(rest)) = 1
      BY <3>1, <3>2
    <3>4. Tail(rest)[1] = rest[1 + 1]
      BY <3>2, <3>3
    <3> QED BY <2>1, <2>2, <3>3, <3>4
  <2> QED BY <2>2, <2>4, <2>5 DEF Last
<1>6. CASE at # 0 /\ ~(Len(rest) = 2 /\ rest[1] = hashedDir)
  <2>1. AfterAll(u) = rest
    BY <1>3, <1>6
  <2>2. ASSUME N - at = 1
        PROVE  InPackageDir(u) /\ u # <<>> /\ rest[1] = Last(u)
    <3>1. at = N - 1 /\ N > 1 /\ rest[1] = u[N]
      BY <1>1, <1>2, <1>6, <2>2
    <3>2. u[N - 1] = packageDir /\ u[N] # packageDir
      BY <1>1, <3>1
    <3>3. InPackageDir(u)
      BY <1>1, <3>1, <3>2 DEF Last, InPackageDir
    <3> QED BY <3>1, <3>3 DEF Last
  <2>3. ASSUME InPackageDir(u)
        PROVE  N - at = 1
    <3>1. PICK n \in {1, 2} : /\ N > n /\ u[N - n] = packageDir
                              /\ n = 2 => u[N - 1] = hashedDir
                              /\ u[N] # packageDir
      BY <2>3 DEF InPackageDir, Last
    <3>2. N - n <= at /\ at # N
      BY <1>1, <1>6, <3>1
    <3>3. CASE n = 1
      BY <1>1, <3>2, <3>3
    <3>4. CASE n = 2
      <4>1. u[N - 1] = hashedDir /\ hashedDir # packageDir
        BY <3>1, <3>4, Distinct
      <4>2. at # N - 1
        BY <1>1, <1>6, <4>1
      <4>3. at = N - 2
        BY <1>1, <3>2, <3>4, <4>2
      <4>4. Len(rest) = 2 /\ rest[1] = u[N - 1]
        BY <1>1, <1>2, <4>3
      <4> QED BY <1>6, <4>1, <4>4
    <3> QED BY <3>3, <3>4
  <2> QED BY <1>2, <2>1, <2>2, <2>3
<1> QED BY <1>4, <1>5, <1>6

(***************************************************************************)
(* What classification answers: a package exactly when one file with the   *)
(* extension is left, under the name parsePackageName gives it.            *)
(***************************************************************************)
LEMMA ClassifyOk ==
  ASSUME NEW rest
  PROVE  /\ Classify(rest).ok <=> Len(rest) = 1 /\ Last(rest[1]) = Ext
         /\ Classify(rest).nameVersion # <<>> =>
              /\ Classify(rest).ok
              /\ Classify(rest).nameVersion = NameVersion(parsePackageName(rest[1]))
<1>1. CASE Len(rest) # 1 \/ Last(rest[1]) # Ext
  BY <1>1 DEF Classify, NotAPackage
<1>2. CASE ~(Len(rest) # 1 \/ Last(rest[1]) # Ext)
  <2> DEFINE pkg == parsePackageName(rest[1])
  <2>1. Classify(rest) =
          [ok |-> TRUE,
           nameVersion |-> IF isValidNameVersionFormat(pkg) THEN NameVersion(pkg) ELSE <<>>]
    BY <1>2 DEF Classify
  <2> HIDE DEF pkg
  <2> QED BY <1>2, <2>1 DEF pkg
<1> QED BY <1>1, <1>2

(***************************************************************************)
(* packageRequest and upstreamURL read a path alike, for every request     *)
(* path and every base path: what is classified as a package is a package  *)
(* file of the mirror and is fetched as that package, and no such file is  *)
(* relayed as metadata.                                                    *)
(***************************************************************************)
THEOREM OneReadingAlways == Spec => []OneReading
<1>1. ASSUME path \in Seq(Segments)
      PROVE  OneReading
  <2> DEFINE b == Clean(Base)
             c == Clean(path)
             u == upstreamURL(Base, path)
             r == packageRequest(path)
  <2>1. b \in Seq(Names) /\ c \in Seq(Names)
    BY <1>1, PathsAssumption, CleanType
  <2>2. u = b \o c /\ r = Classify(AfterAll(c))
    BY DEF upstreamURL, packageRequest
  <2> HIDE DEF b, c, u, r
  <2>3. /\ Len(AfterAll(c)) = 1 <=> InPackageDir(c)
        /\ Len(AfterAll(c)) = 1 => c # <<>> /\ AfterAll(c)[1] = Last(c)
    BY <2>1, OneFileAfterAll
  <2>4. r.ok <=> UnderAll(c)
    <3>1. UnderAll(c) <=> InPackageDir(c) /\ Last(Last(c)) = Ext
      BY DEF UnderAll, InPackageDir
    <3> QED BY <2>2, <2>3, <3>1, ClassifyOk
  <2>5. c # <<>> => Last(u) = Last(c)
    BY <2>1, <2>2 DEF Last
  <2>6. r.nameVersion # <<>> => NameVersion(parsePackageName(Last(u))) = r.nameVersion
    BY <2>2, <2>3, <2>5, ClassifyOk
  <2> QED BY <2>4, <2>6 DEF OneReading, c, u, r
<1> QED BY <1>1, PathTyped, PTL

-----------------------------------------------------------------------------
(* Names in which nothing has to be resolved are left alone. *)
LEMMA ResolveName ==
  ASSUME NEW done, NEW s \in Names
  PROVE  Resolve(done, s) = Append(done, s)
BY DEF Resolve, Names

(***************************************************************************)
(* Cleaning a path that is made of names changes nothing.                  *)
(***************************************************************************)
LEMMA CleanNames ==
  ASSUME NEW p \in Seq(Names)
  PROVE  Clean(p) = p
<1> DEFINE S == {n \in 0..Len(p) : Cleaned(p)[n] = SubSeq(p, 1, n)}
<1>1. Len(p) \in Nat /\ Len(p) \in 0..Len(p)
  OBVIOUS
<1>2. 0 \in S
  <2>1. Cleaned(p)[0] = <<>>
    BY <1>1, CleanedSteps
  <2>2. SubSeq(p, 1, 0) = <<>>
    BY SubSeqEmpty
  <2>3. 0 \in 0..Len(p)
    BY <1>1
  <2> QED BY <2>1, <2>2, <2>3
<1>3. ASSUME NEW n \in 0..Len(p), n < Len(p), n \in S
      PROVE  n + 1 \in S
  <2>1. n + 1 \in 1..Len(p) /\ (n + 1) - 1 = n /\ p[n + 1] \in Names
    BY <1>1, <1>3
  <2>2. Cleaned(p)[n + 1] = Resolve(Cleaned(p)[n], p[n + 1])
    BY <1>1, <2>1, CleanedSteps
  <2>3. Cleaned(p)[n + 1] = Append(SubSeq(p, 1, n), p[n + 1])
    BY <1>3, <2>1, <2>2, ResolveName
  <2>4. SubSeq(p, 1, n) \in Seq(Names)
    <3>1. \A i \in 1..n : p[i] \in Names
      BY <1>1
    <3> QED BY <3>1, SubSeqProperties
  <2>5. SubSeq(p, 1, n + 1) = SubSeq(p, 1, n) \o <<p[n + 1]>>
    <3>1. 1 \in 1..Len(p) /\ n + 1 \in 1..Len(p)
      BY <1>1, <2>1
    <3>2. SubSeq(p, 1, n + 1) = SubSeq(p, 1, (n + 1) - 1) \o <<p[n + 1]>>
      BY <3>1, SubSeqRecursiveSecond
    <3> QED BY <2>1, <3>2
  <2>6. Cleaned(p)[n + 1] = SubSeq(p, 1, n + 1)
    BY <2>1, <2>3, <2>4, <2>5, AppendIsConcat
  <2> QED BY <2>1, <2>6
<1>4. Cleaned(p)[Len(p)] = SubSeq(p, 1, Len(p))
  <2>1. 0..Len(p) \subseteq S
    <3> HIDE DEF S
    <3> QED BY <1>1, <1>2, <1>3, UpTo
  <2> QED BY <1>1, <2>1
<1> QED BY <1>4, SubSeqFull DEF Clean

(* Taking a suffix off keeps a sequence of tokens; putting it back on and   *)
(* taking it off again changes nothing.                                     *)
LEMMA TrimSuffixType ==
  ASSUME NEW s \in Seq(STRING), NEW t
  PROVE  TrimSuffix(s, t) \in Seq(STRING)
<1>1. s # <<>> => Front(s) \in Seq(STRING)
  <2>1. Len(s) \in Nat /\ \A i \in 1..(Len(s) - 1) : s[i] \in STRING
    OBVIOUS
  <2> QED BY <2>1, SubSeqProperties DEF Front
<1> QED BY <1>1 DEF TrimSuffix

(***************************************************************************)
(* TrimSuffix takes off a suffix that was put on.                          *)
(***************************************************************************)
LEMMA TrimSuffixAppend ==
  ASSUME NEW S, NEW s \in Seq(S), NEW t
  PROVE  TrimSuffix(Append(s, t), t) = s
<1> DEFINE T == S \cup {t}
<1> t \in T /\ s \in Seq(T)
  BY SeqMonotonic
<1> HIDE DEF T
<1>0. Len(s) \in Nat
  OBVIOUS
<1>1. /\ Append(s, t) \in Seq(T) /\ Append(s, t) # <<>>
      /\ Len(Append(s, t)) = Len(s) + 1
      /\ Append(s, t)[Len(s) + 1] = t
      /\ \A i \in 1..Len(s) : Append(s, t)[i] = s[i]
  BY AppendProperties
<1>2. TrimSuffix(Append(s, t), t) = SubSeq(Append(s, t), 1, Len(s))
  BY <1>0, <1>1 DEF TrimSuffix, Last, Front
<1>3. SubSeq(Append(s, t), 1, Len(s)) = s
  <2>2. /\ SubSeq(Append(s, t), 1, Len(s)) \in Seq(T)
        /\ Len(SubSeq(Append(s, t), 1, Len(s))) = Len(s)
        /\ \A i \in 1..Len(s) : SubSeq(Append(s, t), 1, Len(s))[i] = s[i]
    BY <1>0, <1>1
  <2> QED BY <2>2, SeqEqual
<1> QED BY <1>2, <1>3

(* What is left of a file name once the extension and the hash are off. *)
Stem(file) == TrimSuffix(TrimSuffix(file, Ext), Hash)

(***************************************************************************)
(* A stem is a sequence of tokens again.                                   *)
(***************************************************************************)
LEMMA StemType ==
  ASSUME NEW file \in Seq(STRING)
  PROVE  Stem(file) \in Seq(STRING)
BY TrimSuffixType DEF Stem

(* parsePackageName looks at nothing but the stem. *)
LEMMA ParsedByStem ==
  ASSUME NEW f, NEW g, Stem(f) = Stem(g)
  PROVE  parsePackageName(f) = parsePackageName(g)
BY DEF parsePackageName, Stem

(* A sequence cut in three at an element is those three parts joined. *)
LEMMA CutAndJoin ==
  ASSUME NEW T, NEW s \in Seq(T), NEW at \in 1..Len(s)
  PROVE  SubSeq(s, 1, at - 1) \o <<s[at]>> \o SubSeq(s, at + 1, Len(s)) = s
<1> DEFINE N == Len(s)
<1>1. N \in Nat /\ at \in 1..N
  OBVIOUS
<1>2. SubSeq(s, 1, at) = SubSeq(s, 1, at - 1) \o <<s[at]>>
  BY <1>1, SubSeqRecursiveSecond
<1>3. SubSeq(s, 1, at) \o SubSeq(s, at + 1, N) = SubSeq(s, 1, N)
  BY <1>1, ConcatAdjacentSubSeq
<1>4. SubSeq(s, 1, N) = s
  BY SubSeqFull
<1> QED BY <1>2, <1>3, <1>4

(* A name and a version join to the stem they were split from. *)
LEMMA ParseRejoins ==
  ASSUME NEW file \in Seq(STRING), isValidNameVersionFormat(parsePackageName(file))
  PROVE  /\ NameVersion(parsePackageName(file)) = Stem(file)
         /\ Len(Stem(file)) > 1
<1> DEFINE base == Stem(file)
           N    == Len(base)
           at   == LastIndex(base, Hyphen)
           ver  == SubSeq(base, at + 1, N)
           name == SubSeq(base, 1, at - 1)
           pkg  == parsePackageName(file)
<1>1. base \in Seq(STRING) /\ N \in Nat
  BY StemType
<1>2. at \in 0..N /\ (at # 0 => base[at] = Hyphen)
  BY <1>1, LastIndexOf
<1>3. pkg = IF at = 0 \/ ver = <<>> \/ Head(ver) \notin Digits
            THEN [name |-> base, version |-> <<>>]
            ELSE [name |-> name, version |-> ver]
  BY DEF parsePackageName, Stem
<1> HIDE DEF base, at, ver, name, pkg
<1>4. pkg.version # <<>> /\ pkg.name # <<>>
  BY DEF isValidNameVersionFormat, pkg
<1>5. at # 0 /\ ver # <<>> /\ pkg.name = name /\ pkg.version = ver
  BY <1>3, <1>4
<1>6. name \o <<Hyphen>> \o ver = base
  <2>1. at \in 1..Len(base) /\ base[at] = Hyphen
    BY <1>1, <1>2, <1>5
  <2> QED BY <1>1, <2>1, CutAndJoin DEF name, ver
<1>7. N > 1
  <2>1. CASE N = at
    BY <1>1, <1>2, <1>5, <2>1, SubSeqEmpty DEF ver
  <2>2. CASE N > at
    BY <1>1, <1>2, <1>5, <2>2
  <2> QED BY <1>1, <1>2, <2>1, <2>2
<1> QED BY <1>5, <1>6, <1>7 DEF NameVersion, pkg, base

(***************************************************************************)
(* Sequences of different lengths differ.                                  *)
(***************************************************************************)
LEMMA LongerDiffers ==
  ASSUME NEW s, NEW t, Len(s) > 1, Len(t) \in {0, 1}
  PROVE  s # t
<1>1. \A n \in {0, 1} : ~(n > 1)
  OBVIOUS
<1>2. Len(s) # Len(t)
  BY <1>1, Zenon
<1> QED BY <1>2, Zenon

(* A file of All or All/Hashed is read as the package its name parses to. *)
LEMMA RequestOfFile ==
  ASSUME NEW u \in Seq(Names), InPackageDir(u), Last(Last(u)) = Ext,
         isValidNameVersionFormat(parsePackageName(Last(u)))
  PROVE  packageRequest(u) =
           [ok |-> TRUE, nameVersion |-> NameVersion(parsePackageName(Last(u)))]
<1>1. packageRequest(u) = Classify(AfterAll(u))
  BY CleanNames DEF packageRequest
<1>2. Len(AfterAll(u)) = 1 /\ AfterAll(u)[1] = Last(u)
  BY OneFileAfterAll
<1> QED BY <1>1, <1>2 DEF Classify

(***************************************************************************)
(* The name a cached file is announced by, the path a peer is asked by and *)
(* the name the seed server opens are one identity, for every file name.   *)
(***************************************************************************)
THEOREM OneIdentityAlways == Spec => []OneIdentity
<1>1. ASSUME path \in Seq(Segments), path # <<>>, Last(path) # <<>>,
             Last(Last(path)) = Ext,
             isValidNameVersionFormat(parsePackageName(Last(path)))
      PROVE  OneIdentity
  <2> DEFINE file   == Last(path)
             listed == NameVersion(parsePackageName(file))
             asked  == packagePath(peerPath(listed))
             opened == cacheFileName(asked.name)
  <2>1. file \in Segments /\ file \in Seq(STRING)
    BY <1>1, PathsAssumption DEF Last
  <2>2. file \notin {EmptySegment, Dot, DotDot, packageDir}
    BY <1>1 DEF EmptySegment, Dot, DotDot, packageDir, Last, Ext
  <2>3. {file, packageDir, hashedDir} \subseteq Names
    BY <2>1, <2>2, PathsAssumption, Distinct DEF Names
  <2>4. listed = Stem(file) /\ Len(listed) > 1 /\ listed \in Seq(STRING)
    BY <1>1, <2>1, ParseRejoins, StemType
  <2>5. packageRequest(<<packageDir, file>>) = [ok |-> TRUE, nameVersion |-> listed]
    <3> DEFINE u == <<packageDir, file>>
    <3>1. /\ u \in Seq(Names) /\ Len(u) = 2
          /\ u[1] = packageDir /\ u[2] = file
      BY <2>3
    <3> HIDE DEF u
    <3>2. Last(u) = file
      BY <3>1 DEF Last
    <3>3. InPackageDir(u)
      BY <2>2, <3>1, <3>2 DEF InPackageDir
    <3>4. packageRequest(u) = [ok |-> TRUE, nameVersion |-> listed]
      BY <1>1, <3>1, <3>2, <3>3, RequestOfFile
    <3> QED BY <3>4 DEF u
  <2>6. packageRequest(<<packageDir, hashedDir, file>>) = [ok |-> TRUE, nameVersion |-> listed]
    <3> DEFINE u == <<packageDir, hashedDir, file>>
    <3>1. /\ u \in Seq(Names) /\ Len(u) = 3
          /\ u[1] = packageDir /\ u[2] = hashedDir /\ u[3] = file
      BY <2>3
    <3> HIDE DEF u
    <3>2. Last(u) = file
      BY <3>1 DEF Last
    <3>3. InPackageDir(u)
      BY <2>2, <3>1, <3>2 DEF InPackageDir
    <3>4. packageRequest(u) = [ok |-> TRUE, nameVersion |-> listed]
      BY <1>1, <3>1, <3>2, <3>3, RequestOfFile
    <3> QED BY <3>4 DEF u
  <2> HIDE DEF file, listed
  <2>7. listed \notin {EmptySegment, Dot, DotDot}
    <3>1. Len(EmptySegment) = 0 /\ Len(Dot) = 1 /\ Len(DotDot) = 1
      BY DEF EmptySegment, Dot, DotDot
    <3> QED BY <2>4, <3>1, LongerDiffers
  <2>8. asked = [ok |-> TRUE, name |-> listed]
    BY <2>7 DEF packagePath, peerPath
  <2>9. opened = [ok |-> TRUE, name |-> Append(listed, Ext)]
    BY <2>7, <2>8 DEF cacheFileName
  <2>10. Append(listed, Ext) = Unsuffixed(file)
    BY <2>4 DEF Unsuffixed, Stem
  <2>11. ASSUME Last(listed) # Hash
         PROVE  NameVersion(parsePackageName(Append(listed, Ext))) = listed
    <3>1. TrimSuffix(Append(listed, Ext), Ext) = listed
      BY <2>4, TrimSuffixAppend
    <3>2. TrimSuffix(listed, Hash) = listed
      BY <2>11 DEF TrimSuffix
    <3>3. Stem(Append(listed, Ext)) = Stem(file)
      BY <2>4, <3>1, <3>2 DEF Stem
    <3> QED BY <3>3, ParsedByStem DEF listed
  <2> QED BY <2>5, <2>6, <2>8, <2>9, <2>10, <2>11 DEF OneIdentity, file, listed
<1>2. ASSUME path \in Seq(Segments)
      PROVE  OneIdentity
  BY <1>1, <1>2 DEF OneIdentity
<1> QED BY <1>2, PathTyped, PTL
=============================================================================
