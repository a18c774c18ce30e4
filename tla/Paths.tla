------------------------------- MODULE Paths -------------------------------
(***************************************************************************)
(* From a request path to a package, a mirror URL or a cached file: the    *)
(* pure functions the facade, the seed server and the cache watcher share. *)
(*                                                                         *)
(* A path is the sequence of its segments (what lies between the slashes), *)
(* a segment a sequence of tokens: what matters of a file name is where    *)
(* its hyphens are, whether a part starts with a digit, and whether the    *)
(* "~hash10" suffix and the extension are there.                           *)
(***************************************************************************)
EXTENDS Naturals, Sequences, SequencesExt

CONSTANTS Segments,  \* the segments a request may be made of
          Base,      \* the path of upstream_url
          MaxDepth

VARIABLES path       \* the path of a request

Ext    == ".pkg"
Hash   == "~hash10"
Hyphen == "-"
Digits == {"1", "2"}

EmptySegment == <<>>
Dot          == <<".">>
DotDot       == <<"..">>
packageDir   == <<"All">>
hashedDir    == <<"Hashed">>
peerDir      == <<"pkg">>

ASSUME PathsAssumption ==
  /\ MaxDepth \in Nat /\ Segments \subseteq Seq(STRING) /\ Base \in Seq(Segments)
  /\ {EmptySegment, Dot, DotDot, packageDir, hashedDir} \subseteq Segments

(***************************************************************************)
(* path.Clean of a rooted path, segment by segment: Cleaned(p)[n] is what  *)
(* the first n segments come to.                                           *)
(***************************************************************************)
Resolve(done, s) ==
  CASE s \in {EmptySegment, Dot} -> done
    [] s = DotDot -> IF done = <<>> THEN done ELSE Front(done)
    [] OTHER -> Append(done, s)

Cleaned(p) ==
  LET c[n \in 0..Len(p)] == IF n = 0 THEN <<>> ELSE Resolve(c[n - 1], p[n])
  IN c

Clean(p) == Cleaned(p)[Len(p)]

LastIndex(s, t) == SelectLastInSeq(s, LAMBDA x : x = t)

TrimSuffix(s, t) == IF s # <<>> /\ Last(s) = t THEN Front(s) ELSE s

(***************************************************************************)
(* parsePackageName: the extension and then the hash are stripped; the     *)
(* last hyphen splits if a digit follows it.                               *)
(***************************************************************************)
BugKeepsHash(file) ==
  LET base == TrimSuffix(file, Ext)
      at   == LastIndex(base, Hyphen)
      ver  == SubSeq(base, at + 1, Len(base))
  IN IF at = 0 \/ ver = <<>> \/ Head(ver) \notin Digits
     THEN [name |-> base, version |-> <<>>]
     ELSE [name |-> SubSeq(base, 1, at - 1), version |-> ver]

parsePackageName(file) ==
  LET base == TrimSuffix(TrimSuffix(file, Ext), Hash)
      at   == LastIndex(base, Hyphen)
      ver  == SubSeq(base, at + 1, Len(base))
  IN IF at = 0 \/ ver = <<>> \/ Head(ver) \notin Digits
     THEN [name |-> base, version |-> <<>>]
     ELSE [name |-> SubSeq(base, 1, at - 1), version |-> ver]

isValidNameVersionFormat(pkg) == pkg.name # <<>> /\ pkg.version # <<>>
NameVersion(pkg) == pkg.name \o <<Hyphen>> \o pkg.version

(***************************************************************************)
(* packageRequest: what follows the last All, with Hashed taken off, is    *)
(* one file with the extension.  An empty name-version is answered 400.    *)
(***************************************************************************)
NotAPackage == [ok |-> FALSE, nameVersion |-> <<>>]

AfterAll(segs) ==
  LET at   == LastIndex(segs, packageDir)
      rest == SubSeq(segs, at + 1, Len(segs))
  IN CASE at = 0 -> <<>>
       [] at # 0 /\ Len(rest) = 2 /\ rest[1] = hashedDir -> Tail(rest)
       [] OTHER -> rest

Classify(rest) ==
  IF Len(rest) # 1 \/ Last(rest[1]) # Ext THEN NotAPackage
  ELSE LET pkg == parsePackageName(rest[1])
       IN [ok |-> TRUE,
           nameVersion |-> IF isValidNameVersionFormat(pkg) THEN NameVersion(pkg) ELSE <<>>]

BugNotCleaned(p) == Classify(AfterAll(SelectSeq(p, LAMBDA s : s # EmptySegment)))

packageRequest(p) == Classify(AfterAll(Clean(p)))

(***************************************************************************)
(* upstreamURL: both halves are cleaned before they are joined.            *)
(***************************************************************************)
BugJoinThenClean(base, p) == Clean(base \o p)

upstreamURL(base, p) == Clean(base) \o Clean(p)

(***************************************************************************)
(* The peer wire: the path FetchFromPeer asks for, the name packagePath    *)
(* finds in it, and the file cacheFileName opens for it.                   *)
(***************************************************************************)
peerPath(nameVersion) == <<peerDir, nameVersion>>

Refused == [ok |-> FALSE, name |-> <<>>]

packagePath(p) ==
  IF Len(p) = 2 /\ p[1] = peerDir /\ p[2] # EmptySegment THEN [ok |-> TRUE, name |-> p[2]] ELSE Refused

cacheFileName(nameVersion) ==
  IF nameVersion \in {EmptySegment, Dot, DotDot} THEN Refused
  ELSE [ok |-> TRUE, name |-> Append(nameVersion, Ext)]

-----------------------------------------------------------------------------
Init == path = <<>>

(* Every path up to MaxDepth is reached. *)
Extend == Len(path) < MaxDepth /\ \E s \in Segments : path' = Append(path, s)

Next == Extend

Spec == Init /\ [][Next]_path

-----------------------------------------------------------------------------
(***************************************************************************)
(* Whatever path a client sends, the URL fetched from the mirror lies      *)
(* under the configured base, with no dot segment left for the mirror to   *)
(* resolve (upstreamURL; the base itself may carry dots).                  *)
(***************************************************************************)
Contained ==
  LET u == upstreamURL(Base, path)
  IN IsPrefix(Clean(Base), u) /\ {EmptySegment, Dot, DotDot} \cap ToSet(u) = {}

(* A file in All, or in the Hashed directory of All. *)
UnderAll(u) ==
  \E n \in {1, 2} :
    /\ Len(u) > n /\ u[Len(u) - n] = packageDir
    /\ n = 2 => u[Len(u) - 1] = hashedDir
    /\ Last(u) # packageDir /\ Last(Last(u)) = Ext

(***************************************************************************)
(* The facade's two readings of a path agree.  A path taken for a package  *)
(* makes the mirror fetch that package's file out of All or All/Hashed,    *)
(* and what is relayed as metadata is never such a file: bytes that no     *)
(* catalogue row verifies reach pkg only for metadata (packageRequest and  *)
(* upstreamURL clean the same raw path independently).                     *)
(***************************************************************************)
OneReading ==
  LET r == packageRequest(path)
      u == upstreamURL(Base, path)
  IN /\ Clean(path) # <<>> => (r.ok <=> UnderAll(Clean(path)))
     /\ r.nameVersion # <<>> => NameVersion(parsePackageName(Last(u))) = r.nameVersion

(* The plain name pkg links beside a cached file. *)
Unsuffixed(file) == Append(TrimSuffix(TrimSuffix(file, Ext), Hash), Ext)

(***************************************************************************)
(* One identity from end to end.  The name the watcher announces for a     *)
(* cached file, suffixed or not, is the one a facade derives from either   *)
(* mirror path of it; asked for over the peer wire, it opens the           *)
(* unsuffixed name beside that file.  That name parses to itself unless    *)
(* the file carried the suffix twice: cksumSuffix strips one, and the name *)
(* that is left would lose the other when it is read again.                *)
(***************************************************************************)
OneIdentity ==
  (path # <<>> /\ Last(path) # <<>> /\ Last(Last(path)) = Ext
     /\ isValidNameVersionFormat(parsePackageName(Last(path)))) =>
    LET file   == Last(path)
        listed == NameVersion(parsePackageName(file))
        asked  == packagePath(peerPath(listed))
        opened == cacheFileName(asked.name)
    IN /\ packageRequest(<<packageDir, file>>) = [ok |-> TRUE, nameVersion |-> listed]
       /\ packageRequest(<<packageDir, hashedDir, file>>) = [ok |-> TRUE, nameVersion |-> listed]
       /\ asked = [ok |-> TRUE, name |-> listed]
       /\ opened = [ok |-> TRUE, name |-> Unsuffixed(file)]
       /\ Last(listed) # Hash => NameVersion(parsePackageName(opened.name)) = listed
=============================================================================
