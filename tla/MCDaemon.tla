------------------------------ MODULE MCDaemon ------------------------------
(***************************************************************************)
(* Bounded instances of Daemon.                                            *)
(***************************************************************************)
EXTENDS Daemon, TLC

NoKeys == [k \in {} |-> "default"]
Base   == "upstream" :> "other"

(* The base with one field changed, for every field and every value. *)
EachField ==
  {(f :> v) @@ Base : f \in Field, v \in {"other", "bad"}} \cup {(f :> "nohost") @@ Base : f \in OnHost}
(* One of each kind that a part is rebuilt for, and pairs of them. *)
Pairs ==
  {"upstream" :> "nohost" @@ "facade" :> "other",
   ("tracker" :> "other" @@ "facade" :> "other") @@ Base,
   ("serving" :> "other" @@ "caps" :> "other") @@ Base,
   ("cache" :> "other" @@ "repoDB" :> "other") @@ Base}
AllFiles == EachField \cup Pairs \cup {NoKeys}

(* Complete files that differ in what discovery and its clients turn on, for longer runs. *)
Complete(k)    == (k @@ Base) @@ DefaultConfig
DiscoveryFiles == {Complete(NoKeys), Complete("tracker" :> "other"), Complete("serving" :> "other")}

BaseFile     == {Json(Complete(NoKeys))}
EveryStart   == {Json(Base), Json(NoKeys), Missing, Corrupt, Legacy}
FlagUpstream == "upstream" :> "other"
FlagTracker  == "tracker" :> "other"
=============================================================================
