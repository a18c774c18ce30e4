-------------------------- MODULE MCCacheWatcher ---------------------------
(***************************************************************************)
(* A small instance of the cache watcher for TLC: one package in two       *)
(* builds of different lengths.                                            *)
(***************************************************************************)
EXTENDS CacheWatcher, TLC

CONSTANTS curl, curlOld, curlNew

MCOf        == (curlOld :> curl) @@ (curlNew :> curl)
MCFullSize  == (curlOld :> 2) @@ (curlNew :> 3)
MCSnapshots == {curl :> 2, curl :> 3, curl :> None}
=============================================================================
