---------------------------- MODULE MCCatalogue ----------------------------
(***************************************************************************)
(* Small instances of the catalogue for TLC.  Repository 2 is the daemon's *)
(* own, so path order and ownership disagree; 1 is pkg's stock repository. *)
(***************************************************************************)
EXTENDS Catalogue, TLC

CONSTANTS curl, old, new

MCCatalogues == {curl :> old, curl :> new, curl :> Malformed}
=============================================================================
