------------------------------ MODULE MCFacade ------------------------------
(***************************************************************************)
(* Small instances of the facade for TLC: one package, which the catalogue *)
(* may hold in an old and a new build of different lengths, a rebuild that *)
(* is as long as the new one, which peers may still hold, and a corrupt    *)
(* file of that length too.                                                *)
(***************************************************************************)
EXTENDS Facade, TLC

CONSTANTS curl, old, new, rebuilt, junk

MCContent == {old, new, rebuilt, junk}
MCGenuine == {old, new, rebuilt}
MCSize    == [c \in MCContent |-> IF c = old THEN 1 ELSE 2]

(* Builds that their lengths tell apart, so that only a torn expectation   *)
(* can mislead.                                                            *)
NoTwinContent == {old, new, junk}
NoTwinGenuine == {old, new}
NoTwinSize    == [c \in NoTwinContent |-> IF c = old THEN 1 ELSE 2]

AnyCatalogue == {curl :> old, curl :> new, curl :> None}
OldAndNew    == {curl :> old, curl :> new}
=============================================================================
