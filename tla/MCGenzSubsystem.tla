-------------------------- MODULE MCGenzSubsystem --------------------------
(***************************************************************************)
(* GenzSubsystem for TLC.  With MAXBUSES = 1: a slot that no bus may have, *)
(* one that has a bus of its own, and one that leaves the choice to genz.  *)
(***************************************************************************)
EXTENDS GenzSubsystem

SlotsOfEachKind == {-1, 0, 2}
=============================================================================
