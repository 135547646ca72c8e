--------------------------- MODULE MCAdapterLife ---------------------------
(***************************************************************************)
(* AdapterLife for TLC.  Devices, adapters and core structures are         *)
(* interchangeable; OnlySlots names every device or none.                  *)
(***************************************************************************)
EXTENDS AdapterLife, TLC

Symmetry == Permutations(Devices) \cup Permutations(Adapters) \cup Permutations(Cores)
=============================================================================
