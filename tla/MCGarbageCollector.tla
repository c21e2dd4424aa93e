------------------------- MODULE MCGarbageCollector -------------------------
EXTENDS GarbageCollector, TLC

(* Addresses are interchangeable: the collector compares them for equality. *)
AddressSymmetry == Permutations(Address)
=============================================================================
