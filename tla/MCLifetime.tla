------------------------------ MODULE MCLifetime ------------------------------
(***************************************************************************)
(* Instances of Lifetime for TLC.                                          *)
(***************************************************************************)
EXTENDS Lifetime, TLC

\* Addresses of one kind are interchangeable (for safety runs only).
AddressSymmetry ==
  Permutations(DsPtr) \cup Permutations(LayerPtr) \cup Permutations(BandPtr)
===============================================================================
