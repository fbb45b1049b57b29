------------------------------ MODULE MCSrsCache ------------------------------
(***************************************************************************)
(* Instances of SrsCache for TLC.                                          *)
(***************************************************************************)
EXTENDS SrsCache, TLC

\* Addresses, holders and definitions are interchangeable (safety runs only).
Symmetry == Permutations(Addr) \cup Permutations(Holder) \cup Permutations(Def)
===============================================================================
