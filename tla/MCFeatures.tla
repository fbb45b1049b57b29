------------------------------ MODULE MCFeatures ------------------------------
(* Instances of Features for TLC.  Addresses, wrappers, features and fields    *)
(* are interchangeable.                                                        *)
EXTENDS Features, TLC

Symmetry == Permutations(DefnPtr) \cup Permutations(FeatureDefn)
              \cup Permutations(Feature) \cup Permutations(Field)
===============================================================================
