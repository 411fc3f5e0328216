---------------------------- MODULE MCOlistLoader ----------------------------
(* Values for TLC's instances of OlistLoader. *)
EXTENDS OlistLoader, TLC

AlwaysCharged == {"completed"}

\* Imported orders are interchangeable, and so are the shop's own.
ImportSymmetry == Permutations(OlistOrder) \cup Permutations(Order \ OlistOrder)
=============================================================================
