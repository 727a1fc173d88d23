------------------------------ MODULE MCLending ------------------------------
(* Small instances of ControlledDigitalLending for TLC. *)
EXTENDS LendingRefinement

Symmetry == Permutations(Patrons) \cup Permutations(Workers)
=============================================================================
