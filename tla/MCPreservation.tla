--------------------------- MODULE MCPreservation ---------------------------
(* Small instances of Preservation for TLC. *)
EXTENDS Preservation
=============================================================================
