------------------------------ MODULE MCFixity ------------------------------
(* Small instances of Fixity for TLC. *)
EXTENDS Fixity

\* Two saves, two files that break, two errors, or a file that breaks and an error.
PairsOfTroubles == {<<2, 0, 0>>, <<0, 2, 0>>, <<0, 0, 2>>, <<0, 1, 1>>}
=============================================================================
