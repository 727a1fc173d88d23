-------------------------- MODULE MCDeletionRestore --------------------------
(* Small instances of DeletionRestore for TLC. *)
EXTENDS DeletionRestore, TLC

Mix(d, r, e, c) == [deletes |-> d, restores |-> r, errors |-> e, crashes |-> c]

SmoothOrFailing == {Mix(3, 3, 0, 0), Mix(2, 2, 1, 1)}

Symmetry == Permutations(FileSets) \cup Permutations(Workers)

\* Nothing is promised about what follows a request that comes too early.
Timely == ~untimely
=============================================================================
