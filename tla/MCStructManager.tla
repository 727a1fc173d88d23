-------------------------- MODULE MCStructManager --------------------------
(* Small instances of StructManager for TLC. *)
EXTENDS StructManager

\* Nothing is structured yet, or an ingest has left a file above a folder.
SomeTrees ==
    {[n \in Nodes |-> <<>>]} \cup
    {[n \in Nodes |-> IF n = Root THEN <<f, d>> ELSE <<>>] : f \in Files, d \in Folders}

Symmetry == Permutations(Files) \cup Permutations(Folders)

\* What follows a mishap is left to the smaller instance.
UpToFirstMishap == ~mishap
=============================================================================
