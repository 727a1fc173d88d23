--------------------------- MODULE MCBufferedSave ---------------------------
(* Small instances of BufferedSave for TLC. *)
EXTENDS BufferedSave, TLC

Symmetry == Permutations(Threads) \cup Permutations(FileSets) \cup Permutations(Queues)

\* Both jobs run again, or two saves come, or one of each: the two kinds have
\* persisters of their own and share no more than the threads.
Mixed == LET again == {f \in FileSets : job[f].attempts > 1}
         IN  \A w \in Works : Cardinality(again) + saves[w] <= 2
=============================================================================
