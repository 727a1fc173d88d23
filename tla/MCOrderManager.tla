--------------------------- MODULE MCOrderManager ---------------------------
(* Small instances of OrderManager for TLC. *)
EXTENDS OrderManager

Symmetry == Permutations(Members) \cup Permutations(Labels)

\* Up to the first mishap, and from it to the end of the request, with one form
\* or one clipboard in use at a time.  Others work once the user has saved, and
\* from then on the user only drags, and saves again.
Narrow ==
    /\ mishap => Late /\ selected = <<>> /\ pending = {} /\ cut = <<>>
    /\ Cardinality(pending) <= 1 /\ Len(cut) + Len(selected) <= 2
    /\ Len(order) # Cardinality(Members) => saves > 0 /\ order # <<>>
    /\ saves > 0 => cut = <<>> /\ selected = <<>> /\ pending = {}
    /\ saves = 0 => thumb = Nothing /\ Cardinality({label[id] : id \in Members}) = 1
    /\ thumbnail # ogThumbnail => changeList = {} /\ Len(heap) = Cardinality(Members)
=============================================================================
