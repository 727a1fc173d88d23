------------------------ MODULE StructManagerProofs ------------------------
(***************************************************************************)
(* Theorems about the structure manager.                                   *)
(*                                                                         *)
(* That no file is lost rests on facts about trees: every handler either   *)
(* adds new leaves to a folder, moves a node to a folder that is not below *)
(* it, removes a node with all that is below it, or permutes one folder.   *)
(* `Under' is the least set closed under `Below', so a set is shown to     *)
(* contain it by showing that it is closed.                                *)
(***************************************************************************)
EXTENDS StructManager, SequenceLemmas

---------------------------------------------------------------------------
(* Reachability *)

Closed(t, S) == \A m \in S : Below(t, m) \subseteq S

LEMMA BelowType ==
    ASSUME NEW t \in Trees, NEW n \in Nodes
    PROVE  Below(t, n) \subseteq Nodes
BY ToSetType DEF Trees, Below

LEMMA UnderLeast ==
    ASSUME NEW t, NEW n \in Nodes, NEW S \in SUBSET Nodes, n \in S, Closed(t, S)
    PROVE  Under(t, n) \subseteq S
BY DEF Under, Closed

LEMMA UnderClosed ==
    ASSUME NEW t \in Trees, NEW n \in Nodes
    PROVE  Under(t, n) \subseteq Nodes /\ n \in Under(t, n) /\ Closed(t, Under(t, n))
<1>1. Under(t, n) \subseteq Nodes /\ n \in Under(t, n)
  BY DEF Under
<1>2. ASSUME NEW m \in Under(t, n), NEW x \in Below(t, m)
      PROVE  x \in Under(t, n)
  <2>1. x \in Nodes
    BY <1>1, <1>2, BelowType
  <2>2. ASSUME NEW S \in SUBSET Nodes, n \in S, \A k \in S : Below(t, k) \subseteq S
        PROVE  x \in S
    BY <1>2, <2>2 DEF Under
  <2> QED BY <2>1, <2>2 DEF Under
<1> QED BY <1>1, <1>2 DEF Closed

\* What the root reaches has a place in the tree.
LEMMA UnderPlaced ==
    ASSUME NEW t \in Trees
    PROVE  Under(t, Root) \subseteq Placed(t) \cup {Root} /\ Placed(t) \subseteq Nodes
<1>1. Placed(t) \subseteq Nodes /\ Root \in Nodes
  BY BelowType DEF Placed, Nodes
<1>2. Closed(t, Placed(t) \cup {Root})
  BY <1>1 DEF Closed, Placed
<1> QED BY <1>1, <1>2, UnderLeast

\* Reachability and places depend on what is below each node, not on the order.
LEMMA SameBelow ==
    ASSUME NEW t \in Trees, NEW u \in Trees, \A n \in Nodes : Below(u, n) = Below(t, n)
    PROVE  Placed(u) = Placed(t) /\ \A n \in Nodes : Under(u, n) = Under(t, n)
<1>1. Placed(u) = Placed(t)
  BY DEF Placed
<1>2. ASSUME NEW n \in Nodes PROVE Under(u, n) = Under(t, n)
  <2>1. Closed(t, Under(u, n)) /\ Closed(u, Under(t, n))
    BY UnderClosed DEF Closed
  <2>2. /\ Under(u, n) \subseteq Nodes /\ n \in Under(u, n)
        /\ Under(t, n) \subseteq Nodes /\ n \in Under(t, n)
    BY UnderClosed
  <2>3. Under(t, n) \subseteq Under(u, n)
    BY <2>1, <2>2, UnderLeast
  <2>4. Under(u, n) \subseteq Under(t, n)
    BY <2>1, <2>2, UnderLeast
  <2> QED BY <2>3, <2>4
<1> QED BY <1>1, <1>2

---------------------------------------------------------------------------
(* Well-formed trees *)

\* It is enough that the places are reached: the rest of Placed = Under holds.
LEMMA WellFormedIf ==
    ASSUME NEW t \in Trees,
           \A n \in Nodes : IsInjective(t[n]) /\ Root \notin Below(t, n),
           \A m, n \in Nodes : m # n => Below(t, m) \cap Below(t, n) = {},
           \A f \in Files : t[f] = <<>>,
           Placed(t) \subseteq Under(t, Root),
           \A n \in Nodes \ ({Root} \cup Placed(t)) : t[n] = <<>>
    PROVE  WellFormed(t)
<1>1. Root \in Nodes BY DEF Nodes
<1>2. Placed(t) \cup {Root} = Under(t, Root)
  BY <1>1, UnderPlaced, UnderClosed
<1> QED BY <1>2 DEF WellFormed

\* New leaves in a folder: createFolder and the pasting of cards.
LEMMA AddLeaves ==
    ASSUME NEW t, WellFormed(t), NEW p \in (Placed(t) \cup {Root}) \ Files,
           NEW s \in Seq(Nodes), IsInjective(s), Root \notin ToSet(s),
           ToSet(t[p]) \subseteq ToSet(s), ToSet(s) \cap Placed(t) \subseteq ToSet(t[p])
    PROVE  WellFormed([t EXCEPT ![p] = s]) /\ Placed([t EXCEPT ![p] = s]) = Placed(t) \cup ToSet(s)
<1> DEFINE u == [t EXCEPT ![p] = s]
<1>1. t \in Trees /\ p \in Nodes /\ Root \in Nodes
  BY UnderPlaced DEF WellFormed, Nodes
<1>2. u \in Trees /\ u[p] = s /\ \A n \in Nodes \ {p} : u[n] = t[n]
  BY <1>1 DEF Trees
<1>3. Below(u, p) = ToSet(s) /\ Below(t, p) \subseteq ToSet(s) /\ \A n \in Nodes \ {p} : Below(u, n) = Below(t, n)
  BY <1>2 DEF Below
<1> HIDE DEF u
<1>4. Placed(u) = Placed(t) \cup ToSet(s)
  BY <1>1, <1>3 DEF Placed
<1>5. \A n \in Nodes : IsInjective(u[n]) /\ Root \notin Below(u, n)
  BY <1>2, <1>3 DEF WellFormed
<1>6. \A m, n \in Nodes : m # n => Below(u, m) \cap Below(u, n) = {}
  <2>1. \A n \in Nodes \ {p} : Below(t, n) \subseteq Placed(t) /\ Below(t, n) \cap Below(t, p) = {}
    BY <1>1 DEF WellFormed, Placed
  <2>2. \A n \in Nodes \ {p} : Below(t, n) \cap ToSet(s) = {}
    BY <2>1 DEF Below
  <2> QED BY <1>3, <2>2 DEF WellFormed
<1>7. \A f \in Files : u[f] = <<>>
  BY <1>2 DEF WellFormed, Nodes
<1>8. Placed(u) \subseteq Under(u, Root)
  <2>1. Closed(t, Under(u, Root)) /\ Root \in Under(u, Root) /\ Under(u, Root) \subseteq Nodes
    BY <1>1, <1>2, <1>3, UnderClosed DEF Closed
  <2>2. Under(t, Root) \subseteq Under(u, Root)
    BY <1>1, <2>1, UnderLeast
  <2>3. Placed(t) \cup {Root} \subseteq Under(u, Root)
    BY <2>2 DEF WellFormed
  <2>4. ToSet(s) \subseteq Under(u, Root)
    BY <1>1, <1>2, <1>3, <2>3, UnderClosed DEF Closed
  <2> QED BY <1>4, <2>3, <2>4
<1>9. \A n \in Nodes \ ({Root} \cup Placed(u)) : u[n] = <<>>
  BY <1>2, <1>4 DEF WellFormed
<1>10. WellFormed(u)
  BY <1>2, <1>5, <1>6, <1>7, <1>8, <1>9, WellFormedIf
<1> QED BY <1>4, <1>10 DEF u

\* One new node at the front or at the end of a folder.
LEMMA NewNode ==
    ASSUME NEW t, WellFormed(t), NEW p \in (Placed(t) \cup {Root}) \ Files,
           NEW x \in Nodes \ ({Root} \cup Placed(t))
    PROVE  /\ WellFormed([t EXCEPT ![p] = Cons(x, t[p])])
           /\ Placed([t EXCEPT ![p] = Cons(x, t[p])]) = Placed(t) \cup {x}
           /\ WellFormed([t EXCEPT ![p] = Append(t[p], x)])
           /\ Placed([t EXCEPT ![p] = Append(t[p], x)]) = Placed(t) \cup {x}
<1> DEFINE w == <<x>>
           s == t[p]
<1>1. t \in Trees /\ p \in Nodes /\ x \in Nodes
  BY UnderPlaced DEF WellFormed, Nodes
<1>2. /\ s \in Seq(Nodes) /\ IsInjective(s) /\ ToSet(s) \subseteq Placed(t)
      /\ x \notin ToSet(s) /\ Root \notin ToSet(s)
  BY <1>1 DEF WellFormed, Trees, Placed, Below
<1>3. w \in Seq(Nodes) /\ ToSet(w) = {x} /\ IsInjective(w)
  BY <1>1 DEF ToSet, IsInjective
<1>4. Cons(x, s) = w \o s /\ Append(s, x) = s \o w
  BY <1>1, <1>2 DEF Cons
<1> HIDE DEF w
<1>5. w \o s \in Seq(Nodes) /\ s \o w \in Seq(Nodes)
  BY <1>2, <1>3, Concat
<1>6. ToSet(w \o s) = ToSet(s) \cup {x} /\ ToSet(s \o w) = ToSet(s) \cup {x}
  BY <1>2, <1>3, ConcatSet
<1>7. IsInjective(w \o s) /\ IsInjective(s \o w)
  BY <1>2, <1>3, ConcatInjective
<1>8. Root \notin ToSet(s) \cup {x} /\ (ToSet(s) \cup {x}) \cap Placed(t) \subseteq ToSet(s)
  BY <1>2
<1>9. WellFormed([t EXCEPT ![p] = w \o s]) /\ Placed([t EXCEPT ![p] = w \o s]) = Placed(t) \cup {x}
  <2>1. Placed([t EXCEPT ![p] = w \o s]) = Placed(t) \cup ToSet(w \o s) /\ WellFormed([t EXCEPT ![p] = w \o s])
    BY <1>5, <1>6, <1>7, <1>8, AddLeaves
  <2> QED BY <1>2, <1>6, <2>1
<1>10. WellFormed([t EXCEPT ![p] = s \o w]) /\ Placed([t EXCEPT ![p] = s \o w]) = Placed(t) \cup {x}
  <2>1. Placed([t EXCEPT ![p] = s \o w]) = Placed(t) \cup ToSet(s \o w) /\ WellFormed([t EXCEPT ![p] = s \o w])
    BY <1>5, <1>6, <1>7, <1>8, AddLeaves
  <2> QED BY <1>2, <1>6, <2>1
<1> QED BY <1>4, <1>9, <1>10

\* What is taken from one folder.
LEMMA Without ==
    ASSUME NEW t, WellFormed(t), NEW x \in Nodes
    PROVE  /\ RemoveNode(t, x) \in Trees
           /\ \A n \in Nodes : /\ Below(RemoveNode(t, x), n) = Below(t, n) \ {x}
                               /\ IsInjective(RemoveNode(t, x)[n])
<1>1. \A n \in Nodes : t[n] \in Seq(Nodes) /\ IsInjective(t[n])
  BY DEF WellFormed, Trees
<1>2. \A n \in Nodes : RemoveNode(t, x)[n] = RemoveFirst(t[n], x)
  BY DEF RemoveNode
<1>3. \A n \in Nodes : /\ RemoveFirst(t[n], x) \in Seq(Nodes)
                       /\ ToSet(RemoveFirst(t[n], x)) = ToSet(t[n]) \ {x}
                       /\ IsInjective(RemoveFirst(t[n], x))
  BY <1>1, Removed
<1> QED BY <1>2, <1>3 DEF RemoveNode, Trees, Below

\* dropTreeItem and pasteTreeItem keep a tree a tree, and lose nothing.
LEMMA Moved ==
    ASSUME NEW t, WellFormed(t), NEW x \in Placed(t),
           NEW p \in (Placed(t) \cup {Root}) \ Files, p \notin Under(t, x),
           NEW i \in 1 .. Len(RemoveNode(t, x)[p]) + 1
    PROVE  WellFormed(MoveNode(t, x, p, i)) /\ Placed(MoveNode(t, x, p, i)) = Placed(t)
<1> DEFINE r == RemoveNode(t, x)
           s == InsertAt(r[p], i, x)
           u == [r EXCEPT ![p] = s]
<1>1. t \in Trees /\ p \in Nodes /\ Root \in Nodes /\ x \in Nodes
  BY UnderPlaced DEF WellFormed, Nodes
<1>2. r \in Trees /\ \A n \in Nodes : Below(r, n) = Below(t, n) \ {x} /\ IsInjective(r[n])
  BY <1>1, Without
<1>3. r[p] \in Seq(Nodes) /\ IsInjective(r[p]) /\ x \notin ToSet(r[p])
  BY <1>1, <1>2 DEF Trees, Below
<1>4. s \in Seq(Nodes) /\ IsInjective(s) /\ ToSet(s) = ToSet(r[p]) \cup {x}
  BY <1>1, <1>3, Inserted
<1> HIDE DEF r, s
<1>5. u \in Trees /\ u[p] = s /\ \A n \in Nodes \ {p} : u[n] = r[n]
  BY <1>1, <1>2, <1>4 DEF Trees
<1>6. Below(u, p) = Below(t, p) \cup {x} /\ \A n \in Nodes \ {p} : Below(u, n) = Below(t, n) \ {x}
  BY <1>1, <1>2, <1>4, <1>5 DEF Below
<1> HIDE DEF u
<1>7. Placed(u) = Placed(t)
  <2>1. \A n \in Nodes : Below(u, n) \subseteq Below(t, n) \cup {x}
    BY <1>6
  <2>2. Placed(u) \subseteq Placed(t)
    BY <2>1 DEF Placed
  <2>3. x \in Placed(u)
    BY <1>1, <1>6 DEF Placed
  <2>4. Placed(t) \subseteq Placed(u)
    BY <1>6, <2>3 DEF Placed
  <2> QED BY <2>2, <2>4
<1>8. \A n \in Nodes : IsInjective(u[n]) /\ Root \notin Below(u, n)
  <2>1. x # Root BY DEF WellFormed, Placed
  <2> QED BY <1>2, <1>4, <1>5, <1>6, <2>1 DEF WellFormed
<1>9. \A m, n \in Nodes : m # n => Below(u, m) \cap Below(u, n) = {}
  BY <1>6 DEF WellFormed
<1>10. \A f \in Files : u[f] = <<>>
  <2>1. \A f \in Files : f \in Nodes /\ f # p /\ t[f] = <<>>
    BY DEF WellFormed, Nodes
  <2>2. \A f \in Files : r[f] = <<>>
    BY <2>1 DEF r, RemoveNode, RemoveFirst
  <2> QED BY <1>5, <2>1, <2>2
<1>11. Placed(u) \subseteq Under(u, Root)
  <2> DEFINE S == Under(u, Root)
             T == S \cup Under(t, x)
  <2>1. S \in SUBSET Nodes /\ Root \in S /\ Closed(u, S)
    BY <1>1, <1>5, UnderClosed
  <2>2. Under(t, x) \subseteq Nodes /\ x \in Under(t, x) /\ Closed(t, Under(t, x))
    BY <1>1, UnderClosed
  <2> HIDE DEF S
  <2>3. \A n \in Nodes : Below(t, n) \subseteq Below(u, n) \cup {x}
    BY <1>6
  <2>4. Closed(t, T)
    BY <2>1, <2>2, <2>3 DEF Closed
  <2>5. Under(t, Root) \subseteq T
    BY <1>1, <2>1, <2>2, <2>4, UnderLeast
  <2>6. p \in S
    BY <2>5 DEF WellFormed
  <2>7. x \in S
    BY <1>6, <2>1, <2>6 DEF Closed
  <2>8. Closed(t, S)
    BY <2>1, <2>3, <2>7 DEF Closed
  <2>9. Under(t, Root) \subseteq S
    BY <1>1, <2>1, <2>8, UnderLeast
  <2> QED BY <1>7, <2>9 DEF S, WellFormed
<1>12. \A n \in Nodes \ ({Root} \cup Placed(u)) : u[n] = <<>>
  <2>1. \A n \in Nodes \ ({Root} \cup Placed(t)) : n # p /\ t[n] = <<>>
    BY DEF WellFormed
  <2>2. \A n \in Nodes \ ({Root} \cup Placed(t)) : r[n] = <<>>
    BY <2>1 DEF r, RemoveNode, RemoveFirst
  <2> QED BY <1>5, <1>7, <2>1, <2>2
<1>13. WellFormed(u)
  BY <1>5, <1>8, <1>9, <1>10, <1>11, <1>12, WellFormedIf
<1> QED BY <1>7, <1>13 DEF MoveNode, u, s, r

\* What is below a node stays together: each node under x but x itself has the
\* folder it is in under x too.
LEMMA ParentUnder ==
    ASSUME NEW t, WellFormed(t), NEW x \in Nodes, NEW n \in Under(t, x), n # x,
           NEW m \in Nodes, n \in Below(t, m)
    PROVE  m \in Under(t, x)
<1> SUFFICES ASSUME m \notin Under(t, x) PROVE FALSE
  OBVIOUS
<1> DEFINE S == Under(t, x) \ {n}
<1>1. Under(t, x) \subseteq Nodes /\ x \in Under(t, x) /\ Closed(t, Under(t, x))
  BY UnderClosed DEF WellFormed
<1>2. \A k \in S : n \notin Below(t, k)
  BY <1>1 DEF WellFormed
<1>3. Closed(t, S) /\ S \in SUBSET Nodes /\ x \in S
  BY <1>1, <1>2 DEF Closed
<1>4. Under(t, x) \subseteq S
  BY <1>3, UnderLeast
<1> QED BY <1>4

\* commitRemoveFolder, and a paste of a node into itself: the node goes with
\* all that is under it, and nothing else does.
LEMMA Deleted ==
    ASSUME NEW t, WellFormed(t), NEW x \in Placed(t)
    PROVE  /\ WellFormed(DeleteNode(t, x))
           /\ Placed(DeleteNode(t, x)) = Placed(t) \ Under(t, x)
<1> DEFINE r == RemoveNode(t, x)
           U == Under(t, x)
           u == DeleteNode(t, x)
<1>1. t \in Trees /\ Root \in Nodes /\ x \in Nodes /\ x # Root
  BY UnderPlaced DEF WellFormed, Nodes, Placed
<1>2. r \in Trees /\ \A n \in Nodes : Below(r, n) = Below(t, n) \ {x} /\ IsInjective(r[n])
  BY <1>1, Without
<1>3. U \subseteq Nodes /\ x \in U /\ Closed(t, U)
  BY <1>1, UnderClosed
<1> HIDE DEF r, U
<1>4. u = [n \in Nodes |-> IF n \in U THEN <<>> ELSE r[n]]
  BY DEF DeleteNode, Prune, r, U
<1> HIDE DEF u
<1>5. u \in Trees
  BY <1>2, <1>4 DEF Trees
<1>6. \A n \in Nodes : Below(u, n) = IF n \in U THEN {} ELSE Below(t, n) \ {x}
  <2>1. ToSet(<<>>) = {} BY DEF ToSet
  <2> QED BY <1>2, <1>4, <2>1 DEF Below
<1>7. Placed(u) = Placed(t) \ U
  <2>1. ASSUME NEW m \in Nodes, NEW n \in Below(t, m), n \in U, n # x PROVE m \in U
    BY <1>1, <2>1, ParentUnder DEF U
  <2>2. Placed(u) \subseteq Placed(t) \ U
    BY <1>6, <2>1 DEF Placed
  <2>3. ASSUME NEW n \in Placed(t) \ U PROVE n \in Placed(u)
    <3>1. PICK m \in Nodes : n \in Below(t, m) BY DEF Placed
    <3>2. m \notin U BY <1>3, <3>1 DEF Closed
    <3>3. n \in Below(u, m) BY <1>3, <1>6, <3>1, <3>2
    <3> QED BY <3>3 DEF Placed
  <2> QED BY <2>2, <2>3
<1>8. \A n \in Nodes : IsInjective(u[n]) /\ Root \notin Below(u, n)
  <2>1. IsInjective(<<>>) BY DEF IsInjective
  <2> QED BY <1>2, <1>4, <1>6, <2>1 DEF WellFormed
<1>9. \A m, n \in Nodes : m # n => Below(u, m) \cap Below(u, n) = {}
  BY <1>6 DEF WellFormed
<1>10. \A n \in Nodes : t[n] = <<>> => u[n] = <<>>
  BY <1>4 DEF r, RemoveNode, RemoveFirst
<1>11. \A f \in Files : u[f] = <<>>
  BY <1>10 DEF WellFormed, Nodes
<1>12. Placed(u) \subseteq Under(u, Root)
  <2> DEFINE S == Under(u, Root)
             T == S \cup U
  <2>1. S \in SUBSET Nodes /\ Root \in S /\ Closed(u, S)
    BY <1>1, <1>5, UnderClosed
  <2> HIDE DEF S
  <2>2. Closed(t, T)
    BY <1>3, <1>6, <2>1 DEF Closed
  <2>3. Under(t, Root) \subseteq T
    BY <1>1, <1>3, <2>1, <2>2, UnderLeast
  <2> QED BY <1>7, <2>3 DEF S, WellFormed
<1>13. \A n \in Nodes \ ({Root} \cup Placed(u)) : u[n] = <<>>
  BY <1>4, <1>7, <1>10 DEF WellFormed
<1>14. WellFormed(u)
  BY <1>5, <1>8, <1>9, <1>11, <1>12, <1>13, WellFormedIf
<1> QED BY <1>7, <1>14 DEF u, U

\* moveItemById: two neighbours change places.
LEMMA Permuted ==
    ASSUME NEW t, WellFormed(t), NEW p \in Nodes, NEW i \in 1 .. Len(t[p]) - 1
    PROVE  /\ WellFormed([t EXCEPT ![p] = Swapped(t[p], i)])
           /\ Placed([t EXCEPT ![p] = Swapped(t[p], i)]) = Placed(t)
<1> DEFINE s == t[p]
           w == Swapped(s, i)
           u == [t EXCEPT ![p] = w]
<1>1. t \in Trees /\ s \in Seq(Nodes) /\ IsInjective(s)
  BY DEF WellFormed, Trees
<1>2. /\ w \in Seq(Nodes) /\ Len(w) = Len(s)
      /\ \A j \in 1 .. Len(s) : w[j] = IF j = i THEN s[i + 1] ELSE IF j = i + 1 THEN s[i] ELSE s[j]
  BY <1>1 DEF Swapped
<1>3. ToSet(w) = ToSet(s)
  <2>1. ToSet(w) = {w[j] : j \in 1 .. Len(s)} /\ ToSet(s) = {s[j] : j \in 1 .. Len(s)}
    BY <1>1, <1>2 DEF ToSet
  <2>2. {w[j] : j \in 1 .. Len(s)} \subseteq {s[j] : j \in 1 .. Len(s)}
    BY <1>1, <1>2
  <2>3. ASSUME NEW j \in 1 .. Len(s) PROVE s[j] \in {w[k] : k \in 1 .. Len(s)}
    <3>1. CASE j = i
      <4>1. i + 1 \in 1 .. Len(s) /\ w[i + 1] = s[j] BY <1>1, <1>2, <3>1
      <4> QED BY <4>1
    <3>2. CASE j = i + 1
      <4>1. i \in 1 .. Len(s) /\ w[i] = s[j] BY <1>1, <1>2, <3>2
      <4> QED BY <4>1
    <3>3. CASE j # i /\ j # i + 1
      BY <1>2, <3>3
    <3> QED BY <3>1, <3>2, <3>3
  <2> QED BY <2>1, <2>2, <2>3
<1>4. IsInjective(w)
  <2> DEFINE pi(j) == IF j = i THEN i + 1 ELSE IF j = i + 1 THEN i ELSE j
  <2> SUFFICES ASSUME NEW a \in 1 .. Len(s), NEW b \in 1 .. Len(s), w[a] = w[b] PROVE a = b
    BY <1>1, <1>2 DEF IsInjective
  <2>1. pi(a) \in 1 .. Len(s) /\ pi(b) \in 1 .. Len(s) /\ s[pi(a)] = s[pi(b)]
    BY <1>1, <1>2
  <2>2. pi(a) = pi(b)
    BY <1>1, <2>1 DEF IsInjective
  <2> QED BY <2>2
<1> HIDE DEF w
<1>5. u \in Trees /\ u[p] = w /\ \A n \in Nodes \ {p} : u[n] = t[n]
  BY <1>1, <1>2 DEF Trees
<1>6. \A n \in Nodes : Below(u, n) = Below(t, n)
  BY <1>3, <1>5 DEF Below
<1> HIDE DEF u
<1>7. Placed(u) = Placed(t) /\ Under(u, Root) = Under(t, Root)
  BY <1>1, <1>5, <1>6, SameBelow DEF Nodes
<1>8. s # <<>>
  BY <1>1
<1>9. \A n \in Nodes : t[n] = <<>> => u[n] = <<>>
  BY <1>5, <1>8
<1>10. \A f \in Files : u[f] = <<>>
  BY <1>9 DEF WellFormed, Nodes
<1>11. \A n \in Nodes \ ({Root} \cup Placed(u)) : u[n] = <<>>
  BY <1>7, <1>9 DEF WellFormed
<1>12. \A n \in Nodes : IsInjective(u[n]) /\ Root \notin Below(u, n)
  BY <1>4, <1>5, <1>6 DEF WellFormed
<1>13. \A m, n \in Nodes : m # n => Below(u, m) \cap Below(u, n) = {}
  BY <1>6 DEF WellFormed
<1>14. Placed(u) \subseteq Under(u, Root)
  BY <1>7 DEF WellFormed
<1>15. WellFormed(u)
  BY <1>5, <1>10, <1>11, <1>12, <1>13, <1>14, WellFormedIf
<1> QED BY <1>7, <1>15 DEF u, w

\* A file that has a place has exactly one.
LEMMA OnePosition ==
    ASSUME NEW t, WellFormed(t), NEW f \in Files
    PROVE  Cardinality(Positions(t, f)) = IF f \in Placed(t) THEN 1 ELSE 0
<1>1. t \in Trees /\ Under(t, Root) \subseteq Nodes
  BY UnderClosed DEF WellFormed, Nodes
<1>2. CASE f \in Placed(t)
  <2>1. PICK m \in Nodes : f \in Below(t, m)
    BY <1>2 DEF Placed
  <2>2. t[m] # <<>>
    BY <2>1 DEF Below, ToSet
  <2>3. m \in Under(t, Root)
    BY <2>2 DEF WellFormed
  <2>4. Positions(t, f) = {m}
    BY <1>1, <2>1, <2>3 DEF Positions, WellFormed
  <2> QED BY <1>2, <2>4, FS_Singleton
<1>3. CASE f \notin Placed(t)
  <2>1. Positions(t, f) = {}
    BY <1>1, <1>3 DEF Positions, Placed
  <2> QED BY <1>3, <2>1, FS_EmptySet
<1> QED BY <1>2, <1>3

\* cleanNestedArrayForSave drops nothing of a tree whose files are leaves.
LEMMA CleanWhole ==
    ASSUME NEW t, WellFormed(t)
    PROVE  Clean(t) = t
<1> DEFINE open == [n \in Nodes |-> IF n \in Files THEN <<>> ELSE t[n]]
<1>1. open = t
  BY DEF WellFormed, Trees
<1>2. Under(open, Root) = Placed(t) \cup {Root}
  BY <1>1 DEF WellFormed
<1>3. Clean(t) = [n \in Nodes |-> IF n \in Under(open, Root) THEN open[n] ELSE <<>>]
  BY DEF Clean
<1> HIDE DEF open
<1> QED BY <1>1, <1>2, <1>3 DEF WellFormed, Trees

---------------------------------------------------------------------------
(* Types *)

LEMMA ShownType ==
    ASSUME folders \in Trees
    PROVE  /\ Clean(folders) \in Trees
           /\ InTree \subseteq Nodes /\ Shown \subseteq InTree \cup {Root}
           /\ Containers \subseteq (InTree \cup {Root}) \ Files
<1> DEFINE open == [n \in Nodes |-> IF n \in Files THEN <<>> ELSE folders[n]]
           c == Clean(folders)
<1>1. open \in Trees /\ \A n \in Nodes : open[n] \in {folders[n], <<>>}
  BY DEF Trees
<1>2. c = [n \in Nodes |-> IF n \in Under(open, Root) THEN open[n] ELSE <<>>]
  BY DEF Clean
<1> HIDE DEF open, c
<1>3. c \in Trees /\ \A n \in Nodes : c[n] \in {folders[n], <<>>}
  BY <1>1, <1>2 DEF Trees
<1>4. \A n \in Nodes : Below(c, n) \subseteq Below(folders, n)
  <2>1. ToSet(<<>>) = {} BY DEF ToSet
  <2> QED BY <1>3, <2>1 DEF Below
<1>5. Placed(c) \subseteq InTree /\ InTree \subseteq Nodes
  BY <1>4, UnderPlaced DEF Placed, InTree
<1> QED BY <1>3, <1>5 DEF c, Shown, Containers

LEMMA TreeTypes ==
    ASSUME NEW t \in Trees
    PROVE  /\ \A x \in Nodes : RemoveNode(t, x) \in Trees /\ DeleteNode(t, x) \in Trees
           /\ \A x, p \in Nodes : \A i \in 1 .. Len(RemoveNode(t, x)[p]) + 1 :
                MoveNode(t, x, p, i) \in Trees
           /\ \A p \in Nodes : \A i \in 1 .. Len(t[p]) - 1 : [t EXCEPT ![p] = Swapped(t[p], i)] \in Trees
           /\ \A p \in Nodes : \A s \in Seq(Nodes) : [t EXCEPT ![p] = s] \in Trees
<1>0. \A p \in Nodes : t[p] \in Seq(Nodes)
  BY DEF Trees
<1>1. ASSUME NEW x \in Nodes PROVE RemoveNode(t, x) \in Trees
  BY <1>0, RemoveFirstType DEF RemoveNode, Trees
<1>2. ASSUME NEW x \in Nodes PROVE DeleteNode(t, x) \in Trees
  BY <1>1 DEF DeleteNode, Prune, Trees
<1>3. ASSUME NEW p \in Nodes, NEW s \in Seq(Nodes) PROVE [t EXCEPT ![p] = s] \in Trees
  BY DEF Trees
<1>4. ASSUME NEW x \in Nodes, NEW p \in Nodes, NEW i \in 1 .. Len(RemoveNode(t, x)[p]) + 1
      PROVE  MoveNode(t, x, p, i) \in Trees
  <2>1. RemoveNode(t, x)[p] \in Seq(Nodes)
    BY <1>1 DEF Trees
  <2>2. InsertAt(RemoveNode(t, x)[p], i, x) \in Seq(Nodes)
    BY <2>1, InsertAtType
  <2> QED BY <1>1, <2>2 DEF MoveNode, Trees
<1>5. ASSUME NEW p \in Nodes, NEW i \in 1 .. Len(t[p]) - 1
      PROVE  [t EXCEPT ![p] = Swapped(t[p], i)] \in Trees
  <2>1. Swapped(t[p], i) \in Seq(Nodes)
    BY <1>0 DEF Swapped
  <2> QED BY <1>3, <2>1
<1> QED BY <1>1, <1>2, <1>3, <1>4, <1>5

LEMMA CardTypes ==
    /\ NoCards \in Cards
    /\ \A a, b \in Cards : Plus(a, b) \in Cards /\ Minus(a, b) \in Cards
    /\ \A S \in SUBSET Files : CardsOf(S) \in Cards
BY DEF NoCards, Cards, Plus, Minus, CardsOf

\* The cut or chosen cards, arranged, are nodes.
LEMMA ArrangedCards ==
    ASSUME NEW a \in Cards, NEW s \in SetToSeqs(FilesOf(a))
    PROVE  s \in Seq(Nodes) /\ ToSet(s) = FilesOf(a) /\ IsInjective(s)
<1>1. FilesOf(a) \in SUBSET Files /\ IsFiniteSet(FilesOf(a))
  BY StructAssumption, FS_Subset DEF FilesOf
<1>2. s \in Seq(FilesOf(a)) /\ ToSet(s) = FilesOf(a) /\ IsInjective(s)
  BY <1>1, Arranged
<1>3. FilesOf(a) \subseteq Nodes
  BY <1>1 DEF Nodes
<1> QED BY <1>2, <1>3

LEMMA TypeInit == Init => TypeOK
<1> SUFFICES ASSUME Init PROVE TypeOK
  OBVIOUS
<1>1. stored \in Trees /\ folders \in Trees
  BY StoredAssumption DEF Init, WellFormed
<1>2. Empty \in Trees
  BY DEF Empty, Trees
<1>3. items \in Cards
  BY DEF Init, Cards
<1> QED BY <1>1, <1>2, <1>3, CardTypes DEF Init, TypeOK

LEMMA TypeStep == TypeOK /\ [Next]_vars => TypeOK'
<1> SUFFICES ASSUME TypeOK, [Next]_vars PROVE TypeOK'
  OBVIOUS
<1> USE DEF treeVars, galleryVars, saveVars
<1>t. folders \in Trees /\ InTree \subseteq Nodes /\ Shown \subseteq Nodes /\ Containers \subseteq Nodes /\ Root \in Nodes
  BY ShownType DEF TypeOK, Nodes
<1>c. /\ items \in Cards /\ chosen \in Cards /\ cut \in Cards /\ endNodes \in Cards
      /\ NoCards \in Cards /\ Uncut \in Cards
  BY CardTypes DEF TypeOK, Uncut
<1>1. CASE Selecting
  <2>1. ASSUME NEW c \in [Files -> 0 .. MaxCopies], SelectCards(c) PROVE TypeOK'
    <3>1. c \in Cards BY StructAssumption DEF Cards
    <3> QED BY <2>1, <3>1 DEF SelectCards, TypeOK
  <2>2. ASSUME NEW n \in Shown, SelectNode(n) PROVE TypeOK'
    BY <1>t, <1>c, <2>2 DEF SelectNode, TypeOK
  <2>3. CASE Deselect
    BY <1>c, <2>3 DEF Deselect, TypeOK
  <2>4. CASE CutSelected
    BY <1>c, <2>4 DEF CutSelected, CutCards, CutNode, TypeOK, Nodes
  <2>5. CASE UndoCut
    BY <1>c, <2>5 DEF UndoCut, ClearClipboard, TypeOK
  <2> QED BY <1>1, <2>1, <2>2, <2>3, <2>4, <2>5 DEF Selecting
<1>2. CASE Pasting
  <2>1. ASSUME NEW a \in SetToSeqs(FilesOf(cut)), PasteCards(a) PROVE TypeOK'
    <3>1. selected \in Nodes /\ folders[selected] \in Seq(Nodes)
      BY <1>t, <2>1 DEF PasteCards, TypeOK, Trees
    <3>2. folders[selected] \o a \in Seq(Nodes)
      BY <1>c, <3>1, ArrangedCards, Concat
    <3>3. folders' \in Trees
      BY <1>t, <2>1, <3>1, <3>2, TreeTypes DEF PasteCards, AddFiles
    <3> QED BY <1>c, <2>1, <3>3 DEF PasteCards, AddFiles, ClearClipboard, TypeOK
  <2>2. CASE PasteNode
    <3>1. selected \in Nodes /\ cutNode \in Nodes
      BY <1>t, <2>2 DEF PasteNode, TypeOK
    <3>2. RemoveNode(folders, cutNode)[selected] \in Seq(Nodes)
      BY <1>t, <3>1, TreeTypes DEF Trees
    <3> DEFINE at == IF cutNode \in Files THEN Len(RemoveNode(folders, cutNode)[selected]) + 1 ELSE 1
    <3>3. at \in 1 .. Len(RemoveNode(folders, cutNode)[selected]) + 1
      BY <3>2
    <3>4. folders' \in {DeleteNode(folders, cutNode), MoveNode(folders, cutNode, selected, at)}
      BY <2>2 DEF PasteNode
    <3> HIDE DEF at
    <3>5. folders' \in Trees
      BY <1>t, <3>1, <3>3, <3>4, TreeTypes
    <3> QED BY <1>c, <2>2, <3>5 DEF PasteNode, ClearClipboard, TypeOK
  <2>3. ASSUME NEW new \in Folders, NEW a \in UNION {SetToSeqs(S) : S \in SUBSET Files},
               GroupSelected(new, a)
        PROVE  TypeOK'
    <3> DEFINE now == IF chosen # NoCards THEN chosen ELSE cut
               t == [folders EXCEPT ![Root] = Cons(new, folders[Root])]
    <3>1. now \in Cards /\ a \in SetToSeqs(FilesOf(now))
      BY <1>c, <2>3 DEF GroupSelected
    <3>2. a \in Seq(Nodes)
      BY <3>1, ArrangedCards
    <3>3. new \in Nodes /\ Cons(new, folders[Root]) \in Seq(Nodes)
      BY <1>t DEF Cons, Trees, Nodes
    <3>4. t \in Trees
      BY <1>t, <3>3, TreeTypes
    <3>5. folders' = [t EXCEPT ![new] = a]
      BY <2>3 DEF GroupSelected
    <3>6. folders' \in Trees
      BY <3>2, <3>3, <3>4, <3>5, TreeTypes
    <3>7. items' \in Cards
      BY <1>c, <2>3, CardTypes DEF GroupSelected
    <3> QED BY <1>c, <2>3, <3>3, <3>6, <3>7 DEF GroupSelected, ClearClipboard, TypeOK
  <2> QED BY <1>2, <2>1, <2>2, <2>3 DEF Pasting
<1>3. CASE Dragging
  <2>1. ASSUME NEW n \in Containers, NEW f \in Files, DropCard(f, n) PROVE TypeOK'
    <3>1. n \in Nodes /\ Append(folders[n], f) \in Seq(Nodes)
      BY <1>t DEF Trees, Nodes
    <3>2. folders' \in Trees
      BY <1>t, <2>1, <3>1, TreeTypes DEF DropCard
    <3>3. items' \in Cards
      BY <1>c, <2>1 DEF DropCard, Enabled, Cards
    <3> QED BY <1>c, <2>1, <3>2, <3>3 DEF DropCard, ClearClipboard, TypeOK
  <2>2. CASE DropCardBack
    BY <1>c, <2>2 DEF DropCardBack, TypeOK
  <2>4. ASSUME NEW n \in Containers, NEW f \in Files, NEW a \in SetToSeqs(FilesOf(chosen)),
               DropCutCard(f, n, a)
        PROVE  TypeOK'
    <3>1. n \in Nodes /\ folders[n] \in Seq(Nodes)
      BY <1>t DEF Trees
    <3>2. folders[n] \o a \in Seq(Nodes)
      BY <1>c, <3>1, ArrangedCards, Concat
    <3>3. folders' \in Trees
      BY <1>t, <2>4, <3>1, <3>2, TreeTypes DEF DropCutCard
    <3>4. [items EXCEPT ![f] = @ - 1] \in Cards
      BY <1>c, <2>4 DEF DropCutCard, Cards
    <3>5. items' \in Cards
      BY <1>c, <2>4, <3>4, CardTypes DEF DropCutCard
    <3> QED BY <1>c, <2>4, <3>3, <3>5 DEF DropCutCard, ClearClipboard, TypeOK
  <2>3. CASE DragNode
    <3>1. PICK x \in InTree \cap Shown, n \in Containers, i \in Nat : DropNode(x, n, i)
      BY <2>3 DEF DragNode
    <3>2. folders' \in Trees
      BY <1>t, <3>1, TreeTypes DEF DropNode
    <3> QED BY <1>c, <3>1, <3>2 DEF DropNode, ClearClipboard, TypeOK
  <2> QED BY <1>3, <2>1, <2>2, <2>3, <2>4 DEF Dragging
<1>4. CASE Editing
  <2>1. ASSUME NEW new \in Folders, CreateFolder(new) PROVE TypeOK'
    <3> DEFINE parent == IF selected = Nothing THEN Root ELSE selected
    <3>1. parent \in Nodes /\ Cons(new, folders[parent]) \in Seq(Nodes)
      BY <1>t DEF TypeOK, Cons, Trees, Nodes
    <3>2. folders' \in Trees
      BY <1>t, <2>1, <3>1, TreeTypes DEF CreateFolder
    <3> QED BY <2>1, <3>2 DEF CreateFolder, TypeOK
  <2>2. ASSUME NEW confirmed \in BOOLEAN, DeleteFolder(confirmed) PROVE TypeOK'
    <3> DEFINE F == IF folders[selected] # <<>> THEN FilesBelow(folders, selected) ELSE {selected} \cap Files
               found == Plus(endNodes, CardsOf(F))
    <3>1. F \in SUBSET Files
      BY DEF FilesBelow
    <3>2. found \in Cards /\ Plus(items, found) \in Cards
      BY <1>c, <3>1, CardTypes
    <3>3. selected \in Nodes
      BY <2>2 DEF DeleteFolder, TypeOK
    <3>4. \/ RemoveFolder(selected, found)
          \/ endNodes' = found /\ UNCHANGED <<folders, items, stale, selected, modified>>
      BY <2>2 DEF DeleteFolder
    <3>5. UNCHANGED <<cutNode, chosen, cut, saveVars>> /\ mishap' \in BOOLEAN
      BY <2>2 DEF DeleteFolder, TypeOK
    <3> HIDE DEF found
    <3>6. CASE RemoveFolder(selected, found)
      <4>1. folders' \in Trees BY <1>t, <3>3, <3>6, TreeTypes DEF RemoveFolder
      <4> QED BY <1>c, <3>2, <3>5, <3>6, <4>1 DEF RemoveFolder, TypeOK
    <3>7. CASE endNodes' = found /\ UNCHANGED <<folders, items, stale, selected, modified>>
      BY <3>2, <3>5, <3>7 DEF TypeOK
    <3> QED BY <3>4, <3>6, <3>7
  <2>3. ASSUME NEW t \in Trees, Reorder(t) PROVE TypeOK'
    BY <2>3 DEF Reorder, TypeOK
  <2>4. CASE MoveUp
    BY <1>t, <2>3, <2>4, TreeTypes DEF MoveUp
  <2>5. CASE MoveDown
    BY <1>t, <2>3, <2>5, TreeTypes DEF MoveDown
  <2>6. CASE SaveLabel
    BY <2>6 DEF SaveLabel, TypeOK
  <2> QED BY <1>4, <2>1, <2>2, <2>4, <2>5, <2>6 DEF Editing
<1>5. CASE Saving
  <2>1. CASE Save
    BY <1>t, <2>1, ShownType DEF Save, TypeOK
  <2>2. CASE SendRequest \/ ServerStores \/ ServerRefuses
    BY <2>2 DEF SendRequest, ServerStores, ServerRefuses, TypeOK
  <2>3. CASE Answer \/ AnswerLost
    BY <2>3 DEF Answer, AnswerLost, Completed, TypeOK
  <2> QED BY <1>5, <2>1, <2>2, <2>3 DEF Saving
<1>6. CASE UNCHANGED vars
  BY <1>6 DEF vars, TypeOK
<1> QED BY <1>1, <1>2, <1>3, <1>4, <1>5, <1>6 DEF Next

\* The variables keep their types, whatever the user does.
THEOREM StructTypes == Spec => []TypeOK
BY TypeInit, TypeStep, PTL DEF Spec

---------------------------------------------------------------------------
(* No file is lost *)

\* What holds until the first mishap, and is kept by every step: the tree is a
\* tree, a file is a card if and only if it has no place in it, what is chosen
\* or cut are cards, and only a node of the tree is selected.
Sound == /\ WellFormed(folders)
         /\ items = CardsOf(Files \ InTree)
         /\ endNodes = NoCards
         /\ \A f \in Files : chosen[f] + (IF stale THEN 0 ELSE cut[f]) <= items[f]
         /\ selected \in InTree \cup {Root, Nothing}

FileInv == /\ TypeOK
           /\ SelectionExclusive
           /\ mishap \/ Sound

LEMMA FileInvInit == Init => FileInv
<1> SUFFICES ASSUME Init PROVE FileInv
  OBVIOUS
<1>1. TypeOK BY TypeInit
<1>2. WellFormed(folders) BY StoredAssumption DEF Init
<1>3. items = CardsOf(Files \ InTree)
  BY DEF Init, CardsOf, InTree
<1>4. \A f \in Files : NoCards[f] = 0 BY DEF NoCards
<1> QED BY <1>1, <1>2, <1>3, <1>4 DEF Init, FileInv, Sound, SelectionExclusive, CardsOf

LEMMA ExclusiveStep == FileInv /\ [Next]_vars => SelectionExclusive'
<1> SUFFICES ASSUME FileInv, [Next]_vars PROVE SelectionExclusive'
  OBVIOUS
<1> USE DEF FileInv, SelectionExclusive, treeVars, galleryVars, saveVars
<1>1. CASE Selecting
  BY <1>1 DEF Selecting, SelectCards, SelectNode, Deselect, CutSelected, CutCards, CutNode,
              UndoCut, ClearClipboard
<1>2. CASE Pasting
  BY <1>2 DEF Pasting, PasteCards, AddFiles, PasteNode, GroupSelected
<1>3. CASE Dragging
  BY <1>3 DEF Dragging, DropCard, DropCutCard, DropCardBack, DragNode, DropNode
<1>4. CASE Editing
  BY <1>4 DEF Editing, CreateFolder, DeleteFolder, RemoveFolder, MoveUp, MoveDown, Reorder, SaveLabel
<1>5. CASE Saving
  BY <1>5 DEF Saving, Save, SendRequest, ServerStores, ServerRefuses, Answer, AnswerLost, Completed
<1>6. CASE UNCHANGED vars
  BY <1>6 DEF vars
<1> QED BY <1>1, <1>2, <1>3, <1>4, <1>5, <1>6 DEF Next

\* Cards and places of the files of L change sides: what pasting and dragging do.
LEMMA CardsBecomePlaces ==
    ASSUME NEW t, NEW u, NEW L \in SUBSET Files, Placed(u) \cap Files = (Placed(t) \cap Files) \cup L,
           NEW c \in Cards, \A f \in Files : c[f] > 0 <=> f \in L
    PROVE  Minus(CardsOf(Files \ Placed(t)), c) = CardsOf(Files \ Placed(u))
<1>1. \A f \in Files : c[f] \in Nat /\ (c[f] > 0 => c[f] >= 1)
  BY DEF Cards
<1> QED BY <1>1 DEF Minus, CardsOf

LEMMA SoundPasteCards ==
    ASSUME FileInv, ~mishap, NEW a \in SetToSeqs(FilesOf(cut)), PasteCards(a), ~mishap'
    PROVE  Sound'
<1> USE DEF treeVars, galleryVars, saveVars
<1> DEFINE t == folders
           p == selected
           s == t[p] \o a
<1>1. Sound /\ TypeOK /\ ~stale
  BY DEF FileInv, PasteCards, AddFiles
<1>2. WellFormed(t) /\ p \in (Placed(t) \cup {Root}) \ Files /\ p \in Nodes
  BY <1>1, ShownType DEF Sound, PasteCards, AddFiles, InTree, TypeOK
<1>3. a \in Seq(Nodes) /\ ToSet(a) = FilesOf(cut) /\ IsInjective(a)
  BY <1>1, ArrangedCards DEF TypeOK
<1>4. FilesOf(cut) \cap Placed(t) = {} /\ FilesOf(cut) \in SUBSET Files
  BY DEF PasteCards, Pastable, InTree, FilesOf
<1>5. t[p] \in Seq(Nodes) /\ IsInjective(t[p]) /\ ToSet(t[p]) \subseteq Placed(t)
  BY <1>2 DEF WellFormed, Trees, Placed, Below
<1>6. s \in Seq(Nodes) /\ ToSet(s) = ToSet(t[p]) \cup FilesOf(cut) /\ IsInjective(s)
  BY <1>3, <1>4, <1>5, Concat, ConcatSet, ConcatInjective
<1>7. FilesOf(cut) \in SUBSET (Nodes \ {Root})
  BY <1>4, StructAssumption DEF Nodes
<1>8. folders' = [t EXCEPT ![p] = s]
  BY DEF PasteCards, AddFiles
<1> HIDE DEF s
<1>9. WellFormed(folders') /\ Placed(folders') = Placed(t) \cup FilesOf(cut)
  <2>1. Root \notin ToSet(s) /\ ToSet(t[p]) \subseteq ToSet(s) /\ ToSet(s) \cap Placed(t) \subseteq ToSet(t[p])
    BY <1>2, <1>4, <1>5, <1>6, <1>7 DEF WellFormed, Below
  <2>2. WellFormed([t EXCEPT ![p] = s]) /\ Placed([t EXCEPT ![p] = s]) = Placed(t) \cup ToSet(s)
    BY <1>2, <1>6, <2>1, AddLeaves
  <2> QED BY <1>5, <1>6, <1>8, <2>2
<1>10. items' = Minus(CardsOf(Files \ Placed(t)), cut)
  BY <1>1 DEF PasteCards, AddFiles, Uncut, Sound, InTree
<1>11. \A f \in Files : cut[f] > 0 <=> f \in FilesOf(cut)
  BY DEF FilesOf
<1>12. items' = CardsOf(Files \ Placed(folders'))
  <2>1. cut \in Cards /\ Placed(folders') \cap Files = (Placed(t) \cap Files) \cup FilesOf(cut)
    BY <1>1, <1>4, <1>9 DEF TypeOK
  <2> QED BY <1>4, <1>10, <1>11, <2>1, CardsBecomePlaces
<1>13. UNCHANGED <<endNodes, selected>> /\ chosen' = NoCards /\ cut' = NoCards
  BY DEF PasteCards, AddFiles, ClearClipboard
<1>14. \A f \in Files : NoCards[f] = 0 /\ items'[f] >= 0
  BY <1>12 DEF NoCards, CardsOf
<1> QED BY <1>1, <1>9, <1>12, <1>13, <1>14 DEF Sound, InTree

LEMMA SoundPasteNode ==
    ASSUME FileInv, ~mishap, PasteNode, ~mishap'
    PROVE  Sound'
<1> USE DEF treeVars, galleryVars, saveVars
<1> DEFINE at == IF cutNode \in Files THEN Len(RemoveNode(folders, cutNode)[selected]) + 1 ELSE 1
<1>1. Sound /\ TypeOK
  BY DEF FileInv
<1>2. /\ WellFormed(folders) /\ cutNode \in Placed(folders) /\ cutNode \in Nodes
      /\ selected \in (Placed(folders) \cup {Root}) \ Files /\ selected \in Nodes
      /\ selected \notin Under(folders, cutNode)
  BY <1>1, ShownType DEF Sound, PasteNode, InTree, TypeOK
<1>3. RemoveNode(folders, cutNode)[selected] \in Seq(Nodes)
  BY <1>2, Without DEF Trees
<1>4. at \in 1 .. Len(RemoveNode(folders, cutNode)[selected]) + 1
  BY <1>3
<1>5. folders' = MoveNode(folders, cutNode, selected, at)
  BY <1>2 DEF PasteNode
<1> HIDE DEF at
<1>6. WellFormed(folders') /\ Placed(folders') = Placed(folders)
  BY <1>2, <1>4, <1>5, Moved
<1>7. UNCHANGED <<items, endNodes, chosen>> /\ cut' = NoCards /\ selected' = Nothing
  BY DEF PasteNode, ClearClipboard
<1>8. \A f \in Files : chosen[f] \in Nat /\ cut[f] \in Nat /\ items[f] \in Nat
  BY <1>1 DEF TypeOK, Cards
<1>9. \A f \in Files : NoCards[f] = 0 /\ chosen[f] <= items[f]
  BY <1>1, <1>8 DEF NoCards, Sound
<1>10. \A f \in Files : chosen'[f] + (IF stale' THEN 0 ELSE cut'[f]) <= items'[f]
  BY <1>7, <1>8, <1>9
<1>11. items' = CardsOf(Files \ InTree')
  BY <1>1, <1>6, <1>7 DEF Sound, InTree
<1> QED BY <1>1, <1>6, <1>7, <1>10, <1>11 DEF Sound

LEMMA SoundGroup ==
    ASSUME FileInv, ~mishap, NEW new \in Folders,
           NEW a \in UNION {SetToSeqs(S) : S \in SUBSET Files}, GroupSelected(new, a), ~mishap'
    PROVE  Sound'
<1> USE DEF treeVars, galleryVars, saveVars
<1> DEFINE now == IF chosen # NoCards THEN chosen ELSE cut
           old == chosen = NoCards /\ stale
           t   == [folders EXCEPT ![Root] = Cons(new, folders[Root])]
<1>1. Sound /\ TypeOK /\ (old => now = NoCards)
  BY DEF FileInv, GroupSelected
<1>2. /\ new \notin Placed(folders) /\ new \in Nodes \ {Root} /\ Root \in Nodes /\ Root \notin Files
      /\ new \notin Files /\ WellFormed(folders)
  BY <1>1, StructAssumption DEF GroupSelected, FreshId, InTree, Sound, Nodes
<1>3. now \in Cards
  BY <1>1 DEF TypeOK
<1>4. /\ FilesOf(now) \cap Placed(folders) = {} /\ a \in SetToSeqs(FilesOf(now))
      /\ folders' = [folders EXCEPT ![Root] = Cons(new, @), ![new] = a]
      /\ items' = IF old THEN items ELSE Minus(items, now)
  BY DEF GroupSelected, InTree
<1>5. FilesOf(now) \in SUBSET Files
  BY DEF FilesOf
<1>6. a \in Seq(Nodes) /\ ToSet(a) = FilesOf(now) /\ IsInjective(a)
  BY <1>3, <1>4, ArrangedCards
<1>8. WellFormed(t) /\ Placed(t) = Placed(folders) \cup {new}
  BY <1>2, NewNode
<1>9. t[new] = <<>> /\ folders' = [t EXCEPT ![new] = a]
  <2>1. folders[new] = <<>> BY <1>2 DEF WellFormed
  <2>2. folders \in Trees BY <1>2 DEF WellFormed
  <2> QED BY <1>2, <1>4, <2>1, <2>2 DEF Trees
<1>10. WellFormed(folders') /\ Placed(folders') = Placed(t) \cup FilesOf(now)
  <2>1. FilesOf(now) \cap (Placed(t) \cup {Root}) = {}
    BY <1>2, <1>4, <1>5, <1>8
  <2>2. ToSet(t[new]) = {}
    BY <1>9 DEF ToSet
  <2>3. /\ new \in (Placed(t) \cup {Root}) \ Files /\ Root \notin ToSet(a)
        /\ ToSet(t[new]) \subseteq ToSet(a) /\ ToSet(a) \cap Placed(t) \subseteq ToSet(t[new])
    BY <1>2, <1>6, <1>8, <2>1, <2>2
  <2> HIDE DEF t
  <2>4. WellFormed([t EXCEPT ![new] = a]) /\ Placed([t EXCEPT ![new] = a]) = Placed(t) \cup ToSet(a)
    BY <1>6, <1>8, <2>3, AddLeaves
  <2> QED BY <1>6, <1>9, <2>4
<1>11. Placed(folders') \cap Files = (Placed(folders) \cap Files) \cup FilesOf(now)
  BY <1>2, <1>5, <1>8, <1>10
<1>12. \A f \in Files : now[f] > 0 <=> f \in FilesOf(now)
  BY DEF FilesOf
<1>13. items' = Minus(CardsOf(Files \ Placed(folders)), now)
  <2>1. items = CardsOf(Files \ Placed(folders)) BY <1>1 DEF Sound, InTree
  <2>2. CASE old
    <3>1. Minus(items, NoCards) = items
      BY <1>1 DEF Minus, NoCards, TypeOK, Cards
    <3> QED BY <1>1, <1>4, <2>1, <2>2, <3>1
  <2>3. CASE ~old
    BY <1>4, <2>1, <2>3
  <2> QED BY <2>2, <2>3
<1> HIDE DEF now, old
<1>14. items' = CardsOf(Files \ Placed(folders'))
  BY <1>3, <1>5, <1>11, <1>12, <1>13, CardsBecomePlaces
<1>15. UNCHANGED endNodes /\ chosen' = NoCards /\ cut' = NoCards /\ selected' = new
  BY DEF GroupSelected, ClearClipboard
<1>16. \A f \in Files : NoCards[f] = 0 /\ items'[f] >= 0
  BY <1>14 DEF NoCards, CardsOf
<1>17. new \in Placed(folders')
  BY <1>8, <1>10
<1>18. \A f \in Files : chosen'[f] + (IF stale' THEN 0 ELSE cut'[f]) <= items'[f]
  BY <1>14, <1>15, <1>16 DEF CardsOf
<1> QED BY <1>1, <1>10, <1>14, <1>15, <1>17, <1>18 DEF Sound, InTree

\* Chosen and cut cards are cards, said of the numbers.
LEMMA CardNumbers ==
    ASSUME TypeOK
    PROVE  \A f \in Files : /\ items[f] \in Nat /\ chosen[f] \in Nat /\ cut[f] \in Nat
                            /\ NoCards[f] = 0
BY DEF TypeOK, Cards, NoCards

LEMMA SoundSelecting ==
    ASSUME FileInv, ~mishap, Selecting
    PROVE  Sound'
<1> USE DEF treeVars, galleryVars, saveVars
<1>1. Sound /\ TypeOK /\ SelectionExclusive /\ Shown \subseteq InTree \cup {Root}
  BY ShownType DEF FileInv, TypeOK
<1>2. UNCHANGED <<folders, items, endNodes>>
  BY DEF Selecting, SelectCards, SelectNode, Deselect, CutSelected, CutCards, CutNode, UndoCut, ClearClipboard
<1>3. WellFormed(folders') /\ InTree' = InTree /\ items' = CardsOf(Files \ InTree') /\ endNodes' = NoCards
  BY <1>1, <1>2 DEF Sound, InTree
<1>4. selected' \in InTree \cup {Root, Nothing}
  BY <1>1 DEF Selecting, SelectCards, SelectNode, Deselect, CutSelected, CutCards, CutNode, UndoCut, ClearClipboard, Sound
<1>5. \A f \in Files : chosen'[f] + (IF stale' THEN 0 ELSE cut'[f]) <= items[f]
  <2>1. \A f \in Files : chosen[f] + (IF stale THEN 0 ELSE cut[f]) <= items[f]
    BY <1>1 DEF Sound
  <2>2. ASSUME NEW c \in [Files -> 0 .. MaxCopies], SelectCards(c)
      PROVE  \A f \in Files : chosen'[f] + (IF stale' THEN 0 ELSE cut'[f]) <= items[f]
    <3>1. \A f \in Files : c[f] \in Int BY StructAssumption
    <3> QED BY <1>1, <2>2, <3>1, CardNumbers DEF SelectCards, Enabled
  <2>3. ASSUME NEW n \in Shown, SelectNode(n)
      PROVE  \A f \in Files : chosen'[f] + (IF stale' THEN 0 ELSE cut'[f]) <= items[f]
    BY <1>1, <2>1, <2>3, CardNumbers DEF SelectNode
  <2>4. CASE Deselect
    BY <1>1, <2>1, <2>4, CardNumbers DEF Deselect
  <2>5. CASE CutSelected
    BY <1>1, <2>1, <2>5, CardNumbers DEF CutSelected, CutCards, CutNode
  <2>6. CASE UndoCut
    BY <1>1, <2>1, <2>6, CardNumbers DEF UndoCut, ClearClipboard
  <2> QED BY <2>2, <2>3, <2>4, <2>5, <2>6 DEF Selecting
<1> QED BY <1>2, <1>3, <1>4, <1>5 DEF Sound

LEMMA SoundDragging ==
    ASSUME FileInv, ~mishap, Dragging, ~mishap'
    PROVE  Sound'
<1> USE DEF treeVars, galleryVars, saveVars
<1>1. /\ Sound /\ TypeOK /\ WellFormed(folders) /\ Shown \subseteq InTree \cup {Root}
      /\ Containers \subseteq (InTree \cup {Root}) \ Files /\ InTree = Placed(folders) /\ InTree \subseteq Nodes
  BY ShownType DEF FileInv, TypeOK, Sound, InTree
<1>2. ASSUME NEW n \in Containers, NEW f \in Files, DropCard(f, n) PROVE Sound'
  <2>1. f \in Nodes \ ({Root} \cup Placed(folders)) /\ n \in (Placed(folders) \cup {Root}) \ Files
    BY <1>1, <1>2, StructAssumption DEF DropCard, InTree, Nodes
  <2>2. folders' = [folders EXCEPT ![n] = Append(folders[n], f)]
    BY <1>2 DEF DropCard
  <2>3. WellFormed(folders') /\ Placed(folders') = Placed(folders) \cup {f}
    BY <1>1, <2>1, <2>2, NewNode
  <2>4. items' = [items EXCEPT ![f] = items[f] - 1] /\ UNCHANGED endNodes
    BY <1>2 DEF DropCard
  <2>5. items = [g \in Files |-> IF g \in Files \ InTree THEN 1 ELSE 0]
    BY <1>1 DEF Sound, CardsOf
  <2>6. items' = CardsOf(Files \ InTree')
    BY <1>1, <2>1, <2>3, <2>4, <2>5 DEF CardsOf, InTree
  <2>7. selected' = Nothing /\ chosen' = NoCards /\ cut' = NoCards
    BY <1>2 DEF DropCard, ClearClipboard
  <2>8. \A g \in Files : chosen'[g] + (IF stale' THEN 0 ELSE cut'[g]) <= items'[g]
    BY <1>1, <2>6, <2>7, CardNumbers DEF CardsOf
  <2> QED BY <1>1, <2>3, <2>4, <2>6, <2>7, <2>8 DEF Sound
<1>3. CASE DropCardBack
  <2>1. \A f \in Files : chosen'[f] + (IF stale' THEN 0 ELSE cut'[f]) <= items[f]
    BY <1>1, <1>3, CardNumbers DEF DropCardBack
  <2> QED BY <1>1, <1>3, <2>1 DEF DropCardBack, Sound, InTree
<1>4. CASE DragNode
  <2>a. PICK x \in InTree \cap Shown :
               \E n \in Containers \ Under(folders, x) : \E i \in 1 .. Len(folders[n]) + 1 : DropNode(x, n, i)
    BY <1>4 DEF DragNode
  <2>b. PICK n \in Containers \ Under(folders, x) : \E i \in 1 .. Len(folders[n]) + 1 : DropNode(x, n, i)
    BY <2>a
  <2>1. PICK i \in 1 .. Len(folders[n]) + 1 : DropNode(x, n, i)
    BY <2>b
  <2>2. /\ i \in 1 .. Len(RemoveNode(folders, x)[n]) + 1
        /\ folders' = MoveNode(folders, x, n, i)
        /\ UNCHANGED <<items, chosen, endNodes>> /\ cut' = NoCards /\ selected' = Nothing
    BY <2>1 DEF DropNode, ClearClipboard
  <2>3. WellFormed(folders') /\ Placed(folders') = Placed(folders)
    BY <1>1, <2>1, <2>2, Moved
  <2>4. \A f \in Files : chosen'[f] + (IF stale' THEN 0 ELSE cut'[f]) <= items'[f]
    <3>a. ASSUME NEW f \in Files PROVE chosen[f] <= items[f]
      <4>1. chosen[f] + (IF stale THEN 0 ELSE cut[f]) <= items[f]
        BY <1>1 DEF Sound
      <4>2. chosen[f] \in Nat /\ cut[f] \in Nat /\ items[f] \in Nat
        BY <1>1, CardNumbers
      <4>3. CASE stale BY <4>1, <4>2, <4>3
      <4>4. CASE ~stale BY <4>1, <4>2, <4>4
      <4> QED BY <4>3, <4>4
    <3>1. \A f \in Files : chosen[f] <= items[f]
      BY <3>a
    <3>2. \A f \in Files : cut'[f] = 0 /\ chosen'[f] = chosen[f] /\ items'[f] = items[f]
      BY <2>2 DEF NoCards
    <3>3. \A f \in Files : chosen[f] \in Nat /\ items[f] \in Nat
      BY <1>1, CardNumbers
    <3>4. ASSUME NEW f \in Files PROVE chosen'[f] + (IF stale' THEN 0 ELSE cut'[f]) <= items'[f]
      <4>1. CASE stale' BY <3>1, <3>2, <3>3, <4>1
      <4>2. CASE ~stale' BY <3>1, <3>2, <3>3, <4>2
      <4> QED BY <4>1, <4>2
    <3> QED BY <3>4
  <2> QED BY <1>1, <2>2, <2>3, <2>4 DEF Sound, InTree
<1> QED BY <1>2, <1>3, <1>4 DEF Dragging, DropCutCard

LEMMA SoundDelete ==
    ASSUME FileInv, ~mishap, NEW confirmed \in BOOLEAN, DeleteFolder(confirmed), ~mishap'
    PROVE  Sound'
<1> USE DEF treeVars, galleryVars, saveVars
<1> DEFINE x == selected
           F == IF folders[x] # <<>> THEN FilesBelow(folders, x) ELSE {x} \cap Files
           found == Plus(endNodes, CardsOf(F))
<1>1. /\ Sound /\ TypeOK /\ WellFormed(folders) /\ x \in Placed(folders) /\ InTree = Placed(folders)
      /\ selected # Nothing
  BY DEF FileInv, DeleteFolder, Sound, InTree
<1>2. chosen = NoCards /\ UNCHANGED <<chosen, cut>>
  BY <1>1 DEF FileInv, SelectionExclusive, DeleteFolder
<1>3. found = CardsOf(F)
  BY <1>1 DEF Sound, Plus, NoCards, CardsOf
<1>4. F = Under(folders, x) \cap Files
  <2>1. Under(folders, x) \subseteq Nodes /\ x \in Under(folders, x) /\ x \in Nodes
    BY <1>1, UnderPlaced, UnderClosed DEF WellFormed
  <2>2. CASE folders[x] # <<>>
    BY <1>1, <2>1, <2>2 DEF FilesBelow, WellFormed
  <2>3. CASE folders[x] = <<>>
    <3>1. Closed(folders, {x})
      BY <2>3 DEF Closed, Below, ToSet
    <3>2. Under(folders, x) = {x}
      BY <2>1, <3>1, UnderLeast
    <3> QED BY <2>3, <3>2
  <2> QED BY <2>2, <2>3
<1>5. CASE RemoveFolder(x, found)
  <2>1. WellFormed(folders') /\ Placed(folders') = Placed(folders) \ Under(folders, x)
    BY <1>1, <1>5, Deleted DEF RemoveFolder
  <2>2. Under(folders, x) \subseteq Placed(folders)
    <3>1. Under(folders, x) \subseteq Placed(folders) \cup {x}
      <4>1. Closed(folders, Placed(folders)) /\ Placed(folders) \in SUBSET Nodes
        BY <1>1, UnderPlaced DEF Closed, Placed, WellFormed
      <4> QED BY <1>1, <4>1, UnderLeast
    <3> QED BY <1>1, <3>1
  <2>3. items' = Plus(CardsOf(Files \ Placed(folders)), CardsOf(Under(folders, x) \cap Files))
    BY <1>1, <1>3, <1>4, <1>5 DEF RemoveFolder, Sound
  <2>4. items' = CardsOf(Files \ Placed(folders'))
    BY <2>1, <2>2, <2>3 DEF Plus, CardsOf
  <2>5. endNodes' = NoCards /\ selected' = Nothing
        /\ stale' = (stale \/ (found # NoCards /\ cut # NoCards))
    BY <1>5 DEF RemoveFolder
  <2>6. \A f \in Files : items[f] <= items'[f]
    BY <1>1, <2>1, <2>4 DEF Sound, CardsOf
  <2>7. \A f \in Files : chosen'[f] + (IF stale' THEN 0 ELSE cut'[f]) <= items'[f]
    <3>1. \A f \in Files : items'[f] \in Nat
      BY <2>4 DEF CardsOf
    <3>2. \A f \in Files : chosen[f] + (IF stale THEN 0 ELSE cut[f]) <= items[f]
      BY <1>1 DEF Sound
    <3>3. \A f \in Files : chosen'[f] = 0 /\ cut'[f] = cut[f] /\ cut[f] \in Nat /\ items[f] \in Nat /\ chosen[f] \in Nat
      BY <1>1, <1>2, CardNumbers DEF NoCards
    <3>4. stale => stale'
      BY <2>5
    <3> HIDE DEF found
    <3>5. ASSUME NEW f \in Files PROVE chosen'[f] + (IF stale' THEN 0 ELSE cut'[f]) <= items'[f]
      <4>1. CASE stale'
        BY <3>1, <3>3, <4>1
      <4>2. CASE ~stale'
        BY <2>6, <3>1, <3>2, <3>3, <3>4, <4>2
      <4> QED BY <4>1, <4>2
    <3> QED BY <3>5
  <2> QED BY <2>1, <2>4, <2>5, <2>7 DEF Sound, InTree
<1>6. CASE ~confirmed
  <2>1. UNCHANGED <<folders, items, stale, selected>> /\ endNodes' = found /\ found = NoCards
    BY <1>6 DEF DeleteFolder
  <2> HIDE DEF found
  <2> QED BY <1>1, <1>2, <2>1 DEF Sound, InTree
<1> QED BY <1>5, <1>6 DEF DeleteFolder

LEMMA SoundEditing ==
    ASSUME FileInv, ~mishap, Editing, ~mishap'
    PROVE  Sound'
<1> USE DEF treeVars, galleryVars, saveVars
<1>1. Sound /\ TypeOK /\ WellFormed(folders) /\ InTree = Placed(folders)
  BY DEF FileInv, Sound, InTree
<1>2. ASSUME NEW new \in Folders, CreateFolder(new) PROVE Sound'
  <2> DEFINE parent == IF selected = Nothing THEN Root ELSE selected
  <2>1. /\ parent \in (Placed(folders) \cup {Root}) \ Files
        /\ new \in Nodes \ ({Root} \cup Placed(folders)) /\ new \notin Files
    BY <1>1, <1>2, StructAssumption DEF CreateFolder, FreshId, Sound, Nodes
  <2>2. /\ folders' = [folders EXCEPT ![parent] = Cons(new, folders[parent])]
        /\ UNCHANGED <<selected, galleryVars>>
    BY <1>2 DEF CreateFolder
  <2> HIDE DEF parent
  <2>3. WellFormed(folders') /\ Placed(folders') = Placed(folders) \cup {new}
    BY <1>1, <2>1, <2>2, NewNode
  <2>4. Files \ Placed(folders') = Files \ Placed(folders)
    BY <2>1, <2>3
  <2> QED BY <1>1, <2>2, <2>3, <2>4 DEF Sound, InTree
<1>3. ASSUME NEW confirmed \in BOOLEAN, DeleteFolder(confirmed) PROVE Sound'
  BY <1>3, SoundDelete
<1>4. ASSUME NEW t, WellFormed(t), Placed(t) = Placed(folders), Reorder(t) PROVE Sound'
  BY <1>1, <1>4 DEF Reorder, Sound, InTree
<1>5. ASSUME NEW p \in Nodes, NEW i \in 1 .. Len(folders[p]) - 1,
             Reorder([folders EXCEPT ![p] = Swapped(folders[p], i)])
      PROVE  Sound'
  <2>1. /\ WellFormed([folders EXCEPT ![p] = Swapped(folders[p], i)])
        /\ Placed([folders EXCEPT ![p] = Swapped(folders[p], i)]) = Placed(folders)
    BY <1>1, Permuted
  <2> QED BY <1>4, <1>5, <2>1
<1>6. ASSUME Reorder(folders) PROVE Sound'
  BY <1>1, <1>4, <1>6
<1>7. CASE MoveUp
  BY <1>5, <1>6, <1>7 DEF MoveUp
<1>8. CASE MoveDown
  BY <1>5, <1>6, <1>8 DEF MoveDown
<1>9. CASE SaveLabel
  BY <1>1, <1>9 DEF SaveLabel, Sound, InTree
<1> QED BY <1>2, <1>3, <1>7, <1>8, <1>9 DEF Editing

LEMMA FileInvStep == FileInv /\ [Next]_vars => FileInv'
<1> SUFFICES ASSUME FileInv, [Next]_vars PROVE FileInv'
  OBVIOUS
<1> USE DEF treeVars, galleryVars, saveVars
<1>1. TypeOK' /\ SelectionExclusive'
  BY TypeStep, ExclusiveStep DEF FileInv
<1>2. mishap => mishap'
  <2>1. mishap \in BOOLEAN BY DEF FileInv, TypeOK
  <2>2. CASE Selecting
    BY <2>2 DEF Selecting, SelectCards, SelectNode, Deselect, CutSelected, UndoCut
  <2>3. CASE Pasting
    BY <2>3 DEF Pasting, PasteCards, AddFiles, PasteNode, GroupSelected
  <2>4. CASE Dragging
    BY <2>4 DEF Dragging, DropCard, DropCutCard, DropCardBack, DragNode, DropNode
  <2>5. CASE Editing
    BY <2>5 DEF Editing, CreateFolder, DeleteFolder, MoveUp, MoveDown, Reorder, SaveLabel
  <2>6. CASE Saving
    BY <2>6 DEF Saving, Save, SendRequest, ServerStores, ServerRefuses, Answer, AnswerLost, Completed
  <2> QED BY <2>2, <2>3, <2>4, <2>5, <2>6 DEF Next, vars
<1>3. ASSUME ~mishap, ~mishap' PROVE Sound'
  <2>1. CASE Selecting BY <1>3, <2>1, SoundSelecting
  <2>2. CASE Pasting BY <1>3, <2>2, SoundPasteCards, SoundPasteNode, SoundGroup DEF Pasting
  <2>3. CASE Dragging BY <1>3, <2>3, SoundDragging
  <2>4. CASE Editing BY <1>3, <2>4, SoundEditing
  <2>5. CASE Saving
    <3>1. UNCHANGED <<treeVars, galleryVars>>
      BY <2>5 DEF Saving, Save, SendRequest, ServerStores, ServerRefuses, Answer, AnswerLost, Completed
    <3> QED BY <1>3, <3>1 DEF FileInv, Sound, InTree
  <2>6. CASE UNCHANGED vars
    BY <1>3, <2>6 DEF vars, FileInv, Sound, InTree
  <2> QED BY <2>1, <2>2, <2>3, <2>4, <2>5, <2>6 DEF Next
<1> QED BY <1>1, <1>2, <1>3 DEF FileInv

\* Until the first mishap every file is a card or has one place in the tree.
THEOREM FilesKept == Spec => []EveryFileOnce
<1>1. FileInv => EveryFileOnce
  <2> SUFFICES ASSUME FileInv, ~mishap
               PROVE  /\ WellFormed(folders)
                      /\ \A f \in Files : items[f] + Cardinality(Positions(folders, f)) = 1
    BY DEF EveryFileOnce
  <2>1. WellFormed(folders) /\ items = CardsOf(Files \ Placed(folders))
    BY DEF FileInv, Sound, InTree
  <2>2. ASSUME NEW f \in Files PROVE items[f] + Cardinality(Positions(folders, f)) = 1
    BY <2>1, OnePosition DEF CardsOf
  <2> QED BY <2>1, <2>2
<1> QED BY <1>1, FileInvInit, FileInvStep, PTL DEF Spec

\* The tree and the gallery never both have a selection.
THEOREM OneSelection == Spec => []SelectionExclusive
<1>1. FileInv => SelectionExclusive BY DEF FileInv
<1> QED BY <1>1, FileInvInit, FileInvStep, PTL DEF Spec

\* Until the first mishap the chosen and the cut cards are cards of the gallery.
THEOREM ChosenKept == Spec => []ChosenAreThere
<1>1. FileInv => ChosenAreThere BY DEF FileInv, Sound, ChosenAreThere
<1> QED BY <1>1, FileInvInit, FileInvStep, PTL DEF Spec

\* Until the first mishap a save sends the whole tree.
THEOREM SavesWhole == Spec => SavedWhole
<1>1. FileInv /\ Save => mishap \/ sent' = folders
  BY CleanWhole DEF FileInv, Sound, Save
<1>2. FileInv /\ [Next]_vars => [Save => mishap \/ sent' = folders]_vars
  BY <1>1
<1> QED BY <1>2, FileInvInit, FileInvStep, PTL DEF Spec, SavedWhole

---------------------------------------------------------------------------
(* Saving *)

\* While a request is on its way the page says so, and the tree counts as
\* modified since the edit that allowed the save.
SaveInv == /\ request # "none" => modified /\ saveState = "SAVING"
           /\ request = "done" => stored = sent
           /\ SavedIsStored

LEMMA SaveInvStep == TypeOK /\ SaveInv /\ [Next]_vars => SaveInv'
<1> SUFFICES ASSUME TypeOK, SaveInv, [Next]_vars PROVE SaveInv'
  OBVIOUS
<1> USE DEF treeVars, galleryVars, saveVars, SaveInv, SavedIsStored
<1>1. CASE Selecting
  BY <1>1 DEF Selecting, SelectCards, SelectNode, Deselect, CutSelected, CutCards, CutNode,
              UndoCut, ClearClipboard
<1>2. CASE Pasting
  BY <1>2 DEF Pasting, PasteCards, AddFiles, PasteNode, GroupSelected
<1>3. CASE Dragging
  BY <1>3 DEF Dragging, DropCard, DropCutCard, DropCardBack, DragNode, DropNode
<1>4. CASE Editing
  BY <1>4 DEF Editing, CreateFolder, DeleteFolder, RemoveFolder, MoveUp, MoveDown, Reorder, SaveLabel
<1>5. CASE Saving
  BY <1>5 DEF Saving, Save, SendRequest, ServerStores, ServerRefuses, Answer, AnswerLost, Completed
<1>6. CASE UNCHANGED vars
  BY <1>6 DEF vars
<1> QED BY <1>1, <1>2, <1>3, <1>4, <1>5, <1>6 DEF Next

LEMMA SaveInvInit == Init => SaveInv
BY DEF Init, SaveInv, SavedIsStored

\* A save that is reported as done has been stored as it was sent.
THEOREM SaysSaved == Spec => []SavedIsStored
<1>1. SaveInv => SavedIsStored BY DEF SaveInv
<1> QED BY <1>1, TypeInit, TypeStep, SaveInvInit, SaveInvStep, PTL DEF Spec
=============================================================================
