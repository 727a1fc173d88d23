--------------------------- MODULE SequenceLemmas ---------------------------
(* What the sequence operators that the models use do to the elements of a   *)
(* sequence.  The models of the pages of the browser move elements between   *)
(* sequences; their proofs need the elements, and that none is there twice.  *)
EXTENDS Integers, FiniteSets, Sequences, SequencesExt, FiniteSetTheorems,
        WellFoundedInduction, TLAPS

\* A set of naturals that is not empty has a least element.
LEMMA Least ==
    ASSUME NEW I \in SUBSET Nat, I # {}
    PROVE  \E x \in I : \A y \in I : x <= y
<1>1. IsWellFoundedOn(OpToRel(<, Nat), Nat)
  BY NatLessThanWellFounded
<1>2. PICK x \in I : \A y \in I : ~ (<<y, x>> \in OpToRel(<, Nat))
  BY <1>1, WFMin
<1>3. ASSUME NEW y \in I PROVE x <= y
  <2>1. ~ (<<y, x>> \in OpToRel(<, Nat)) BY <1>2
  <2>2. x \in Nat /\ y \in Nat OBVIOUS
  <2>3. ~ (y < x) 
    <3> SUFFICES ASSUME y < x PROVE FALSE OBVIOUS
    <3>1. <<y, x>> \in Nat \X Nat BY <2>2
    <3>2. <<y, x>> \in {ss \in Nat \X Nat : ss[1] < ss[2]} BY <3>1
    <3> QED BY <3>2, <2>1, Zenon DEF OpToRel
  <2> QED BY <2>2, <2>3
<1> QED BY <1>3

\* Induction up to n, for a set of the numbers for which something holds.
LEMMA UpTo ==
    ASSUME NEW n \in Nat, NEW G, 0 \in G, \A k \in 1 .. n : k - 1 \in G => k \in G
    PROVE  \A k \in 0 .. n : k \in G
<1> SUFFICES ASSUME (0 .. n) \ G # {} PROVE FALSE
  OBVIOUS
<1> DEFINE I == (0 .. n) \ G
<1>1. PICK x \in I : \A y \in I : x <= y
  <2>1. I \in SUBSET Nat /\ I # {} OBVIOUS
  <2> HIDE DEF I
  <2> QED BY <2>1, Least
<1>2. x \in 0 .. n /\ x \notin G
  BY DEF I
<1>3. x \in 1 .. n
  BY <1>2
<1>4. x - 1 \notin I /\ x - 1 \in 0 .. n
  <2> HIDE DEF I
  <2>1. x - 1 \in 0 .. n BY <1>3
  <2>2. ASSUME x - 1 \in I PROVE FALSE
    <3>1. x <= x - 1 BY <1>1, <2>2
    <3> QED BY <1>3, <3>1
  <2> QED BY <2>1, <2>2
<1>5. x - 1 \in G
  BY <1>4 DEF I
<1> QED BY <1>2, <1>3, <1>5

\* Min chooses it.
LEMMA MinOf ==
    ASSUME NEW I \in SUBSET Nat, I # {}
    PROVE  Min(I) \in I
BY Least DEF Min

\* What \o is, position by position.
LEMMA Concat ==
    ASSUME NEW S, NEW u \in Seq(S), NEW v \in Seq(S)
    PROVE  /\ u \o v \in Seq(S)
           /\ Len(u \o v) = Len(u) + Len(v)
           /\ \A j \in 1 .. Len(u) + Len(v) : (u \o v)[j] = IF j <= Len(u) THEN u[j] ELSE v[j - Len(u)]
OBVIOUS

\* The elements of a concatenation.
LEMMA ConcatSet ==
    ASSUME NEW S, NEW u \in Seq(S), NEW v \in Seq(S)
    PROVE  ToSet(u \o v) = ToSet(u) \cup ToSet(v)
<1>1. ToSet(u \o v) \subseteq ToSet(u) \cup ToSet(v)
  BY Concat DEF ToSet
<1>2. ToSet(u) \subseteq ToSet(u \o v)
  BY Concat DEF ToSet
<1>3. ToSet(v) \subseteq ToSet(u \o v)
  <2>0. ToSet(v) = {v[j] : j \in 1 .. Len(v)}
    BY DEF ToSet
  <2> SUFFICES ASSUME NEW j \in 1 .. Len(v)
               PROVE  v[j] \in ToSet(u \o v)
    BY <2>0
  <2>1. Len(u) + j \in 1 .. Len(u) + Len(v) /\ (u \o v)[Len(u) + j] = v[j]
    BY Concat
  <2> QED BY <2>1, Concat DEF ToSet
<1> QED BY <1>1, <1>2, <1>3

\* Two sequences without repetition and without a common element give another.
LEMMA ConcatInjective ==
    ASSUME NEW S, NEW u \in Seq(S), NEW v \in Seq(S),
           IsInjective(u), IsInjective(v), ToSet(u) \cap ToSet(v) = {}
    PROVE  IsInjective(u \o v)
<1> SUFFICES ASSUME NEW a \in 1 .. Len(u) + Len(v), NEW b \in 1 .. Len(u) + Len(v),
                    (u \o v)[a] = (u \o v)[b]
             PROVE  a = b
  BY Concat DEF IsInjective
<1>1. CASE a <= Len(u) /\ b <= Len(u)
  BY <1>1, Concat DEF IsInjective
<1>2. CASE a > Len(u) /\ b > Len(u)
  <2>1. a - Len(u) \in DOMAIN v /\ b - Len(u) \in DOMAIN v /\ v[a - Len(u)] = v[b - Len(u)]
    BY <1>2, Concat
  <2>2. a - Len(u) = b - Len(u) BY <2>1 DEF IsInjective
  <2> QED BY <2>2
<1>3. CASE a <= Len(u) /\ b > Len(u)
  <2>1. b - Len(u) \in DOMAIN v /\ a \in DOMAIN u /\ u[a] = v[b - Len(u)]
    BY <1>3, Concat
  <2> QED BY <2>1 DEF ToSet
<1>4. CASE a > Len(u) /\ b <= Len(u)
  <2>1. a - Len(u) \in DOMAIN v /\ b \in DOMAIN u /\ u[b] = v[a - Len(u)]
    BY <1>4, Concat
  <2> QED BY <2>1 DEF ToSet
<1> QED BY <1>1, <1>2, <1>3, <1>4

\* An element at the end.
LEMMA Appended ==
    ASSUME NEW S, NEW s \in Seq(S), NEW x \in S
    PROVE  /\ Append(s, x) \in Seq(S)
           /\ ToSet(Append(s, x)) = ToSet(s) \cup {x}
           /\ IsInjective(s) /\ x \notin ToSet(s) => IsInjective(Append(s, x))
<1> DEFINE t == Append(s, x)
<1>1. t \in Seq(S) /\ Len(t) = Len(s) + 1 /\ t[Len(s) + 1] = x /\ \A i \in 1 .. Len(s) : t[i] = s[i]
  OBVIOUS
<1>2. DOMAIN t = 1 .. Len(s) + 1 /\ DOMAIN s = 1 .. Len(s)
  OBVIOUS
<1> HIDE DEF t
<1>3. ToSet(t) \subseteq ToSet(s) \cup {x}
  BY <1>1, <1>2 DEF ToSet
<1>4. ToSet(s) \cup {x} \subseteq ToSet(t)
  <2>1. x \in ToSet(t) BY <1>1, <1>2 DEF ToSet
  <2>2. ToSet(s) \subseteq ToSet(t) BY <1>1, <1>2 DEF ToSet
  <2> QED BY <2>1, <2>2
<1>5. IsInjective(s) /\ x \notin ToSet(s) => IsInjective(t)
  BY <1>1, <1>2 DEF ToSet, IsInjective
<1> QED BY <1>1, <1>3, <1>4, <1>5 DEF t

\* A part of a sequence holds the elements of these positions.
LEMMA Parts ==
    ASSUME NEW S, NEW s \in Seq(S), NEW a \in 1 .. Len(s) + 1, NEW b \in 0 .. Len(s)
    PROVE  /\ SubSeq(s, a, b) \in Seq(S)
           /\ ToSet(SubSeq(s, a, b)) = {s[i] : i \in a .. b}
           /\ IsInjective(s) => IsInjective(SubSeq(s, a, b))
<1>1. SubSeq(s, a, b) \in Seq(S) /\ DOMAIN SubSeq(s, a, b) = 1 .. (b - a + 1)
  OBVIOUS
<1>2. \A i \in 1 .. (b - a + 1) : SubSeq(s, a, b)[i] = s[a + i - 1] /\ a + i - 1 \in 1 .. Len(s)
  OBVIOUS
<1>3. ToSet(SubSeq(s, a, b)) = {s[i] : i \in a .. b}
  <2>1. ToSet(SubSeq(s, a, b)) \subseteq {s[i] : i \in a .. b}
    BY <1>1, <1>2 DEF ToSet
  <2>2. ASSUME NEW i \in a .. b PROVE s[i] \in ToSet(SubSeq(s, a, b))
    <3>1. i - a + 1 \in 1 .. (b - a + 1) /\ a + (i - a + 1) - 1 = i
      OBVIOUS
    <3> QED BY <3>1, <1>1, <1>2 DEF ToSet
  <2> QED BY <2>1, <2>2
<1>4. IsInjective(s) => IsInjective(SubSeq(s, a, b))
  <2> SUFFICES ASSUME IsInjective(s), NEW i \in 1 .. (b - a + 1), NEW j \in 1 .. (b - a + 1),
                      s[a + i - 1] = s[a + j - 1]
               PROVE  i = j
    BY <1>1, <1>2 DEF IsInjective
  <2>1. a + i - 1 = a + j - 1
    BY <1>2 DEF IsInjective
  <2> QED BY <2>1
<1> QED BY <1>1, <1>3, <1>4

\* Taking an element out of a sequence that has it once.
LEMMA Removed ==
    ASSUME NEW S, NEW s \in Seq(S), IsInjective(s), NEW x
    PROVE  /\ RemoveFirst(s, x) \in Seq(S)
           /\ ToSet(RemoveFirst(s, x)) = ToSet(s) \ {x}
           /\ IsInjective(RemoveFirst(s, x))
<1>1. CASE x \notin ToSet(s)
  <2>1. RemoveFirst(s, x) = s
    BY <1>1 DEF RemoveFirst, ToSet
  <2> QED BY <1>1, <2>1
<1>2. CASE x \in ToSet(s)
  <2>1. PICK i \in 1 .. Len(s) : s[i] = x
    BY <1>2 DEF ToSet
  <2>2. {j \in 1 .. Len(s) : s[j] = x} = {i}
    BY <2>1 DEF IsInjective
  <2>3. SelectInSeq(s, LAMBDA v : v = x) = i
    BY <2>2 DEF SelectInSeq, Min
  <2>4. RemoveFirst(s, x) = SubSeq(s, 1, i - 1) \o SubSeq(s, i + 1, Len(s))
    BY <2>1, <2>3 DEF RemoveFirst, RemoveAt
  <2>5. /\ SubSeq(s, 1, i - 1) \in Seq(S) /\ IsInjective(SubSeq(s, 1, i - 1))
        /\ ToSet(SubSeq(s, 1, i - 1)) = {s[j] : j \in 1 .. i - 1}
    BY Parts
  <2>6. /\ SubSeq(s, i + 1, Len(s)) \in Seq(S) /\ IsInjective(SubSeq(s, i + 1, Len(s)))
        /\ ToSet(SubSeq(s, i + 1, Len(s))) = {s[j] : j \in i + 1 .. Len(s)}
    BY Parts
  <2>7. {s[j] : j \in 1 .. i - 1} \cap {s[j] : j \in i + 1 .. Len(s)} = {}
    BY DEF IsInjective
  <2>8. {s[j] : j \in 1 .. i - 1} \cup {s[j] : j \in i + 1 .. Len(s)} = ToSet(s) \ {x}
    <3>1. ASSUME NEW j \in 1 .. Len(s), s[j] # x
          PROVE  j \in 1 .. i - 1 \/ j \in i + 1 .. Len(s)
      BY <3>1, <2>1
    <3>2. ASSUME NEW j \in (1 .. i - 1) \cup (i + 1 .. Len(s))
          PROVE  j \in 1 .. Len(s) /\ s[j] # x
      BY <2>1 DEF IsInjective
    <3> QED BY <3>1, <3>2 DEF ToSet
  <2> DEFINE u == SubSeq(s, 1, i - 1)
             v == SubSeq(s, i + 1, Len(s))
  <2>9. ToSet(u) \cap ToSet(v) = {} /\ ToSet(u) \cup ToSet(v) = ToSet(s) \ {x}
    BY <2>5, <2>6, <2>7, <2>8
  <2>10. u \in Seq(S) /\ IsInjective(u) /\ v \in Seq(S) /\ IsInjective(v) /\ RemoveFirst(s, x) = u \o v
    BY <2>4, <2>5, <2>6
  <2> HIDE DEF u, v
  <2>11. u \o v \in Seq(S) BY <2>10
  <2>12. ToSet(u \o v) = ToSet(s) \ {x} BY <2>9, <2>10, ConcatSet
  <2>13. IsInjective(u \o v) BY <2>9, <2>10, ConcatInjective
  <2> QED BY <2>10, <2>11, <2>12, <2>13
<1> QED BY <1>1, <1>2

\* Putting a new element into a sequence without repetition.
LEMMA Inserted ==
    ASSUME NEW S, NEW s \in Seq(S), IsInjective(s), NEW x \in S \ ToSet(s), NEW i \in 1 .. Len(s) + 1
    PROVE  /\ InsertAt(s, i, x) \in Seq(S)
           /\ ToSet(InsertAt(s, i, x)) = ToSet(s) \cup {x}
           /\ IsInjective(InsertAt(s, i, x))
<1> DEFINE u == SubSeq(s, 1, i - 1)
           v == SubSeq(s, i, Len(s))
           w == <<x>>
<1>1. u \in Seq(S) /\ IsInjective(u) /\ ToSet(u) = {s[j] : j \in 1 .. i - 1}
  BY Parts
<1>2. v \in Seq(S) /\ IsInjective(v) /\ ToSet(v) = {s[j] : j \in i .. Len(s)}
  BY Parts
<1>3. w \in Seq(S) /\ IsInjective(w) /\ ToSet(w) = {x}
  BY DEF IsInjective, ToSet
<1>4. ToSet(u) \cup ToSet(v) = ToSet(s)
  <2>1. \A j \in 1 .. Len(s) : j \in 1 .. i - 1 \/ j \in i .. Len(s)
    OBVIOUS
  <2>2. \A j \in (1 .. i - 1) \cup (i .. Len(s)) : j \in 1 .. Len(s)
    OBVIOUS
  <2>3. ToSet(s) = {s[j] : j \in 1 .. Len(s)}
    BY DEF ToSet
  <2>4. {s[j] : j \in 1 .. i - 1} \cup {s[j] : j \in i .. Len(s)} = {s[j] : j \in 1 .. Len(s)}
    BY <2>1, <2>2
  <2> QED BY <1>1, <1>2, <2>3, <2>4
<1>5. ToSet(u) \cap ToSet(v) = {}
  BY <1>1, <1>2 DEF IsInjective
<1>6. InsertAt(s, i, x) = (u \o w) \o v
  BY DEF InsertAt
<1> HIDE DEF u, v, w
<1>7. u \o w \in Seq(S) BY <1>1, <1>3
<1>8. ToSet(u \o w) = ToSet(u) \cup {x} BY <1>1, <1>3, ConcatSet
<1>9. IsInjective(u \o w)
  <2>1. ToSet(u) \cap ToSet(w) = {} BY <1>3, <1>4
  <2> QED BY <1>1, <1>3, <2>1, ConcatInjective
<1> DEFINE uw == u \o w
<1> HIDE DEF uw
<1>10. uw \o v \in Seq(S) BY <1>2, <1>7 DEF uw
<1>11. ToSet(uw \o v) = ToSet(s) \cup {x}
  <2>0. uw \in Seq(S) /\ ToSet(uw) = ToSet(u) \cup {x} BY <1>7, <1>8 DEF uw
  <2>1. ToSet(uw \o v) = ToSet(uw) \cup ToSet(v) BY <1>2, <2>0, ConcatSet
  <2> QED BY <2>0, <2>1, <1>4
<1>12. IsInjective(uw \o v)
  <2>1. ToSet(uw) \cap ToSet(v) = {} BY <1>4, <1>5, <1>8 DEF uw
  <2>2. uw \in Seq(S) /\ IsInjective(uw) BY <1>7, <1>9 DEF uw
  <2> QED BY <1>2, <2>1, <2>2, ConcatInjective
<1> QED BY <1>6, <1>10, <1>11, <1>12 DEF uw

\* SetToSeqs arranges all elements of a finite set, each once.
LEMMA Arranged ==
    ASSUME NEW S, IsFiniteSet(S), NEW a \in SetToSeqs(S)
    PROVE  a \in Seq(S) /\ ToSet(a) = S /\ IsInjective(a)
<1> DEFINE D == 1 .. Cardinality(S)
<1>1. Cardinality(S) \in Nat BY FS_CardinalityType
<1>2. IsFiniteSet(D) /\ Cardinality(D) = Cardinality(S) BY <1>1, FS_Interval
<1>3. a \in [D -> S] /\ \A i, j \in D : i # j => a[i] # a[j]
  BY DEF SetToSeqs
<1>4. a \in Injection(D, S)
  BY <1>3 DEF Injection, IsInjective
<1>5. a \in Surjection(D, S)
  BY <1>2, <1>4, FS_Injection
<1>6. \A y \in S : \E j \in D : a[j] = y
  BY <1>5 DEF Surjection
<1>7. a \in Seq(S) /\ DOMAIN a = D BY <1>1, <1>3
<1> QED BY <1>3, <1>6, <1>7 DEF ToSet, IsInjective

\* Removing and inserting give sequences over the same set, whatever they hold.
LEMMA RemoveFirstType ==
    ASSUME NEW S, NEW s \in Seq(S), NEW x
    PROVE  RemoveFirst(s, x) \in Seq(S)
<1>1. CASE \E i \in 1 .. Len(s) : s[i] = x
  <2> DEFINE I == {i \in 1 .. Len(s) : s[i] = x}
  <2>1. Min(I) \in I
    BY <1>1, MinOf
  <2>2. RemoveFirst(s, x) = SubSeq(s, 1, Min(I) - 1) \o SubSeq(s, Min(I) + 1, Len(s))
    BY <1>1, <2>1 DEF RemoveFirst, RemoveAt, SelectInSeq
  <2> HIDE DEF I
  <2>3. Min(I) \in 1 .. Len(s) BY <2>1 DEF I
  <2>4. SubSeq(s, 1, Min(I) - 1) \in Seq(S) /\ SubSeq(s, Min(I) + 1, Len(s)) \in Seq(S)
    BY <2>3
  <2> QED BY <2>2, <2>4
<1>2. CASE ~ \E i \in 1 .. Len(s) : s[i] = x
  BY <1>2 DEF RemoveFirst
<1> QED BY <1>1, <1>2

LEMMA InsertAtType ==
    ASSUME NEW S, NEW s \in Seq(S), NEW i \in 1 .. Len(s) + 1, NEW x \in S
    PROVE  InsertAt(s, i, x) \in Seq(S)
BY DEF InsertAt

LEMMA ToSetType ==
    ASSUME NEW S, NEW s \in Seq(S)
    PROVE  ToSet(s) \subseteq S
BY DEF ToSet

\* Taking out what stands at a position.
LEMMA RemovedAt ==
    ASSUME NEW S, NEW s \in Seq(S), NEW i \in 1 .. Len(s)
    PROVE  /\ RemoveAt(s, i) \in Seq(S)
           /\ Len(RemoveAt(s, i)) = Len(s) - 1
           /\ ToSet(RemoveAt(s, i)) \cup {s[i]} = ToSet(s)
           /\ IsInjective(s) => IsInjective(RemoveAt(s, i)) /\ s[i] \notin ToSet(RemoveAt(s, i))
<1> DEFINE u == SubSeq(s, 1, i - 1)
           v == SubSeq(s, i + 1, Len(s))
<1>1. /\ u \in Seq(S) /\ ToSet(u) = {s[j] : j \in 1 .. i - 1} /\ Len(u) = i - 1
      /\ IsInjective(s) => IsInjective(u)
  BY Parts
<1>2. /\ v \in Seq(S) /\ ToSet(v) = {s[j] : j \in i + 1 .. Len(s)} /\ Len(v) = Len(s) - i
      /\ IsInjective(s) => IsInjective(v)
  BY Parts
<1>3. RemoveAt(s, i) = u \o v
  BY DEF RemoveAt
<1>4. ToSet(u) \cup ToSet(v) \cup {s[i]} = ToSet(s)
  <2>1. \A j \in 1 .. Len(s) : j \in 1 .. i - 1 \/ j \in i + 1 .. Len(s) \/ j = i
    OBVIOUS
  <2>2. \A j \in (1 .. i - 1) \cup (i + 1 .. Len(s)) : j \in 1 .. Len(s)
    OBVIOUS
  <2>3. ToSet(s) = {s[j] : j \in 1 .. Len(s)}
    BY DEF ToSet
  <2> QED BY <1>1, <1>2, <2>1, <2>2, <2>3
<1>5. IsInjective(s) => ToSet(u) \cap ToSet(v) = {} /\ s[i] \notin ToSet(u) \cup ToSet(v)
  BY <1>1, <1>2 DEF IsInjective
<1> HIDE DEF u, v
<1>6. u \o v \in Seq(S) /\ Len(u \o v) = Len(u) + Len(v)
  BY <1>1, <1>2, Concat
<1>7. ToSet(u \o v) = ToSet(u) \cup ToSet(v)
  BY <1>1, <1>2, ConcatSet
<1>8. IsInjective(s) => IsInjective(u \o v)
  BY <1>1, <1>2, <1>5, ConcatInjective
<1>9. Len(RemoveAt(s, i)) = Len(s) - 1
  BY <1>1, <1>2, <1>3, <1>6
<1>10. ToSet(RemoveAt(s, i)) = ToSet(u) \cup ToSet(v)
  BY <1>3, <1>7
<1> QED BY <1>3, <1>4, <1>5, <1>6, <1>8, <1>9, <1>10

\* Those behind the place where one is taken out move up.
LEMMA RemovedAtIs ==
    ASSUME NEW S, NEW q \in Seq(S), NEW k \in 1 .. Len(q)
    PROVE  /\ RemoveAt(q, k) \in Seq(S) /\ Len(RemoveAt(q, k)) = Len(q) - 1
           /\ \A i \in 1 .. Len(q) - 1 :
                RemoveAt(q, k)[i] = IF i < k THEN q[i] ELSE q[i + 1]
<1> DEFINE a == SubSeq(q, 1, k - 1)
           b == SubSeq(q, k + 1, Len(q))
<1>0. Len(q) \in Nat /\ k \in Int
  OBVIOUS
<1>1. /\ a \in Seq(S) /\ Len(a) = k - 1
      /\ \A i \in 1 .. k - 1 : a[i] = q[i]
  OBVIOUS
<1>2. /\ b \in Seq(S) /\ Len(b) = Len(q) - k
      /\ \A i \in 1 .. Len(q) - k : b[i] = q[k + i]
  OBVIOUS
<1>3. RemoveAt(q, k) = a \o b
  BY DEF RemoveAt
<1> HIDE DEF a, b
<1>4. /\ a \o b \in Seq(S) /\ Len(a \o b) = Len(q) - 1
      /\ \A i \in 1 .. Len(q) - 1 : (a \o b)[i] = IF i <= k - 1 THEN a[i] ELSE b[i - (k - 1)]
  <2>1. /\ a \o b \in Seq(S) /\ Len(a \o b) = Len(a) + Len(b)
        /\ \A i \in 1 .. Len(a) + Len(b) : (a \o b)[i] = IF i <= Len(a) THEN a[i] ELSE b[i - Len(a)]
    BY <1>1, <1>2, Concat
  <2>2. Len(a) + Len(b) = Len(q) - 1
    BY <1>0, <1>1, <1>2
  <2> QED BY <1>1, <2>1, <2>2
<1>5. \A i \in 1 .. Len(q) - 1 : (a \o b)[i] = IF i < k THEN q[i] ELSE q[i + 1]
  <2> TAKE i \in 1 .. Len(q) - 1
  <2>1. CASE i < k
    BY <1>1, <1>4, <2>1
  <2>2. CASE i >= k
    <3>1. i - (k - 1) \in 1 .. Len(q) - k /\ k + (i - (k - 1)) = i + 1 /\ ~(i <= k - 1)
      BY <2>2
    <3>2. (a \o b)[i] = b[i - (k - 1)]
      BY <1>4, <3>1
    <3>3. b[i - (k - 1)] = q[k + (i - (k - 1))]
      BY <1>2, <3>1
    <3> QED BY <2>2, <3>1, <3>2, <3>3
  <2>3. i < k \/ i >= k
    BY <1>0
  <2> QED BY <2>1, <2>2, <2>3
<1> QED BY <1>3, <1>4, <1>5

\* Putting a sequence into another.
LEMMA PutInto ==
    ASSUME NEW S, NEW t \in Seq(S), NEW n \in 0 .. Len(t), NEW s \in Seq(S)
    PROVE  LET r == SubSeq(t, 1, n) \o s \o SubSeq(t, n + 1, Len(t))
           IN  /\ r \in Seq(S)
               /\ ToSet(r) = ToSet(t) \cup ToSet(s)
               /\ IsInjective(t) /\ IsInjective(s) /\ ToSet(t) \cap ToSet(s) = {} => IsInjective(r)
<1> DEFINE u == SubSeq(t, 1, n)
           v == SubSeq(t, n + 1, Len(t))
<1>1. u \in Seq(S) /\ ToSet(u) = {t[j] : j \in 1 .. n} /\ (IsInjective(t) => IsInjective(u))
  BY Parts
<1>2. v \in Seq(S) /\ ToSet(v) = {t[j] : j \in n + 1 .. Len(t)} /\ (IsInjective(t) => IsInjective(v))
  BY Parts
<1>3. ToSet(u) \cup ToSet(v) = ToSet(t)
  <2>1. \A j \in 1 .. Len(t) : j \in 1 .. n \/ j \in n + 1 .. Len(t)
    OBVIOUS
  <2>2. \A j \in (1 .. n) \cup (n + 1 .. Len(t)) : j \in 1 .. Len(t)
    OBVIOUS
  <2>3. ToSet(t) = {t[j] : j \in 1 .. Len(t)}
    BY DEF ToSet
  <2> QED BY <1>1, <1>2, <2>1, <2>2, <2>3
<1>4. IsInjective(t) => ToSet(u) \cap ToSet(v) = {}
  BY <1>1, <1>2 DEF IsInjective
<1> HIDE DEF u, v
<1> DEFINE w == u \o s
<1>5. /\ w \in Seq(S) /\ ToSet(w) = ToSet(u) \cup ToSet(s)
      /\ IsInjective(u) /\ IsInjective(s) /\ ToSet(u) \cap ToSet(s) = {} => IsInjective(w)
  BY <1>1, ConcatSet, ConcatInjective, Concat
<1> HIDE DEF w
<1>6. /\ w \o v \in Seq(S) /\ ToSet(w \o v) = ToSet(w) \cup ToSet(v)
      /\ IsInjective(w) /\ IsInjective(v) /\ ToSet(w) \cap ToSet(v) = {} => IsInjective(w \o v)
  <2>1. w \in Seq(S) /\ v \in Seq(S) BY <1>2, <1>5
  <2>2. w \o v \in Seq(S) BY <2>1
  <2>3. ToSet(w \o v) = ToSet(w) \cup ToSet(v) BY <2>1, ConcatSet
  <2>4. IsInjective(w) /\ IsInjective(v) /\ ToSet(w) \cap ToSet(v) = {} => IsInjective(w \o v)
    BY <2>1, ConcatInjective
  <2> QED BY <2>2, <2>3, <2>4
<1>7. (u \o s) \o v = w \o v
  BY DEF w
<1>8. ToSet(w \o v) = ToSet(t) \cup ToSet(s)
  BY <1>3, <1>5, <1>6
<1>9. IsInjective(t) /\ IsInjective(s) /\ ToSet(t) \cap ToSet(s) = {} => IsInjective(w \o v)
  BY <1>1, <1>2, <1>3, <1>4, <1>5, <1>6
<1>10. /\ (u \o s) \o v \in Seq(S)
       /\ ToSet((u \o s) \o v) = ToSet(t) \cup ToSet(s)
       /\ IsInjective(t) /\ IsInjective(s) /\ ToSet(t) \cap ToSet(s) = {} => IsInjective((u \o s) \o v)
  BY <1>6, <1>7, <1>8, <1>9
<1> QED BY <1>10 DEF u, v

\* Putting anything into a sequence.
LEMMA PutAt ==
    ASSUME NEW S, NEW s \in Seq(S), NEW x \in S, NEW i \in 1 .. Len(s) + 1
    PROVE  /\ InsertAt(s, i, x) \in Seq(S)
           /\ ToSet(InsertAt(s, i, x)) = ToSet(s) \cup {x}
           /\ IsInjective(s) /\ x \notin ToSet(s) => IsInjective(InsertAt(s, i, x))
<1> DEFINE w == <<x>>
           n == i - 1
<1>1. w \in Seq(S) /\ IsInjective(w) /\ ToSet(w) = {x}
  BY DEF IsInjective, ToSet
<1>2. n \in 0 .. Len(s) /\ InsertAt(s, i, x) = SubSeq(s, 1, n) \o w \o SubSeq(s, n + 1, Len(s))
  BY DEF InsertAt
<1> HIDE DEF w, n
<1> QED BY <1>1, <1>2, PutInto

\* f filters the elements of C out of each beginning of s.
IsFilter(f, s, C) ==
    f = [n \in 0 .. Len(s) |-> IF n = 0 THEN <<>>
                              ELSE IF s[n] \in C THEN f[n - 1] ELSE Append(f[n - 1], s[n])]

\* There is such a recursive function.
LEMMA FilterRec ==
    ASSUME NEW S, NEW s \in Seq(S), NEW C
    PROVE  \E f : IsFilter(f, s, C)
<1> DEFINE N == Len(s)
           Rec(g, k) == g = [n \in 0 .. k |-> IF n = 0 THEN <<>>
                                              ELSE IF s[n] \in C THEN g[n - 1] ELSE Append(g[n - 1], s[n])]
           G == {k \in 0 .. N : \E g : Rec(g, k)}
<1>a. N \in Nat
  OBVIOUS
<1>b. 0 \in G
  <2> DEFINE g == [n \in 0 .. 0 |-> <<>>]
  <2>1. Rec(g, 0) OBVIOUS
  <2>2. \E h : Rec(h, 0) BY <2>1
  <2> HIDE DEF Rec
  <2> QED BY <1>a, <2>2
<1>c. ASSUME NEW k \in 1 .. N, k - 1 \in G PROVE k \in G
  <2>1. PICK g : Rec(g, k - 1)
    BY <1>c
  <2> DEFINE h == [n \in 0 .. k |-> IF n < k THEN g[n]
                                    ELSE IF s[k] \in C THEN g[k - 1] ELSE Append(g[k - 1], s[k])]
  <2>2. ASSUME NEW n \in 0 .. k
        PROVE  h[n] = IF n = 0 THEN <<>> ELSE IF s[n] \in C THEN h[n - 1] ELSE Append(h[n - 1], s[n])
    <3>1. CASE n = 0
      BY <2>1, <3>1
    <3>2. CASE n # 0 /\ n < k
      <4>1. n \in 0 .. k - 1 /\ n - 1 \in 0 .. k - 1 BY <3>2
      <4>2. g[n] = IF s[n] \in C THEN g[n - 1] ELSE Append(g[n - 1], s[n])
        BY <2>1, <3>2, <4>1
      <4>3. h[n] = g[n] /\ h[n - 1] = g[n - 1]
        BY <3>2, <4>1
      <4> HIDE DEF h
      <4> QED BY <3>2, <4>2, <4>3
    <3>3. CASE n = k
      BY <3>3
    <3> QED BY <3>1, <3>2, <3>3
  <2>3. Rec(h, k)
    BY <2>2
  <2>4. \E i : Rec(i, k)
    BY <2>3
  <2> HIDE DEF Rec, h
  <2> QED BY <1>a, <2>4
<1>d. \A k \in 0 .. N : k \in G
  <2> HIDE DEF G
  <2> QED BY <1>a, <1>b, <1>c, UpTo
<1>2. \E g : Rec(g, N)
  <2>1. N \in G
    <3> HIDE DEF G, N
    <3>1. N \in 0 .. N BY <1>a
    <3> QED BY <1>d, <3>1
  <2> HIDE DEF Rec
  <2> QED BY <2>1
<1> QED BY <1>2 DEF IsFilter

\* What a filter leaves: the elements that are not in C, each as often.
LEMMA Filtered ==
    ASSUME NEW S, NEW s \in Seq(S), NEW C,
           NEW rest, IsFilter(rest, s, C)
    PROVE  /\ rest[Len(s)] \in Seq(S)
           /\ ToSet(rest[Len(s)]) = ToSet(s) \ C
           /\ IsInjective(s) => IsInjective(rest[Len(s)])
<1>1. /\ DOMAIN rest = 0 .. Len(s)
      /\ rest[0] = <<>>
      /\ \A n \in 1 .. Len(s) :
            rest[n] = IF s[n] \in C THEN rest[n - 1] ELSE Append(rest[n - 1], s[n])
  <2> DEFINE N == Len(s)
  <2>a. N \in Nat
    OBVIOUS
  <2>1. DOMAIN rest = 0 .. N /\ rest[0] = <<>>
    BY DEF IsFilter
  <2>2. ASSUME NEW n \in 1 .. N
        PROVE  rest[n] = IF s[n] \in C THEN rest[n - 1] ELSE Append(rest[n - 1], s[n])
    <3>1. n \in 0 .. N /\ n # 0 BY <2>a
    <3>2. \A k \in 0 .. N : rest[k] = IF k = 0 THEN <<>>
                             ELSE IF s[k] \in C THEN rest[k - 1] ELSE Append(rest[k - 1], s[k])
      BY DEF IsFilter
    <3> HIDE DEF N
    <3> QED BY <3>1, <3>2
  <2> QED BY <2>1, <2>2
<1> DEFINE N == Len(s)
           Kept(n) == {s[i] : i \in 1 .. n} \ C
           Good(n) == /\ rest[n] \in Seq(S)
                      /\ ToSet(rest[n]) = Kept(n)
                      /\ IsInjective(s) => IsInjective(rest[n])
           G == {n \in 0 .. N : Good(n)}
<1>a. N \in Nat
  OBVIOUS
<1>b. Good(0)
  <2>1. rest[0] = <<>> /\ Kept(0) = {}
    BY <1>1
  <2>2. ToSet(<<>>) = {} /\ IsInjective(<<>>) /\ <<>> \in Seq(S)
    BY DEF ToSet, IsInjective
  <2> QED BY <2>1, <2>2
<1>c. ASSUME NEW k \in 1 .. N, Good(k - 1) PROVE Good(k)
  <2>2. s[k] \in S
    OBVIOUS
  <2>3. {s[i] : i \in 1 .. k} = {s[i] : i \in 1 .. k - 1} \cup {s[k]}
    OBVIOUS
  <2>4. CASE s[k] \in C
    <3>1. rest[k] = rest[k - 1] BY <1>1, <2>4
    <3> QED BY <1>c, <2>3, <2>4, <3>1
  <2>5. CASE s[k] \notin C
    <3> DEFINE r == rest[k - 1]
    <3>1. rest[k] = Append(r, s[k]) BY <1>1, <2>5
    <3>2. r \in Seq(S) /\ ToSet(r) = Kept(k - 1) /\ (IsInjective(s) => IsInjective(r)) BY <1>c
    <3> HIDE DEF r
    <3>3. Append(r, s[k]) \in Seq(S) /\ ToSet(Append(r, s[k])) = ToSet(r) \cup {s[k]}
          /\ (IsInjective(r) /\ s[k] \notin ToSet(r) => IsInjective(Append(r, s[k])))
      BY <2>2, <3>2, Appended
    <3>4. ToSet(rest[k]) = Kept(k)
      BY <2>3, <2>5, <3>1, <3>2, <3>3
    <3>5. ASSUME IsInjective(s) PROVE IsInjective(rest[k])
      <4>1. s[k] \notin {s[i] : i \in 1 .. k - 1}
        BY <3>5 DEF IsInjective
      <4> QED BY <3>1, <3>2, <3>3, <3>5, <4>1
    <3> QED BY <3>1, <3>3, <3>4, <3>5
  <2> QED BY <2>4, <2>5
<1>2. N \in G
  <2> HIDE DEF Good
  <2>1. 0 \in G BY <1>a, <1>b
  <2>2. \A k \in 1 .. N : k - 1 \in G => k \in G
    <3> TAKE k \in 1 .. N
    <3> HAVE k - 1 \in G
    <3> QED BY <1>a, <1>c
  <2> HIDE DEF G, N
  <2>3. \A k \in 0 .. N : k \in G BY <1>a, <2>1, <2>2, UpTo
  <2> QED BY <1>a, <2>3
<1>3. Good(N)
  BY <1>2
<1>4. ToSet(s) = {s[i] : i \in 1 .. Len(s)}
  BY DEF ToSet
<1> QED BY <1>1, <1>3, <1>4
=============================================================================
