------------------------- MODULE OrderManagerProofs -------------------------
(* Theorems about OrderManager: what a page may do to the members of a       *)
(* resource of any size, what its saves do to the server, and that it never  *)
(* differs from the server with the button off.                              *)
EXTENDS OrderManager, SequenceLemmas

---------------------------------------------------------------------------
(* The filter of paste *)

\* What the filter leaves: the elements that are not cut, each as often.
LEMMA WithoutSet ==
    ASSUME NEW S, NEW s \in Seq(S), NEW c
    PROVE  /\ Without(s, c) \in Seq(S)
           /\ ToSet(Without(s, c)) = ToSet(s) \ ToSet(c)
           /\ IsInjective(s) => IsInjective(Without(s, c))
<1> DEFINE rest == CHOOSE g : IsFilter(g, s, ToSet(c))
<1>1. Without(s, c) = rest[Len(s)]
  BY Zenon DEF Without, IsFilter
<1>2. IsFilter(rest, s, ToSet(c))
  BY FilterRec
<1> HIDE DEF rest
<1> QED BY <1>1, <1>2, Filtered

---------------------------------------------------------------------------
(* An order that others edit *)

\* A member that nobody on the page knows, at the end, changes no order.
LEMMA AppendedOrder ==
    ASSUME NEW S, NEW s \in Seq(S), NEW m \in S, NEW t, m \notin ToSet(t), SameOrder(s, t)
    PROVE  SameOrder(Append(s, m), t)
<1> DEFINE r == Append(s, m)
<1>1. /\ r \in Seq(S) /\ Len(r) = Len(s) + 1 /\ r[Len(s) + 1] = m /\ ToSet(r) = ToSet(s) \cup {m}
      /\ \A i \in 1 .. Len(s) : r[i] = s[i]
  BY Appended
<1>2. Len(s) \in Nat
  OBVIOUS
<1> HIDE DEF r
<1> SUFFICES ASSUME NEW a \in ToSet(r) \cap ToSet(t), NEW b \in ToSet(r) \cap ToSet(t)
             PROVE  Before(r, a, b) <=> Before(t, a, b)
  BY DEF SameOrder, r
<1>3. a # m /\ b # m /\ a \in ToSet(s) \cap ToSet(t) /\ b \in ToSet(s) \cap ToSet(t)
  BY <1>1
<1>4. ASSUME NEW i \in 1 .. Len(r), r[i] \in {a, b} PROVE i \in 1 .. Len(s)
  BY <1>1, <1>2, <1>3, <1>4
<1>5. Before(r, a, b) <=> Before(s, a, b)
  <2>1. ASSUME Before(r, a, b) PROVE Before(s, a, b)
    <3>1. PICK i \in 1 .. Len(r), j \in 1 .. Len(r) : i < j /\ r[i] = a /\ r[j] = b BY <2>1 DEF Before
    <3>2. i \in 1 .. Len(s) /\ j \in 1 .. Len(s) BY <1>4, <3>1
    <3>3. s[i] = a /\ s[j] = b BY <1>1, <3>1, <3>2
    <3> QED BY <3>1, <3>2, <3>3 DEF Before
  <2>2. ASSUME Before(s, a, b) PROVE Before(r, a, b)
    <3>1. PICK i \in 1 .. Len(s), j \in 1 .. Len(s) : i < j /\ s[i] = a /\ s[j] = b BY <2>2 DEF Before
    <3>2. i \in 1 .. Len(r) /\ j \in 1 .. Len(r) /\ r[i] = a /\ r[j] = b BY <1>1, <1>2, <3>1
    <3> QED BY <3>1, <3>2 DEF Before
  <2> QED BY <2>1, <2>2
<1> QED BY <1>3, <1>5 DEF SameOrder

\* Nor does a member that goes.
LEMMA RemovedOrder ==
    ASSUME NEW S, NEW s \in Seq(S), NEW k \in 1 .. Len(s), NEW t, SameOrder(s, t)
    PROVE  IsInjective(s) => SameOrder(RemoveAt(s, k), t)
<1> SUFFICES ASSUME IsInjective(s) PROVE SameOrder(RemoveAt(s, k), t)
  OBVIOUS
<1> DEFINE r == RemoveAt(s, k)
<1>1. /\ Len(r) = Len(s) - 1 /\ s[k] \notin ToSet(r) /\ ToSet(r) \subseteq ToSet(s)
      /\ \A i \in 1 .. Len(s) - 1 : r[i] = IF i < k THEN s[i] ELSE s[i + 1]
  BY RemovedAt, RemovedAtIs
<1>2. Len(s) \in Nat /\ k \in Nat
  OBVIOUS
<1> HIDE DEF r
<1> SUFFICES ASSUME NEW a \in ToSet(r) \cap ToSet(t), NEW b \in ToSet(r) \cap ToSet(t)
             PROVE  Before(r, a, b) <=> Before(t, a, b)
  BY DEF SameOrder, r
<1>3. a # s[k] /\ b # s[k] /\ a \in ToSet(s) \cap ToSet(t) /\ b \in ToSet(s) \cap ToSet(t)
  BY <1>1
<1>4. Before(r, a, b) <=> Before(s, a, b)
  <2>1. ASSUME Before(r, a, b) PROVE Before(s, a, b)
    <3>1. PICK i \in 1 .. Len(r), j \in 1 .. Len(r) : i < j /\ r[i] = a /\ r[j] = b BY <2>1 DEF Before
    <3> DEFINE p == IF i < k THEN i ELSE i + 1
               q == IF j < k THEN j ELSE j + 1
    <3>2. p \in 1 .. Len(s) /\ q \in 1 .. Len(s) /\ p < q BY <1>1, <1>2, <3>1
    <3>3. s[p] = a /\ s[q] = b BY <1>1, <3>1
    <3> HIDE DEF p, q
    <3> QED BY <3>2, <3>3 DEF Before
  <2>2. ASSUME Before(s, a, b) PROVE Before(r, a, b)
    <3>1. PICK i \in 1 .. Len(s), j \in 1 .. Len(s) : i < j /\ s[i] = a /\ s[j] = b BY <2>2 DEF Before
    <3>2. i # k /\ j # k BY <1>3, <3>1
    <3> DEFINE p == IF i < k THEN i ELSE i - 1
               q == IF j < k THEN j ELSE j - 1
    <3>3. p \in 1 .. Len(s) - 1 /\ q \in 1 .. Len(s) - 1 /\ p < q BY <1>2, <3>1, <3>2
    <3>4. r[p] = a
      <4>1. r[p] = IF p < k THEN s[p] ELSE s[p + 1] BY <1>1, <3>3
      <4>2. CASE i < k BY <3>1, <4>1, <4>2
      <4>3. CASE i > k
        <5>1. ~(p < k) /\ p + 1 = i BY <1>2, <4>3
        <5> QED BY <3>1, <4>1, <5>1
      <4> QED BY <1>2, <3>2, <4>2, <4>3
    <3>5. r[q] = b
      <4>1. r[q] = IF q < k THEN s[q] ELSE s[q + 1] BY <1>1, <3>3
      <4>2. CASE j < k BY <3>1, <4>1, <4>2
      <4>3. CASE j > k
        <5>1. ~(q < k) /\ q + 1 = j BY <1>2, <4>3
        <5> QED BY <3>1, <4>1, <5>1
      <4> QED BY <1>2, <3>2, <4>2, <4>3
    <3> HIDE DEF p, q
    <3> QED BY <1>1, <3>3, <3>4, <3>5 DEF Before
  <2> QED BY <2>1, <2>2
<1> QED BY <1>3, <1>4 DEF SameOrder

---------------------------------------------------------------------------
(* Cards and their ids *)

\* A card is one of a member.
LEMMA CardIds ==
    ASSUME NEW h \in Seq(Cards), NEW o \in 1 .. Len(h)
    PROVE  h[o] \in Cards /\ h[o].id \in Members /\ h[o].label \in Labels
<1>1. h[o] \in Cards OBVIOUS
<1> QED BY <1>1 DEF Cards

\* The ids of a sequence of cards, each a member.
LEMMA IdsOf ==
    ASSUME NEW h \in Seq(Cards), NEW s \in Seq(1 .. Len(h)),
           NEW t, t = [i \in 1 .. Len(s) |-> h[s[i]].id]
    PROVE  /\ t \in Seq(Members) /\ Len(t) = Len(s)
           /\ \A i \in 1 .. Len(s) : s[i] \in 1 .. Len(h) /\ t[i] = h[s[i]].id
           /\ ToSet(t) = {h[o].id : o \in ToSet(s)}
<1>1. \A o \in 1 .. Len(h) : h[o].id \in Members
  BY CardIds
<1>2. \A i \in 1 .. Len(s) : s[i] \in 1 .. Len(h)
  OBVIOUS
<1>3. t \in Seq(Members) /\ Len(t) = Len(s) /\ DOMAIN t = 1 .. Len(s)
  BY <1>1, <1>2
<1>4. ToSet(s) = {s[i] : i \in 1 .. Len(s)}
  BY DEF ToSet
<1>5. ToSet(t) = {h[o].id : o \in ToSet(s)}
  BY <1>3, <1>4 DEF ToSet
<1> QED BY <1>2, <1>3, <1>5

\* No id is there twice, as no card is, and no two of them have the same id.
LEMMA OnceOf ==
    ASSUME NEW h \in Seq(Cards), NEW s \in Seq(1 .. Len(h)),
           NEW t, t = [i \in 1 .. Len(s) |-> h[s[i]].id]
    PROVE  IsInjective(t) <=> /\ IsInjective(s)
                              /\ \A o, p \in ToSet(s) : h[o].id = h[p].id => o = p
<1>1. DOMAIN t = 1 .. Len(s) /\ DOMAIN s = 1 .. Len(s)
  OBVIOUS
<1>2. \A i \in 1 .. Len(s) : t[i] = h[s[i]].id
  OBVIOUS
<1>3. ASSUME IsInjective(t) PROVE IsInjective(s)
  BY <1>1, <1>2, <1>3 DEF IsInjective
<1>4. ASSUME IsInjective(t), NEW o \in ToSet(s), NEW p \in ToSet(s), h[o].id = h[p].id PROVE o = p
  <2>1. PICK i \in 1 .. Len(s) : s[i] = o BY DEF ToSet
  <2>2. PICK j \in 1 .. Len(s) : s[j] = p BY DEF ToSet
  <2>3. t[i] = t[j] BY <1>2, <1>4, <2>1, <2>2
  <2> QED BY <1>1, <1>4, <2>1, <2>2, <2>3 DEF IsInjective
<1>5. ASSUME IsInjective(s), \A o, p \in ToSet(s) : h[o].id = h[p].id => o = p PROVE IsInjective(t)
  <2>1. \A i \in 1 .. Len(s) : s[i] \in ToSet(s) BY DEF ToSet
  <2> QED BY <1>1, <1>2, <1>5, <2>1 DEF IsInjective
<1> QED BY <1>3, <1>4, <1>5

\* The card of a member is found.
LEMMA IndexIs ==
    ASSUME TypeOK, NoMemberLost, NEW id \in Members
    PROVE  IndexById(id) \in 1 .. Len(items) /\ heap[items[IndexById(id)]].id = id
<1> DEFINE I == {i \in 1 .. Len(items) : heap[items[i]].id = id}
           t == Ids(items)
<1>1. t = [i \in 1 .. Len(items) |-> heap[items[i]].id] /\ heap \in Seq(Cards) /\ items \in Seq(1 .. Len(heap))
  BY DEF Ids, TypeOK, Objects
<1>2. id \in ToSet(t)
  BY DEF NoMemberLost
<1>3. I # {}
  <2> HIDE DEF t
  <2>1. \E i \in 1 .. Len(items) : t[i] = id BY <1>1, <1>2, IdsOf DEF ToSet
  <2> QED BY <1>1, <2>1
<1>4. PICK i \in I : \A j \in I : i <= j
  <2>1. I \in SUBSET Nat OBVIOUS
  <2> HIDE DEF I
  <2> QED BY <1>3, <2>1, Least
<1>5. heap[items[i]].id = id /\ i \in 1 .. Len(items)
  OBVIOUS
<1>6. \A j \in 1 .. i - 1 : heap[items[j]].id # id
  BY <1>4, <1>5
<1> QED BY <1>5, <1>6 DEF IndexById

---------------------------------------------------------------------------
(* The invariant *)

WellTyped == TypeOK /\ todo \subseteq DOMAIN sent.labels \cup {Resource}

PlacedIsSelected == placed # 0 => Len(selected) = 1 /\ heap[placed].id = heap[selected[1]].id

OrderInv == WellTyped /\ NoMemberLost /\ PlacedIsSelected /\ MembersOnce

LEMMA InitInv == Init => OrderInv
<1> SUFFICES ASSUME Init PROVE OrderInv
  OBVIOUS
<1>1. order \in Seq(Members) /\ ToSet(order) = Members /\ IsInjective(order)
  BY Arranged, OrderAssumption DEF Init
<1>2. heap \in Seq(Cards) /\ Len(heap) = Len(order) /\ \A i \in 1 .. Len(order) : heap[i].id = order[i]
  BY <1>1 DEF Init, Cards
<1>3. items \in Seq(Objects) /\ Len(items) = Len(order) /\ \A i \in 1 .. Len(order) : items[i] = i
  BY <1>1, <1>2 DEF Init, Objects
<1>4. Ids(items) = order
  BY <1>1, <1>2, <1>3 DEF Ids
<1>5. sent \in Messages
  <2>1. label \in UNION {[S -> Labels] : S \in SUBSET Members} BY DEF Init
  <2> QED BY <1>1, <2>1 DEF Init, Messages
<1>6. order \in Seq(Members \cup Others)
  BY <1>1
<1>7. /\ heap \in Seq(Cards)
      /\ items \in Seq(Objects) /\ selected \in Seq(Objects) /\ cut \in Seq(Objects)
      /\ ogOrder \in Seq(Members) /\ order \in Seq(Members \cup Others)
      /\ sent \in Messages
  BY <1>1, <1>2, <1>3, <1>5, <1>6 DEF Init
<1>8. TypeOK
  BY <1>7 DEF Init, TypeOK, Thumbnails
<1> QED BY <1>1, <1>4, <1>8 DEF Init, OrderInv, WellTyped, NoMemberLost, PlacedIsSelected, MembersOnce

\* What leaves the cards, the gallery and the ids alone.
LEMMA SameCards ==
    ASSUME OrderInv, TypeOK', UNCHANGED <<heap, items>>, mishap => mishap'
    PROVE  NoMemberLost' /\ MembersOnce'
BY DEF OrderInv, NoMemberLost, MembersOnce, Ids

LEMMA SelectStep ==
    ASSUME OrderInv, NEW s \in Seq(Objects), Select(s)
    PROVE  OrderInv'
<1>1. TypeOK'
  BY DEF OrderInv, WellTyped, TypeOK, Select, cardVars, changeVars, saveVars, serverVars, Objects
<1>2. NoMemberLost' /\ MembersOnce'
  BY <1>1, SameCards DEF Select, cardVars
<1> QED BY <1>1, <1>2 DEF OrderInv, WellTyped, PlacedIsSelected, Select, saveVars

LEMMA SelectingStep ==
    ASSUME OrderInv, Selecting
    PROVE  OrderInv'
<1>1. items \in Seq(Objects) /\ selected \in Seq(Objects)
  BY DEF OrderInv, WellTyped, TypeOK
<1>2. ToSet(items) \subseteq Objects
  BY <1>1, ToSetType
<1>3. ASSUME NEW o \in ToSet(items), Click(o) PROVE OrderInv'
  <2>1. <<o>> \in Seq(Objects) BY <1>2
  <2> QED BY <1>3, <2>1, SelectStep DEF Click
<1>4. ASSUME NEW o \in ToSet(items), MetaClick(o) PROVE OrderInv'
  <2>1. Append(selected, o) \in Seq(Objects) BY <1>1, <1>2
  <2> QED BY <1>4, <2>1, SelectStep DEF MetaClick
<1>5. ASSUME NEW o \in ToSet(items), ShiftClick(o) PROVE OrderInv'
  <2>0. Len(selected) = 1 BY <1>5 DEF ShiftClick
  <2>1. selected[1] \in Objects /\ o \in Objects
    <3>0. 1 \in 1 .. Len(selected) BY <2>0
    <3>1. selected[1] \in Objects BY <1>1, <3>0
    <3>2. o \in Objects BY <1>2
    <3> QED BY <3>1, <3>2
  <2>2. heap[selected[1]].id \in Members /\ heap[o].id \in Members
    BY <2>1, CardIds DEF OrderInv, WellTyped, TypeOK, Objects
  <2>3. /\ IndexById(heap[selected[1]].id) \in 1 .. Len(items)
        /\ IndexById(heap[o].id) \in 1 .. Len(items)
    BY <2>2, IndexIs DEF OrderInv, WellTyped
  <2>4. Between(IndexById(heap[selected[1]].id), IndexById(heap[o].id)) \in Seq(Objects)
    BY <1>1, <2>3 DEF Between
  <2> QED BY <1>5, <2>4, SelectStep DEF ShiftClick
<1>6. ASSUME SelectMenu PROVE OrderInv'
  <2>1. ASSUME NEW from \in {1, 2} PROVE EveryOther(items, from) \in Seq(Objects)
    <3>1. (Len(items) - from + 2) \div 2 \in Nat
      BY <1>1
    <3>2. \A i \in 1 .. (Len(items) - from + 2) \div 2 : 2 * i - 2 + from \in 1 .. Len(items)
      BY <1>1
    <3>3. \A i \in 1 .. (Len(items) - from + 2) \div 2 : items[2 * i - 2 + from] \in Objects
      BY <1>1, <3>2
    <3> QED BY <3>1, <3>3 DEF EveryOther
  <2>2. <<>> \in Seq(Objects) OBVIOUS
  <2> QED BY <1>1, <1>6, <2>1, <2>2, SelectStep DEF SelectMenu
<1> QED BY <1>3, <1>4, <1>5, <1>6 DEF Selecting

\* splice: all of both.
LEMMA SplicedSet ==
    ASSUME NEW S, NEW t \in Seq(S), NEW s \in Seq(S), NEW at \in Int
    PROVE  /\ Spliced(t, at, s) \in Seq(S)
           /\ ToSet(Spliced(t, at, s)) = ToSet(t) \cup ToSet(s)
           /\ IsInjective(t) /\ IsInjective(s) /\ ToSet(t) \cap ToSet(s) = {} => IsInjective(Spliced(t, at, s))
<1> DEFINE n == IF at > Len(t) THEN Len(t) ELSE IF at >= 0 THEN at ELSE IF Len(t) + at > 0 THEN Len(t) + at ELSE 0
<1>1. n \in 0 .. Len(t)
  OBVIOUS
<1>2. Spliced(t, at, s) = SubSeq(t, 1, n) \o s \o SubSeq(t, n + 1, Len(t))
  BY DEF Spliced
<1> HIDE DEF n
<1> QED BY <1>1, <1>2, PutInto

\* A gallery whose cards are put in another order.
LEMMA Rearranged ==
    ASSUME OrderInv, UNCHANGED heap, items' \in Seq(Objects), ToSet(items) \subseteq ToSet(items'),
           ~mishap' => ~mishap /\ ToSet(items') = ToSet(items) /\ (IsInjective(items) => IsInjective(items'))
    PROVE  NoMemberLost' /\ MembersOnce'
<1> DEFINE t == Ids(items)
           tt == Ids(items)'
<1>1. heap \in Seq(Cards) /\ items \in Seq(1 .. Len(heap)) /\ items' \in Seq(1 .. Len(heap))
  BY DEF OrderInv, WellTyped, TypeOK, Objects
<1>2. t = [i \in 1 .. Len(items) |-> heap[items[i]].id] /\ tt = [i \in 1 .. Len(items') |-> heap[items'[i]].id]
  BY DEF Ids
<1> HIDE DEF t, tt
<1>3. ToSet(t) = {heap[o].id : o \in ToSet(items)} BY <1>1, <1>2, IdsOf
<1>4. ToSet(tt) = {heap[o].id : o \in ToSet(items')} /\ tt \in Seq(Members) BY <1>1, <1>2, IdsOf
<1>5. ToSet(tt) = Members
  <2>1. ToSet(tt) \subseteq Members BY <1>4, ToSetType
  <2>2. Members = ToSet(t) BY DEF OrderInv, NoMemberLost, t
  <2> QED BY <1>3, <1>4, <2>1, <2>2
<1>6. ASSUME ~mishap' PROVE IsInjective(tt)
  <2>1. IsInjective(t) BY <1>6 DEF OrderInv, MembersOnce, t
  <2>2. IsInjective(items) /\ \A o, p \in ToSet(items) : heap[o].id = heap[p].id => o = p
    BY <1>1, <1>2, <2>1, OnceOf
  <2>3. IsInjective(items') /\ \A o, p \in ToSet(items') : heap[o].id = heap[p].id => o = p
    BY <1>6, <2>2
  <2> QED BY <1>1, <1>2, <2>3, OnceOf
<1> QED BY <1>5, <1>6 DEF NoMemberLost, MembersOnce, tt

\* Pasting leaves every card of the gallery in it, and adds only what the
\* clipboard names.
LEMMA Pasted ==
    ASSUME OrderInv, NEW modifier \in {-1, 1}, Paste(modifier)
    PROVE  /\ items' \in Seq(Objects) /\ ToSet(items) \subseteq ToSet(items')
           /\ ~mishap' => ~mishap /\ ToSet(items') = ToSet(items) /\ (IsInjective(items) => IsInjective(items'))
<1>1. /\ items \in Seq(Objects) /\ selected \in Seq(Objects) /\ cut \in Seq(Objects)
      /\ heap \in Seq(Cards)
  BY DEF OrderInv, WellTyped, TypeOK
<1> DEFINE at == IndexById(heap[Last(selected)].id) - 1 + modifier
<1>2. Last(selected) \in Objects
  <2>1. Len(selected) \in 1 .. Len(selected) BY <1>1 DEF Paste
  <2> QED BY <1>1, <2>1 DEF Last
<1>3. at \in Int
  <2>1. heap[Last(selected)].id \in Members BY <1>1, <1>2, CardIds DEF Objects
  <2> QED BY <2>1, IndexIs DEF OrderInv, WellTyped
<1>4. items' = Spliced(Uncut, at, cut)
  BY DEF Paste
<1> HIDE DEF at
<1> DEFINE u == Uncut
<1>5. u \in Seq(Objects) /\ ToSet(u) = ToSet(items) \ ToSet(cut) /\ (IsInjective(items) => IsInjective(u))
  BY <1>1, WithoutSet DEF Uncut
<1> HIDE DEF u
<1>6. /\ Spliced(u, at, cut) \in Seq(Objects) /\ ToSet(Spliced(u, at, cut)) = ToSet(u) \cup ToSet(cut)
      /\ IsInjective(u) /\ IsInjective(cut) /\ ToSet(u) \cap ToSet(cut) = {} => IsInjective(Spliced(u, at, cut))
  <2>1. u \in Seq(Objects) /\ cut \in Seq(Objects) BY <1>1, <1>5
  <2>2. Spliced(u, at, cut) \in Seq(Objects) BY <1>3, <2>1, SplicedSet
  <2>3. ToSet(Spliced(u, at, cut)) = ToSet(u) \cup ToSet(cut) BY <1>3, <2>1, SplicedSet
  <2>4. IsInjective(u) /\ IsInjective(cut) /\ ToSet(u) \cap ToSet(cut) = {} => IsInjective(Spliced(u, at, cut))
    BY <1>3, <2>1, SplicedSet
  <2> QED BY <2>2, <2>3, <2>4
<1>7. items' = Spliced(u, at, cut)
  BY <1>4 DEF u
<1>8. /\ items' \in Seq(Objects) /\ ToSet(items') = ToSet(u) \cup ToSet(cut)
      /\ IsInjective(u) /\ IsInjective(cut) /\ ToSet(u) \cap ToSet(cut) = {} => IsInjective(items')
  BY <1>6, <1>7
<1>9. ~mishap' => ~mishap /\ CutIsThere
  BY DEF Paste
<1> QED BY <1>5, <1>8, <1>9 DEF CutIsThere

\* So does dragging.
LEMMA Dragged ==
    ASSUME OrderInv, NEW i \in 1 .. Len(items), NEW j \in 1 .. Len(items), DragCard(i, j)
    PROVE  /\ items' \in Seq(Objects) /\ ToSet(items') = ToSet(items)
           /\ IsInjective(items) => IsInjective(items')
<1>1. items \in Seq(Objects)
  BY DEF OrderInv, WellTyped, TypeOK
<1> DEFINE u == RemoveAt(items, i)
<1>2. /\ u \in Seq(Objects) /\ Len(u) = Len(items) - 1
      /\ ToSet(u) \cup {items[i]} = ToSet(items)
      /\ IsInjective(items) => IsInjective(u) /\ items[i] \notin ToSet(u)
  BY <1>1, RemovedAt
<1>3. items' = InsertAt(u, j, items[i])
  BY DEF DragCard
<1> HIDE DEF u
<1>4. j \in 1 .. Len(u) + 1 /\ items[i] \in Objects
  BY <1>1, <1>2
<1> DEFINE r == InsertAt(u, j, items[i])
<1>5. /\ r \in Seq(Objects) /\ ToSet(r) = ToSet(u) \cup {items[i]}
      /\ IsInjective(u) /\ items[i] \notin ToSet(u) => IsInjective(r)
  BY <1>2, <1>4, PutAt
<1> HIDE DEF r
<1> QED BY <1>2, <1>3, <1>5 DEF r

LEMMA MovingStep ==
    ASSUME OrderInv, Moving
    PROVE  OrderInv'
<1>1. /\ items \in Seq(Objects) /\ selected \in Seq(Objects) /\ cut \in Seq(Objects)
      /\ heap \in Seq(Cards)
  BY DEF OrderInv, WellTyped, TypeOK
<1>2. ASSUME CutSelected PROVE OrderInv'
  <2>1. TypeOK'
    BY <1>2, <1>1 DEF OrderInv, WellTyped, TypeOK, CutSelected, changeVars, saveVars, serverVars, Objects
  <2>2. NoMemberLost' /\ MembersOnce'
    BY <1>2, <2>1, SameCards DEF CutSelected
  <2> QED BY <1>2, <2>1, <2>2 DEF OrderInv, WellTyped, PlacedIsSelected, CutSelected, saveVars
<1>3. ASSUME NEW modifier \in {-1, 1}, Paste(modifier) PROVE OrderInv'
  <2>1. /\ items' \in Seq(Objects) /\ ToSet(items) \subseteq ToSet(items')
        /\ ~mishap' => ~mishap /\ ToSet(items') = ToSet(items) /\ (IsInjective(items) => IsInjective(items'))
    BY <1>3, Pasted
  <2>2. UNCHANGED heap
    BY <1>3 DEF Paste
  <2>3. NoMemberLost' /\ MembersOnce'
    BY <2>1, <2>2, Rearranged
  <2>4. TypeOK'
    BY <1>1, <1>3, <2>1, <2>2 DEF OrderInv, WellTyped, TypeOK, Paste, changeVars, saveVars, serverVars, Objects
  <2> QED BY <1>3, <2>3, <2>4 DEF OrderInv, WellTyped, PlacedIsSelected, Paste, saveVars
<1>4. ASSUME NEW i \in 1 .. Len(items), NEW j \in 1 .. Len(items), DragCard(i, j) PROVE OrderInv'
  <2>1. items' \in Seq(Objects) /\ ToSet(items') = ToSet(items) /\ (IsInjective(items) => IsInjective(items'))
    BY <1>4, Dragged
  <2>2. UNCHANGED heap /\ (~mishap' => ~mishap)
    BY <1>4 DEF DragCard
  <2>3. NoMemberLost' /\ MembersOnce'
    BY <2>1, <2>2, Rearranged
  <2>4. TypeOK'
    BY <1>1, <1>4, <2>1, <2>2 DEF OrderInv, WellTyped, TypeOK, DragCard, formVars, changeVars, saveVars, serverVars, Objects
  <2> QED BY <1>4, <2>3, <2>4 DEF OrderInv, WellTyped, PlacedIsSelected, DragCard, saveVars, formVars
<1> QED BY <1>2, <1>3, <1>4 DEF Moving

\* Cards that are replaced or changed, each by one of the same member.
LEMMA Relabelled ==
    ASSUME OrderInv, heap' \in Seq(Cards), items' \in Seq(Objects'), Len(items') = Len(items),
           \A i \in 1 .. Len(items) : heap'[items'[i]].id = heap[items[i]].id,
           mishap => mishap'
    PROVE  NoMemberLost' /\ MembersOnce'
<1>1. heap \in Seq(Cards) /\ items \in Seq(1 .. Len(heap)) /\ items' \in Seq(1 .. Len(heap'))
  BY DEF OrderInv, WellTyped, TypeOK, Objects
<1>2. Ids(items)' = Ids(items)
  BY <1>1 DEF Ids
<1> QED BY <1>2 DEF OrderInv, NoMemberLost, MembersOnce

LEMMA UpdateSingleStep ==
    ASSUME OrderInv, UpdateSingle
    PROVE  OrderInv'
<1> DEFINE k == IndexById(heap[selected[1]].id)
           n == Len(heap)
<1>1. /\ items \in Seq(1 .. n) /\ selected \in Seq(1 .. n) /\ cut \in Seq(1 .. n)
      /\ heap \in Seq(Cards) /\ n \in Nat /\ placed \in 0 .. n /\ changeList \subseteq Members
      /\ typed \in Labels \cup {Nothing}
  BY DEF OrderInv, WellTyped, TypeOK, Objects
<1>2. CASE selected = <<>>
  <2>1. UNCHANGED <<heap, items, cut, selected, placed, typed, changeList, mishap, ogOrder, thumbnail, ogThumbnail, saveVars, serverVars>>
        /\ pending' = pending \ {"single"}
    BY <1>2 DEF UpdateSingle
  <2>2. TypeOK'
    BY <2>1 DEF OrderInv, WellTyped, TypeOK, saveVars, serverVars, Objects
  <2>3. NoMemberLost' /\ MembersOnce'
    BY <2>1, <2>2, SameCards
  <2> QED BY <2>1, <2>2, <2>3 DEF OrderInv, WellTyped, PlacedIsSelected, saveVars
<1>3. CASE selected # <<>>
  <2>1. selected[1] \in 1 .. n
    <3>1. 1 \in 1 .. Len(selected) BY <1>1, <1>3
    <3> QED BY <1>1, <3>1
  <2>2. heap[selected[1]].id \in Members /\ heap[selected[1]].label \in Labels
    BY <1>1, <2>1, CardIds
  <2>3. k \in 1 .. Len(items) /\ heap[items[k]].id = heap[selected[1]].id
    BY <2>2, IndexIs DEF OrderInv, WellTyped
  <2>4. CASE placed = 0
    <3> DEFINE f == FormObject(selected[1])
    <3>1. f \in Cards /\ f.id = heap[selected[1]].id
      BY <1>1, <2>2, <2>4 DEF FormObject, Cards
    <3>2. /\ heap' = Append(heap, f)
          /\ items' = [items EXCEPT ![k] = Len(heap')]
          /\ placed' = IF Len(selected) = 1 THEN Len(heap') ELSE 0
          /\ typed' = Nothing
          /\ changeList' = changeList \cup {heap[selected[1]].id}
          /\ mishap' = (mishap \/ Late)
          /\ UNCHANGED <<cut, selected, ogOrder, thumbnail, ogThumbnail, saveVars, serverVars>>
          /\ pending' = pending \ {"single"}
      BY <1>3, <2>4 DEF UpdateSingle
    <3> HIDE DEF f, k
    <3>3. heap' \in Seq(Cards) /\ Len(heap') = n + 1 /\ heap'[n + 1] = f /\ \A o \in 1 .. n : heap'[o] = heap[o]
      BY <1>1, <3>1, <3>2
    <3>4. items' \in Seq(1 .. n + 1) /\ Len(items') = Len(items)
      BY <1>1, <2>3, <3>2, <3>3
    <3>5. \A i \in 1 .. Len(items) : heap'[items'[i]].id = heap[items[i]].id
      <4> TAKE i \in 1 .. Len(items)
      <4>1. CASE i = k
        BY <1>1, <2>3, <3>1, <3>2, <3>3, <4>1
      <4>2. CASE i # k
        <5>1. items'[i] = items[i] /\ items[i] \in 1 .. n BY <1>1, <3>2, <4>2
        <5> QED BY <3>3, <5>1
      <4> QED BY <4>1, <4>2
    <3>6. NoMemberLost' /\ MembersOnce'
      BY <3>2, <3>3, <3>4, <3>5, Relabelled DEF Objects
    <3>7. selected' \in Seq(1 .. n + 1) /\ cut' \in Seq(1 .. n + 1) /\ placed' \in 0 .. n + 1
      BY <1>1, <3>2, <3>3
    <3>8. TypeOK'
      <4>1. Objects' = 1 .. n + 1 BY <3>3 DEF Objects
      <4>2. heap' \in Seq(Cards) /\ items' \in Seq(Objects') /\ selected' \in Seq(Objects') /\ cut' \in Seq(Objects')
            /\ placed' \in Objects' \cup {0}
        BY <3>3, <3>4, <3>7, <4>1
      <4>3. changeList' \subseteq Members /\ typed' \in Labels \cup {Nothing} /\ mishap' \in BOOLEAN
        BY <1>1, <2>2, <3>2 DEF OrderInv, WellTyped, TypeOK, Late
      <4> QED BY <3>2, <4>2, <4>3 DEF OrderInv, WellTyped, TypeOK, saveVars, serverVars
    <3>9. PlacedIsSelected'
      BY <1>1, <2>1, <3>1, <3>2, <3>3 DEF PlacedIsSelected
    <3> QED BY <3>2, <3>6, <3>8, <3>9 DEF OrderInv, WellTyped, saveVars
  <2>5. CASE placed # 0
    <3>1. /\ items' = [items EXCEPT ![k] = placed]
          /\ changeList' = changeList \cup {heap[selected[1]].id}
          /\ mishap' = (mishap \/ Late)
          /\ UNCHANGED <<heap, placed, typed, cut, selected, ogOrder, thumbnail, ogThumbnail, saveVars, serverVars>>
          /\ pending' = pending \ {"single"}
      BY <1>3, <2>5 DEF UpdateSingle
    <3> HIDE DEF k
    <3>2. placed \in 1 .. n /\ heap[placed].id = heap[selected[1]].id
      BY <1>1, <2>5 DEF OrderInv, PlacedIsSelected
    <3>3. items' \in Seq(1 .. n) /\ Len(items') = Len(items)
      BY <1>1, <2>3, <3>1, <3>2
    <3>4. \A i \in 1 .. Len(items) : heap'[items'[i]].id = heap[items[i]].id
      <4> TAKE i \in 1 .. Len(items)
      <4>1. items'[i] = IF i = k THEN placed ELSE items[i] BY <1>1, <3>1
      <4>2. CASE i = k BY <2>3, <3>1, <3>2, <4>1, <4>2
      <4>3. CASE i # k BY <3>1, <4>1, <4>3
      <4> QED BY <4>2, <4>3
    <3>5. NoMemberLost' /\ MembersOnce'
      BY <1>1, <3>1, <3>3, <3>4, Relabelled DEF Objects
    <3>6. TypeOK'
      BY <1>1, <2>2, <3>1, <3>3 DEF OrderInv, WellTyped, TypeOK, saveVars, serverVars, Objects
    <3> QED BY <3>1, <3>5, <3>6 DEF OrderInv, WellTyped, PlacedIsSelected, saveVars
  <2> QED BY <2>4, <2>5
<1> QED BY <1>2, <1>3

LEMMA LabellingStep ==
    ASSUME OrderInv, Labelling
    PROVE  OrderInv'
<1> DEFINE n == Len(heap)
<1>1. /\ items \in Seq(1 .. n) /\ selected \in Seq(1 .. n) /\ cut \in Seq(1 .. n)
      /\ heap \in Seq(Cards) /\ n \in Nat /\ placed \in 0 .. n /\ changeList \subseteq Members
  BY DEF OrderInv, WellTyped, TypeOK, Objects
<1>2. ASSUME NEW l \in Labels, TypeLabel(l) PROVE OrderInv'
  <2>1. CASE placed = 0
    <3>1. TypeOK'
      BY <1>2, <2>1 DEF OrderInv, WellTyped, TypeOK, TypeLabel, changeVars, saveVars, serverVars, Objects
    <3>2. NoMemberLost' /\ MembersOnce'
      BY <1>2, <2>1, <3>1, SameCards DEF TypeLabel
    <3> QED BY <1>2, <2>1, <3>1, <3>2 DEF OrderInv, WellTyped, PlacedIsSelected, TypeLabel, saveVars
  <2>2. CASE placed # 0
    <3>1. /\ heap' = [heap EXCEPT ![placed].label = l] /\ pending' = pending \cup {"single"}
          /\ mishap' = (mishap \/ Late)
          /\ UNCHANGED <<typed, items, cut, selected, placed, changeVars, saveVars, serverVars>>
      BY <1>2, <2>2 DEF TypeLabel
    <3>2. placed \in 1 .. n
      BY <1>1, <2>2
    <3>3. heap[placed] \in Cards BY <1>1, <3>2, CardIds
    <3>4. [heap[placed] EXCEPT !.label = l] \in Cards /\ [heap[placed] EXCEPT !.label = l].id = heap[placed].id
      BY <3>3 DEF Cards
    <3>5. heap' \in Seq(Cards) /\ Len(heap') = n /\ \A o \in 1 .. n : heap'[o].id = heap[o].id
      <4> DEFINE x == [heap[placed] EXCEPT !.label = l]
      <4>1. heap' = [heap EXCEPT ![placed] = x] BY <3>1
      <4>2. x \in Cards /\ x.id = heap[placed].id BY <3>4
      <4> HIDE DEF x
      <4> QED BY <1>1, <3>2, <4>1, <4>2
    <3>6. NoMemberLost' /\ MembersOnce'
      <4>1. \A i \in 1 .. Len(items) : items[i] \in 1 .. n BY <1>1
      <4>2. \A i \in 1 .. Len(items) : heap'[items'[i]].id = heap[items[i]].id BY <3>1, <3>5, <4>1
      <4> QED BY <1>1, <3>1, <3>5, <4>2, Relabelled DEF Objects
    <3>7. TypeOK'
      BY <1>1, <3>1, <3>5 DEF OrderInv, WellTyped, TypeOK, changeVars, saveVars, serverVars, Objects
    <3>8. PlacedIsSelected'
      <4>1. Len(selected) = 1 /\ heap[placed].id = heap[selected[1]].id BY <2>2 DEF OrderInv, PlacedIsSelected
      <4>2. selected[1] \in 1 .. n
        <5>1. 1 \in 1 .. Len(selected) BY <4>1
        <5> QED BY <1>1, <5>1
      <4> QED BY <3>1, <3>2, <3>5, <4>1, <4>2 DEF PlacedIsSelected
    <3> QED BY <3>1, <3>6, <3>7, <3>8 DEF OrderInv, WellTyped, saveVars
  <2> QED BY <2>1, <2>2
<1>3. ASSUME TypeNumbering PROVE OrderInv'
  <2>1. TypeOK'
    BY <1>3 DEF OrderInv, WellTyped, TypeOK, TypeNumbering, cardVars, changeVars, saveVars, serverVars, Objects
  <2>2. NoMemberLost' /\ MembersOnce'
    BY <1>3, <2>1, SameCards DEF TypeNumbering, cardVars
  <2> QED BY <1>3, <2>1, <2>2 DEF OrderInv, WellTyped, PlacedIsSelected, TypeNumbering, cardVars, saveVars
<1>4. ASSUME NEW new \in [Members -> Labels], UpdateMultiLabels(new) PROVE OrderInv'
  <2> DEFINE ids == ToSet(Ids(selected))
             hits == {items[IndexById(id)] : id \in ids}
  <2>1. /\ heap' = [o \in 1 .. n |-> IF o \in hits THEN [heap[o] EXCEPT !.label = new[heap[o].id]] ELSE heap[o]]
        /\ changeList' = changeList \cup ids
        /\ (typed' = Nothing /\ placed' = 0) \/ UNCHANGED <<typed, placed>>
        /\ mishap' = (mishap \/ (Late /\ ids # {}))
        /\ pending' = pending \ {"multi"}
        /\ UNCHANGED <<items, cut, selected, ogOrder, thumbnail, ogThumbnail, saveVars, serverVars>>
    BY <1>4 DEF UpdateMultiLabels, Objects
  <2>2. ids \subseteq Members
    <3> DEFINE t == Ids(selected)
    <3>1. t = [i \in 1 .. Len(selected) |-> heap[selected[i]].id] BY DEF Ids
    <3> HIDE DEF t
    <3>2. t \in Seq(Members) BY <1>1, <3>1, IdsOf
    <3>3. ToSet(t) \subseteq Members BY <3>2, ToSetType
    <3> QED BY <3>3 DEF t
  <2> HIDE DEF hits, ids
  <2>3. ASSUME NEW o \in 1 .. n PROVE heap'[o] \in Cards /\ heap'[o].id = heap[o].id
    <3>1. heap[o] \in Cards /\ heap[o].id \in Members BY <1>1, CardIds
    <3>2. new[heap[o].id] \in Labels BY <3>1
    <3> DEFINE x == [heap[o] EXCEPT !.label = new[heap[o].id]]
    <3>3. x \in Cards /\ x.id = heap[o].id BY <3>1, <3>2 DEF Cards
    <3>4. heap'[o] = IF o \in hits THEN x ELSE heap[o] BY <2>1
    <3> HIDE DEF x
    <3> QED BY <3>1, <3>3, <3>4
  <2>4. DOMAIN heap' = 1 .. n BY <2>1
  <2>5. heap' \in Seq(Cards) /\ Len(heap') = n
    <3> DEFINE h == heap'
    <3>1. h = [o \in 1 .. n |-> h[o]] BY <2>1
    <3>2. \A o \in 1 .. n : h[o] \in Cards BY <2>3
    <3> HIDE DEF h, n
    <3>3. h \in [1 .. n -> Cards] BY <3>1, <3>2
    <3>4. n \in Nat BY <1>1 DEF n
    <3>5. h \in Seq(Cards) /\ Len(h) = n BY <3>3, <3>4
    <3> QED BY <3>5 DEF h
  <2>6. NoMemberLost' /\ MembersOnce'
    <3>1. \A i \in 1 .. Len(items) : items[i] \in 1 .. n BY <1>1
    <3>2. \A i \in 1 .. Len(items) : heap'[items'[i]].id = heap[items[i]].id BY <2>1, <2>3, <3>1
    <3> QED BY <1>1, <2>1, <2>5, <3>2, Relabelled DEF Objects
  <2>7. TypeOK'
    BY <1>1, <2>1, <2>2, <2>5 DEF OrderInv, WellTyped, TypeOK, saveVars, serverVars, Objects
  <2>8. PlacedIsSelected'
    <3> SUFFICES ASSUME placed' # 0 PROVE Len(selected') = 1 /\ heap'[placed'].id = heap'[selected'[1]].id
      BY DEF PlacedIsSelected
    <3>1. placed' = placed /\ selected' = selected BY <2>1
    <3>2. placed \in 1 .. n /\ Len(selected) = 1 /\ heap[placed].id = heap[selected[1]].id
      BY <1>1, <3>1 DEF OrderInv, PlacedIsSelected
    <3>3. selected[1] \in 1 .. n
      <4>1. 1 \in 1 .. Len(selected) BY <3>2
      <4> QED BY <1>1, <4>1
    <3> QED BY <2>3, <3>1, <3>2, <3>3
  <2> QED BY <2>1, <2>6, <2>7, <2>8 DEF OrderInv, WellTyped, saveVars
<1>5. ASSUME NEW x \in Thumbnails, UpdateThumbnail(x) PROVE OrderInv'
  <2>1. TypeOK'
    BY <1>5 DEF OrderInv, WellTyped, TypeOK, UpdateThumbnail, cardVars, formVars, saveVars, serverVars, Objects
  <2>2. NoMemberLost' /\ MembersOnce'
    BY <1>5, <2>1, SameCards DEF UpdateThumbnail, cardVars
  <2> QED BY <1>5, <2>1, <2>2 DEF OrderInv, WellTyped, PlacedIsSelected, UpdateThumbnail, cardVars, formVars, saveVars
<1> QED BY <1>2, <1>3, <1>4, <1>5, UpdateSingleStep DEF Labelling

\* What touches neither the cards nor the forms.
LEMMA SameForms ==
    ASSUME OrderInv, WellTyped', UNCHANGED <<cardVars, formVars>>, mishap => mishap'
    PROVE  OrderInv'
<1>1. NoMemberLost' /\ MembersOnce'
  BY SameCards DEF cardVars, WellTyped
<1> QED BY <1>1 DEF OrderInv, PlacedIsSelected, cardVars, formVars

LEMMA SaveStep ==
    ASSUME OrderInv, Save
    PROVE  OrderInv'
<1>1. /\ items \in Seq(1 .. Len(heap)) /\ heap \in Seq(Cards) /\ changeList \subseteq Members
      /\ thumbnail \in Thumbnails
  BY DEF OrderInv, WellTyped, TypeOK, Objects
<1> DEFINE t == Ids(items)
           l == [id \in changeList |-> Shown(id)]
<1>2. t \in Seq(Members)
  <2>1. t = [i \in 1 .. Len(items) |-> heap[items[i]].id] BY DEF Ids
  <2> HIDE DEF t
  <2> QED BY <1>1, <2>1, IdsOf
<1>3. l \in UNION {[S -> Labels] : S \in SUBSET Members} /\ DOMAIN l = changeList
  <2>1. ASSUME NEW id \in changeList PROVE Shown(id) \in Labels
    <3>1. IndexById(id) \in 1 .. Len(items) BY <1>1, IndexIs DEF OrderInv, WellTyped
    <3>2. items[IndexById(id)] \in 1 .. Len(heap) BY <1>1, <3>1
    <3> QED BY <1>1, <3>2, CardIds DEF Shown
  <2>2. l \in [changeList -> Labels] BY <2>1
  <2> HIDE DEF l
  <2>3. l \in UNION {[S -> Labels] : S \in SUBSET Members} BY <1>1, <2>2
  <2> QED BY <2>2, <2>3
<1>4. /\ sent' = [order |-> t, labels |-> l, thumbnail |-> thumbnail] /\ todo' = changeList \cup {Resource}
      /\ saves' = saves + 1 /\ saveState' = "SAVING" /\ requested' = TRUE
      /\ UNCHANGED <<cardVars, formVars, changeVars, applies, serverVars, mishap>>
  BY DEF Save
<1> HIDE DEF t, l
<1>5. sent' \in Messages /\ DOMAIN sent'.labels = changeList
  BY <1>1, <1>2, <1>3, <1>4 DEF Messages
<1>6. WellTyped'
  BY <1>1, <1>4, <1>5 DEF OrderInv, WellTyped, TypeOK, cardVars, formVars, changeVars, serverVars, Objects
<1> QED BY <1>4, <1>6, SameForms

LEMMA ServingStep ==
    ASSUME OrderInv, Serving
    PROVE  OrderInv'
<1>1. sent \in Messages /\ sent.order \in Seq(Members) /\ sent.thumbnail \in Thumbnails
  BY DEF OrderInv, WellTyped, TypeOK, Messages
<1>2. CASE UpdateResource
  <2>1. sent.order \in Seq(Members \cup Others) BY <1>1
  <2>2. WellTyped'
    BY <1>1, <1>2, <2>1 DEF OrderInv, WellTyped, TypeOK, UpdateResource, cardVars, formVars, changeVars, Objects
  <2> QED BY <1>2, <2>2, SameForms DEF UpdateResource
<1>3. ASSUME NEW id \in Members, UpdateMember(id) PROVE OrderInv'
  <2>1. id \in DOMAIN sent.labels
    BY <1>3, OrderAssumption DEF OrderInv, WellTyped, UpdateMember
  <2>2. sent.labels[id] \in Labels
    <3>1. sent.labels \in UNION {[S -> Labels] : S \in SUBSET Members} BY <1>1 DEF Messages
    <3>2. PICK S \in SUBSET Members : sent.labels \in [S -> Labels] BY <3>1
    <3> QED BY <2>1, <3>2
  <2>3. WellTyped'
    BY <1>3, <2>2 DEF OrderInv, WellTyped, TypeOK, UpdateMember, cardVars, formVars, changeVars, Objects
  <2> QED BY <1>3, <2>3, SameForms DEF UpdateMember
<1>4. ASSUME NEW x \in Members \cup {Resource}, Refuse(x) PROVE OrderInv'
  <2>1. WellTyped'
    BY <1>4 DEF OrderInv, WellTyped, TypeOK, Refuse, cardVars, formVars, changeVars, serverVars, Objects
  <2> QED BY <1>4, <2>1, SameForms DEF Refuse
<1>5. CASE Answer
  <2>0. applies' \in Nat
    BY <1>5 DEF OrderInv, WellTyped, TypeOK, Answer
  <2>1. WellTyped'
    BY <1>5, <2>0 DEF OrderInv, WellTyped, TypeOK, Answer, cardVars, formVars, changeVars, serverVars, Objects
  <2> QED BY <1>5, <2>1, SameForms DEF Answer
<1>6. CASE Fail
  <2>1. WellTyped'
    BY <1>6 DEF OrderInv, WellTyped, TypeOK, Fail, cardVars, formVars, changeVars, serverVars, Objects
  <2> QED BY <1>6, <2>1, SameForms DEF Fail
<1> QED BY <1>2, <1>3, <1>4, <1>5, <1>6 DEF Serving

LEMMA ApplyStateStep ==
    ASSUME OrderInv, ApplyState
    PROVE  OrderInv'
<1>1. Ids(items) \in Seq(Members)
  <2> DEFINE t == Ids(items)
  <2>1. t = [i \in 1 .. Len(items) |-> heap[items[i]].id] BY DEF Ids
  <2>2. items \in Seq(1 .. Len(heap)) /\ heap \in Seq(Cards) BY DEF OrderInv, WellTyped, TypeOK, Objects
  <2> HIDE DEF t
  <2>3. t \in Seq(Members) BY <2>1, <2>2, IdsOf
  <2> QED BY <2>3 DEF t
<1>2. WellTyped'
  BY <1>1 DEF OrderInv, WellTyped, TypeOK, ApplyState, cardVars, formVars, serverVars, Objects
<1> QED BY <1>2, SameForms DEF ApplyState

LEMMA OthersEditStep ==
    ASSUME OrderInv, OthersEdit
    PROVE  OrderInv'
<1>1. order' \in Seq(Members \cup Others)
  <2>1. order \in Seq(Members \cup Others) BY DEF OrderInv, WellTyped, TypeOK
  <2>2. ASSUME NEW m \in Others \ ToSet(order), order' = Append(order, m) PROVE order' \in Seq(Members \cup Others)
    BY <2>1, <2>2
  <2>3. ASSUME NEW i \in 1 .. Len(order), order' = RemoveAt(order, i) PROVE order' \in Seq(Members \cup Others)
    BY <2>1, <2>3, RemovedAt
  <2> QED BY <2>2, <2>3 DEF OthersEdit
<1>2. WellTyped'
  BY <1>1 DEF OrderInv, WellTyped, TypeOK, OthersEdit, cardVars, formVars, changeVars, saveVars, Objects
<1> QED BY <1>2, SameForms DEF OthersEdit

LEMMA NextStep ==
    ASSUME OrderInv, [Next]_vars
    PROVE  OrderInv'
<1>1. CASE UNCHANGED vars
  <2>1. WellTyped'
    BY <1>1 DEF OrderInv, WellTyped, TypeOK, vars, cardVars, formVars, changeVars, saveVars, serverVars, Objects
  <2> QED BY <1>1, <2>1, SameForms DEF vars
<1>2. CASE Next
  BY <1>2, SelectingStep, MovingStep, LabellingStep, SaveStep, ServingStep, ApplyStateStep, OthersEditStep DEF Next
<1> QED BY <1>1, <1>2

LEMMA Invariant == Spec => []OrderInv
<1>1. OrderInv /\ [Next]_vars => OrderInv'
  BY NextStep
<1> QED BY InitInv, <1>1, PTL DEF Spec

---------------------------------------------------------------------------
(* What is not saved can be saved: the button is on *)

\* The member whose card is being typed on, if the form holds the card itself.
Typing == IF "single" \in pending /\ placed # 0 THEN {heap[placed].id} ELSE {}

\* The page shows of a member what the server has.
Agrees(id) == Shown(id) = label[id]

LabelsKept ==
    /\ \A id \in Members \ (changeList \cup Typing) : Agrees(id)
    /\ applies > 0 => \A id \in Members \ Typing : Agrees(id)
    /\ requested /\ Resource \notin todo => \A id \in Members \ (todo \cup Typing) : Agrees(id)
    /\ requested /\ Resource \in todo => changeList \subseteq todo
    /\ requested => \A id \in Members \cap todo : sent.labels[id] = Shown(id)

\* The mutation of the order has run.
Ordered == applies > 0 \/ (requested /\ Resource \notin todo)

OrderKept ==
    /\ IsInjective(order)
    /\ requested => sent.order = Ids(items)
    /\ Ordered => SameOrder(order, Ids(items))
    /\ applies = 0 /\ ~(requested /\ Resource \notin todo) => SameOrder(order, ogOrder)

\* Nothing is to do without a request.
IdleDone == ~requested => todo = {}

KeptInv == IdleDone /\ (mishap \/ (LabelsKept /\ OrderKept))

\* Where a gallery has its only card of a member.
LEMMA PlaceIs ==
    ASSUME NEW h \in Seq(Cards), NEW s \in Seq(1 .. Len(h)),
           \A i, j \in 1 .. Len(s) : h[s[i]].id = h[s[j]].id => i = j,
           NEW k \in 1 .. Len(s), NEW id, h[s[k]].id = id
    PROVE  k = CHOOSE i \in 1 .. Len(s) : h[s[i]].id = id /\ \A j \in 1 .. i - 1 : h[s[j]].id # id
<1> DEFINE P(i) == h[s[i]].id = id /\ \A j \in 1 .. i - 1 : h[s[j]].id # id
<1>1. Len(s) \in Nat
  OBVIOUS
<1>2. ASSUME NEW i \in 1 .. Len(s), h[s[i]].id = id PROVE i = k
  BY <1>2
<1>3. ASSUME NEW j \in 1 .. k - 1 PROVE h[s[j]].id # id
  <2>1. j \in 1 .. Len(s) /\ j # k BY <1>1, <1>3
  <2> QED BY <1>2, <2>1
<1>4. P(k)
  BY <1>3
<1>5. \A i \in 1 .. Len(s) : P(i) => i = k
  BY <1>2
<1> HIDE DEF P
<1>6. k = CHOOSE i \in 1 .. Len(s) : P(i)
  BY <1>4, <1>5
<1> QED BY <1>6, Zenon DEF P

\* The positions of cards that each have an id of their own.
LEMMA OnceAt ==
    ASSUME NEW h \in Seq(Cards), NEW s \in Seq(1 .. Len(h)),
           NEW t, t = [i \in 1 .. Len(s) |-> h[s[i]].id], IsInjective(t)
    PROVE  \A i, j \in 1 .. Len(s) : h[s[i]].id = h[s[j]].id => i = j
<1>1. DOMAIN t = 1 .. Len(s) /\ \A i \in 1 .. Len(s) : t[i] = h[s[i]].id
  OBVIOUS
<1> QED BY <1>1 DEF IsInjective

\* What the page shows of a member is the label of its card.
LEMMA ShownIs ==
    ASSUME OrderInv, ~mishap, NEW o \in ToSet(items)
    PROVE  Shown(heap[o].id) = heap[o].label
<1> DEFINE t == Ids(items)
<1>1. heap \in Seq(Cards) /\ items \in Seq(1 .. Len(heap))
  BY DEF OrderInv, WellTyped, TypeOK, Objects
<1>2. t = [i \in 1 .. Len(items) |-> heap[items[i]].id]
  BY DEF Ids
<1>3. IsInjective(t)
  BY DEF OrderInv, MembersOnce
<1> HIDE DEF t
<1>4. PICK k \in 1 .. Len(items) : items[k] = o
  BY <1>1 DEF ToSet
<1> DEFINE p == IndexById(heap[o].id)
<1>5. \A i, j \in 1 .. Len(items) : heap[items[i]].id = heap[items[j]].id => i = j
  BY <1>1, <1>2, <1>3, OnceAt
<1>6. k = CHOOSE i \in 1 .. Len(items) : heap[items[i]].id = heap[o].id /\ \A j \in 1 .. i - 1 : heap[items[j]].id # heap[o].id
  BY <1>1, <1>4, <1>5, PlaceIs
<1>7. p = k
  BY <1>6, Zenon DEF IndexById
<1> HIDE DEF p
<1>8. heap[items[p]].label = heap[o].label
  BY <1>4, <1>7
<1> QED BY <1>8 DEF Shown, p

LEMMA ShownIsNext ==
    ASSUME OrderInv', ~mishap', NEW o \in ToSet(items'), NEW id, heap'[o].id = id
    PROVE  Shown(id)' = heap'[o].label
<1> DEFINE t == Ids(items)'
           h == heap'
           s == items'
<1>1. h \in Seq(Cards) /\ s \in Seq(1 .. Len(h))
  BY DEF OrderInv, WellTyped, TypeOK, Objects
<1>2. t = [i \in 1 .. Len(s) |-> h[s[i]].id]
  BY DEF Ids
<1>3. IsInjective(t)
  BY DEF OrderInv, MembersOnce
<1> HIDE DEF t
<1>4. PICK k \in 1 .. Len(s) : s[k] = o
  BY <1>1 DEF ToSet
<1> DEFINE p == IndexById(id)'
<1>c. p = CHOOSE i \in 1 .. Len(s) : h[s[i]].id = id /\ \A j \in 1 .. i - 1 : h[s[j]].id # id
  BY Zenon DEF IndexById
<1>s. Shown(id)' = h[s[p]].label
  BY DEF Shown
<1>i. h[o].id = id
  OBVIOUS
<1> HIDE DEF p, h, s
<1>5. \A i, j \in 1 .. Len(s) : h[s[i]].id = h[s[j]].id => i = j
  BY <1>1, <1>2, <1>3, OnceAt
<1>6. k = CHOOSE i \in 1 .. Len(s) : h[s[i]].id = id /\ \A j \in 1 .. i - 1 : h[s[j]].id # id
  BY <1>1, <1>4, <1>5, <1>i, PlaceIs
<1>7. p = k
  BY <1>6, <1>c, Zenon
<1>8. h[s[p]].label = h[o].label
  BY <1>4, <1>7
<1> QED BY <1>8, <1>s DEF h, s

\* Every member has a card.
LEMMA CardOf ==
    ASSUME OrderInv, NEW id \in Members
    PROVE  \E o \in ToSet(items) : o \in Objects /\ heap[o].id = id
<1> DEFINE k == IndexById(id)
<1>1. items \in Seq(Objects)
  BY DEF OrderInv, WellTyped, TypeOK
<1>2. k \in 1 .. Len(items) /\ heap[items[k]].id = id
  BY IndexIs DEF OrderInv, WellTyped
<1> HIDE DEF k
<1>3. items[k] \in ToSet(items) /\ items[k] \in Objects
  BY <1>1, <1>2 DEF ToSet
<1> QED BY <1>2, <1>3

\* A card that stays, unchanged, shows what it showed.
LEMMA ShownKept ==
    ASSUME OrderInv, OrderInv', ~mishap, ~mishap', NEW id,
           NEW o, o \in ToSet(items), o \in ToSet(items'), heap[o].id = id, heap'[o] = heap[o]
    PROVE  Shown(id)' = Shown(id)
<1>1. Shown(id) = heap[o].label
  BY ShownIs
<1>2. heap'[o].id = id
  OBVIOUS
<1>3. Shown(id)' = heap'[o].label
  BY <1>2, ShownIsNext
<1> QED BY <1>1, <1>3

LEMMA KeptInit == Init => KeptInv
<1> SUFFICES ASSUME Init PROVE KeptInv
  OBVIOUS
<1>0. OrderInv
  BY InitInv
<1>1. order \in Seq(Members) /\ ToSet(order) = Members /\ IsInjective(order)
  BY Arranged, OrderAssumption DEF Init
<1>2. heap \in Seq(Cards) /\ Len(heap) = Len(order) /\ \A i \in 1 .. Len(order) : heap[i] = [id |-> order[i], label |-> label[order[i]]]
  BY <1>0 DEF Init, OrderInv, WellTyped, TypeOK
<1>3. ASSUME NEW id \in Members, ~mishap PROVE Agrees(id)
  <2>1. PICK o \in ToSet(items) : o \in Objects /\ heap[o].id = id
    BY <1>0, CardOf
  <2>2. Shown(id) = heap[o].label
    BY <1>0, <1>3, <2>1, ShownIs
  <2>3. heap[o] = [id |-> order[o], label |-> label[order[o]]]
    BY <1>2, <2>1 DEF Objects
  <2> QED BY <2>1, <2>2, <2>3 DEF Agrees
<1>4. SameOrder(order, ogOrder)
  BY DEF Init, SameOrder
<1> QED BY <1>1, <1>3, <1>4 DEF Init, KeptInv, LabelsKept, OrderKept, Ordered, IdleDone

\* What touches neither the cards, nor what is saved, nor the request.
LEMMA SameKept ==
    ASSUME KeptInv, mishap => mishap', ~mishap' => Typing' = Typing,
           UNCHANGED <<heap, items, changeList, ogOrder, requested, sent, todo, applies, order, label>>
    PROVE  KeptInv'
<1>1. ASSUME NEW id PROVE Agrees(id)' <=> Agrees(id)
  BY DEF Agrees, Shown, IndexById
<1>2. ASSUME NEW id PROVE Shown(id)' = Shown(id)
  BY DEF Shown, IndexById
<1>3. Ids(items)' = Ids(items)
  BY DEF Ids
<1>4. ASSUME ~mishap' PROVE LabelsKept' /\ OrderKept'
  <2>1. LabelsKept /\ OrderKept /\ Typing' = Typing BY <1>4 DEF KeptInv
  <2>2. LabelsKept' BY <1>1, <1>2, <2>1 DEF LabelsKept
  <2>3. OrderKept' BY <1>3, <2>1 DEF OrderKept, Ordered
  <2> QED BY <2>2, <2>3
<1> QED BY <1>4 DEF KeptInv, IdleDone

\* The cards change, with nothing on its way: what they show that is not on
\* the changeList, they showed before.
LEMMA CardsKept ==
    ASSUME KeptInv, ~mishap, ~Late,
           UNCHANGED <<ogOrder, requested, sent, todo, applies, order, label>>,
           \A id \in Members \ (changeList' \cup Typing') :
              id \notin changeList \cup Typing /\ Shown(id)' = Shown(id)
    PROVE  KeptInv'
<1>1. ~requested /\ ~(applies > 0) /\ ~Ordered
  BY DEF Late, Ordered
<1>2. ASSUME NEW id \in Members \ (changeList' \cup Typing') PROVE Agrees(id)'
  <2>1. id \notin changeList \cup Typing /\ Shown(id)' = Shown(id) OBVIOUS
  <2>2. Agrees(id) BY <2>1 DEF KeptInv, LabelsKept
  <2> QED BY <2>1, <2>2 DEF Agrees
<1>3. LabelsKept'
  BY <1>1, <1>2 DEF LabelsKept
<1>4. OrderKept'
  BY <1>1 DEF KeptInv, OrderKept, Ordered
<1> QED BY <1>3, <1>4 DEF KeptInv, IdleDone

LEMMA SelectKept ==
    ASSUME KeptInv, NEW s, Select(s)
    PROVE  KeptInv'
<1>1. ~mishap' => Typing' = Typing
  BY DEF Select, Typing, cardVars
<1> QED BY <1>1, SameKept DEF Select, cardVars, changeVars, saveVars, serverVars

LEMMA SelectingKept ==
    ASSUME KeptInv, Selecting
    PROVE  KeptInv'
BY SelectKept DEF Selecting, Click, MetaClick, ShiftClick, SelectMenu

\* After a mishap there is only the request to look after.
LEMMA MishapKept ==
    ASSUME KeptInv, mishap', UNCHANGED <<requested, todo>>
    PROVE  KeptInv'
BY DEF KeptInv, IdleDone

\* What stays in the gallery, and as it is, is shown as it was.
LEMMA MovingKept ==
    ASSUME OrderInv, OrderInv', KeptInv, Moving
    PROVE  KeptInv'
<1>1. ASSUME CutSelected PROVE KeptInv'
  <2>1. ~mishap' => Typing' = Typing BY <1>1 DEF CutSelected, Typing
  <2> QED BY <1>1, <2>1, SameKept DEF CutSelected, changeVars, saveVars, serverVars
<1>2. ASSUME ~mishap', ~mishap, ~Late, ToSet(items') = ToSet(items), Typing' = Typing, UNCHANGED heap,
             UNCHANGED <<changeVars, saveVars, serverVars>>
      PROVE  KeptInv'
  <2>1. ASSUME NEW id \in Members PROVE Shown(id)' = Shown(id)
    <3>1. PICK o \in ToSet(items) : o \in Objects /\ heap[o].id = id BY CardOf
    <3>2. o \in ToSet(items') /\ heap'[o] = heap[o] BY <1>2
    <3> QED BY <1>2, <3>1, <3>2, ShownKept
  <2> QED BY <1>2, <2>1, CardsKept DEF changeVars, saveVars, serverVars
<1>3. ASSUME NEW modifier \in {-1, 1}, Paste(modifier) PROVE KeptInv'
  <2>1. CASE mishap'
    BY <1>3, <2>1, MishapKept DEF Paste, saveVars
  <2>2. CASE ~mishap'
    <3>1. ~mishap /\ ToSet(items') = ToSet(items) BY <1>3, <2>2, Pasted
    <3>2. ~Late /\ pending = {} /\ UNCHANGED <<heap, pending, changeVars, saveVars, serverVars>>
      BY <1>3, <2>2 DEF Paste
    <3>3. Typing' = Typing BY <3>2 DEF Typing
    <3> QED BY <1>2, <2>2, <3>1, <3>2, <3>3
  <2> QED BY <2>1, <2>2
<1>4. ASSUME NEW i \in 1 .. Len(items), NEW j \in 1 .. Len(items), DragCard(i, j) PROVE KeptInv'
  <2>1. CASE mishap'
    BY <1>4, <2>1, MishapKept DEF DragCard, saveVars
  <2>2. CASE ~mishap'
    <3>1. ~mishap /\ ~Late BY <1>4, <2>2 DEF DragCard
    <3>2. ToSet(items') = ToSet(items) BY <1>4, Dragged
    <3>3. UNCHANGED <<heap, formVars, changeVars, saveVars, serverVars>> BY <1>4 DEF DragCard
    <3>4. Typing' = Typing BY <3>3 DEF Typing, formVars
    <3> QED BY <1>2, <2>2, <3>1, <3>2, <3>3, <3>4
  <2> QED BY <2>1, <2>2
<1> QED BY <1>1, <1>3, <1>4 DEF Moving

LEMMA UpdateSingleKept ==
    ASSUME OrderInv, OrderInv', KeptInv, UpdateSingle
    PROVE  KeptInv'
<1>1. CASE selected = <<>>
  <2>1. placed = 0 BY <1>1 DEF OrderInv, PlacedIsSelected
  <2>2. UNCHANGED <<heap, items, placed, changeList, mishap, ogOrder, saveVars, serverVars>>
    BY <1>1 DEF UpdateSingle
  <2>3. Typing' = Typing BY <2>1, <2>2 DEF Typing
  <2> QED BY <2>2, <2>3, SameKept DEF saveVars, serverVars
<1>2. CASE selected # <<>>
  <2> DEFINE m == heap[selected[1]].id
             k == IndexById(m)
  <2>1. mishap' = (mishap \/ Late) /\ changeList' = changeList \cup {m} /\ pending' = pending \ {"single"}
        /\ UNCHANGED <<ogOrder, saveVars, serverVars>>
    BY <1>2 DEF UpdateSingle
  <2>2. CASE mishap'
    BY <2>1, <2>2, MishapKept DEF saveVars
  <2>3. CASE ~mishap'
    <3>1. ~mishap /\ ~Late BY <2>1, <2>3
    <3>2. Typing \subseteq {m}
      BY DEF Typing, OrderInv, PlacedIsSelected
    <3>3. items \in Seq(1 .. Len(heap)) /\ heap \in Seq(Cards) /\ selected \in Seq(1 .. Len(heap))
      BY DEF OrderInv, WellTyped, TypeOK, Objects
    <3>4. m \in Members
      <4>1. 1 \in 1 .. Len(selected) BY <1>2, <3>3
      <4>2. selected[1] \in 1 .. Len(heap) BY <3>3, <4>1
      <4> QED BY <3>3, <4>2, CardIds
    <3>5. k \in 1 .. Len(items) /\ heap[items[k]].id = m
      BY <3>4, IndexIs DEF OrderInv, WellTyped
    <3>6. (\E x : items' = [items EXCEPT ![k] = x]) /\ (\A o \in 1 .. Len(heap) : heap'[o] = heap[o])
      <4>1. CASE placed = 0
        <5>1. PICK f : heap' = Append(heap, f) /\ items' = [items EXCEPT ![k] = Len(heap')]
          BY <1>2, <4>1 DEF UpdateSingle
        <5>2. \A o \in 1 .. Len(heap) : heap'[o] = heap[o] BY <3>3, <5>1
        <5> QED BY <5>1, <5>2
      <4>2. CASE placed # 0
        <5>1. UNCHANGED heap /\ items' = [items EXCEPT ![k] = placed]
          BY <1>2, <4>2 DEF UpdateSingle
        <5> QED BY <5>1
      <4> QED BY <4>1, <4>2
    <3> HIDE DEF m, k
    <3>7. ASSUME NEW id \in Members \ (changeList' \cup Typing')
          PROVE  id \notin changeList \cup Typing /\ Shown(id)' = Shown(id)
      <4>1. id \in Members /\ id # m /\ id \notin changeList BY <2>1
      <4>2. PICK o \in ToSet(items) : o \in Objects /\ heap[o].id = id BY <4>1, CardOf
      <4>3. PICK i \in 1 .. Len(items) : items[i] = o BY <3>3 DEF ToSet
      <4>4. i # k BY <3>5, <4>1, <4>2, <4>3
      <4>5. o \in ToSet(items')
        <5>1. PICK x : items' = [items EXCEPT ![k] = x] BY <3>6
        <5>2. i \in DOMAIN items' /\ items'[i] = o BY <3>3, <4>3, <4>4, <5>1
        <5> QED BY <5>2 DEF ToSet
      <4>6. heap'[o] = heap[o] BY <3>6, <4>2 DEF Objects
      <4>7. Shown(id)' = Shown(id) BY <2>3, <3>1, <4>2, <4>5, <4>6, ShownKept
      <4> QED BY <3>2, <4>1, <4>7
    <3> QED BY <2>1, <3>1, <3>7, CardsKept DEF saveVars, serverVars
  <2> QED BY <2>2, <2>3
<1> QED BY <1>1, <1>2

LEMMA UpdateMultiKept ==
    ASSUME OrderInv, OrderInv', KeptInv, NEW new \in [Members -> Labels], UpdateMultiLabels(new)
    PROVE  KeptInv'
<1> DEFINE n == Len(heap)
           t == Ids(selected)
           ids == ToSet(t)
           hits == {items[IndexById(id)] : id \in ids}
<1>1. /\ heap \in Seq(Cards) /\ n \in Nat /\ selected \in Seq(1 .. n) /\ items \in Seq(1 .. n)
  BY DEF OrderInv, WellTyped, TypeOK, Objects
<1>2. /\ heap' = [o \in 1 .. n |-> IF o \in hits THEN [heap[o] EXCEPT !.label = new[heap[o].id]] ELSE heap[o]]
      /\ changeList' = changeList \cup ids
      /\ (typed' = Nothing /\ placed' = 0 /\ selected # <<>>) \/ UNCHANGED <<typed, placed>>
      /\ mishap' = (mishap \/ (Late /\ ids # {}))
      /\ pending' = pending \ {"multi"}
      /\ UNCHANGED <<items, selected, ogOrder, saveVars, serverVars>>
  BY DEF UpdateMultiLabels, Objects
<1>3. t \in Seq(Members) /\ Len(t) = Len(selected) /\ \A i \in 1 .. Len(selected) : t[i] = heap[selected[i]].id
  <2>1. t = [i \in 1 .. Len(selected) |-> heap[selected[i]].id] BY DEF Ids
  <2> HIDE DEF t
  <2> QED BY <1>1, <2>1, IdsOf
<1> HIDE DEF t
<1>4. ids \subseteq Members
  BY <1>3, ToSetType
<1>5. ASSUME NEW o \in hits PROVE heap[o].id \in ids
  <2>1. PICK id \in ids : o = items[IndexById(id)] OBVIOUS
  <2>2. heap[items[IndexById(id)]].id = id BY <1>4, IndexIs DEF OrderInv, WellTyped
  <2> QED BY <2>1, <2>2
<1>6. placed # 0 => heap[placed].id \in ids
  <2> SUFFICES ASSUME placed # 0 PROVE heap[placed].id \in ids
    OBVIOUS
  <2>1. Len(selected) = 1 /\ heap[placed].id = heap[selected[1]].id BY DEF OrderInv, PlacedIsSelected
  <2>2. 1 \in DOMAIN t /\ t[1] = heap[selected[1]].id BY <1>3, <2>1
  <2> QED BY <2>1, <2>2 DEF ToSet
<1>7. ids = {} => hits = {}
  OBVIOUS
<1>8. selected # <<>> => ids # {}
  <2> SUFFICES ASSUME selected # <<>> PROVE ids # {}
    OBVIOUS
  <2>1. 1 \in DOMAIN t BY <1>1, <1>3
  <2> QED BY <2>1 DEF ToSet
<1> HIDE DEF ids, hits
<1>9. CASE mishap'
  BY <1>2, <1>9, MishapKept DEF saveVars
<1>10. CASE ids = {}
  <2>1. \A o \in 1 .. n : heap'[o] = heap[o] BY <1>2, <1>7, <1>10
  <2>2. heap' = heap
    <3>1. heap' = [o \in 1 .. n |-> heap[o]] BY <1>2, <1>7, <1>10
    <3>2. heap = [o \in 1 .. n |-> heap[o]] BY <1>1
    <3> QED BY <3>1, <3>2
  <2>3. changeList' = changeList /\ placed' = placed /\ (mishap => mishap') BY <1>2, <1>8, <1>10
  <2>4. Typing' = Typing BY <1>2, <2>2, <2>3 DEF Typing
  <2> QED BY <1>2, <2>2, <2>3, <2>4, SameKept DEF saveVars, serverVars
<1>11. CASE ~mishap' /\ ids # {}
  <2>1. ~mishap /\ ~Late BY <1>2, <1>11
  <2>2. Typing \subseteq ids BY <1>6 DEF Typing
  <2>3. ASSUME NEW id \in Members \ (changeList' \cup Typing')
        PROVE  id \notin changeList \cup Typing /\ Shown(id)' = Shown(id)
    <3>1. id \in Members /\ id \notin ids /\ id \notin changeList BY <1>2
    <3>2. PICK o \in ToSet(items) : o \in Objects /\ heap[o].id = id BY <3>1, CardOf
    <3>3. o \notin hits BY <1>5, <3>1, <3>2
    <3>4. heap'[o] = heap[o] BY <1>2, <3>2, <3>3 DEF Objects
    <3>5. o \in ToSet(items') BY <1>2
    <3>6. Shown(id)' = Shown(id) BY <1>11, <2>1, <3>2, <3>4, <3>5, ShownKept
    <3> QED BY <2>2, <3>1, <3>6
  <2> QED BY <1>2, <2>1, <2>3, CardsKept DEF saveVars, serverVars
<1> QED BY <1>9, <1>10, <1>11

LEMMA TypeLabelKept ==
    ASSUME OrderInv, OrderInv', KeptInv, NEW l \in Labels, TypeLabel(l)
    PROVE  KeptInv'
<1>1. CASE placed = 0
  <2>1. UNCHANGED <<heap, items, placed, changeVars, saveVars, serverVars>> /\ (mishap => mishap')
    BY <1>1 DEF TypeLabel
  <2>2. Typing' = Typing BY <1>1, <2>1 DEF Typing
  <2> QED BY <2>1, <2>2, SameKept DEF changeVars, saveVars, serverVars
<1>2. CASE placed # 0
  <2>1. /\ heap' = [heap EXCEPT ![placed].label = l] /\ pending' = pending \cup {"single"}
        /\ mishap' = (mishap \/ Late)
        /\ UNCHANGED <<items, placed, changeVars, saveVars, serverVars>>
    BY <1>2 DEF TypeLabel
  <2>2. CASE mishap'
    BY <2>1, <2>2, MishapKept DEF saveVars
  <2>3. CASE ~mishap'
    <3>1. ~mishap /\ ~Late BY <2>1, <2>3
    <3>2. heap \in Seq(Cards) /\ placed \in 1 .. Len(heap) /\ items \in Seq(1 .. Len(heap))
      BY <1>2 DEF OrderInv, WellTyped, TypeOK, Objects
    <3>3. \A o \in 1 .. Len(heap) : o # placed => heap'[o] = heap[o]
      BY <2>1, <3>2
    <3>4. Typing' = {heap[placed].id} /\ Typing \subseteq {heap[placed].id}
      <4>1. heap[placed] \in Cards BY <3>2, CardIds
      <4>2. heap'[placed].id = heap[placed].id
        <5> DEFINE x == [heap[placed] EXCEPT !.label = l]
        <5>1. heap' = [heap EXCEPT ![placed] = x] BY <2>1
        <5>2. x.id = heap[placed].id BY <4>1 DEF Cards
        <5> HIDE DEF x
        <5> QED BY <3>2, <5>1, <5>2
      <4> QED BY <1>2, <2>1, <4>2 DEF Typing
    <3>5. ASSUME NEW id \in Members \ (changeList' \cup Typing')
          PROVE  id \notin changeList \cup Typing /\ Shown(id)' = Shown(id)
      <4>1. id \in Members /\ id # heap[placed].id /\ id \notin changeList BY <2>1, <3>4 DEF changeVars
      <4>2. PICK o \in ToSet(items) : o \in Objects /\ heap[o].id = id BY <4>1, CardOf
      <4>3. o # placed BY <4>1, <4>2
      <4>4. heap'[o] = heap[o] BY <3>3, <4>2, <4>3 DEF Objects
      <4>5. o \in ToSet(items') BY <2>1
      <4>6. Shown(id)' = Shown(id) BY <2>3, <3>1, <4>2, <4>4, <4>5, ShownKept
      <4> QED BY <3>4, <4>1, <4>6
    <3> QED BY <2>1, <3>1, <3>5, CardsKept DEF changeVars, saveVars, serverVars
  <2> QED BY <2>2, <2>3
<1> QED BY <1>1, <1>2

LEMMA LabellingKept ==
    ASSUME OrderInv, OrderInv', KeptInv, Labelling
    PROVE  KeptInv'
<1>1. ASSUME TypeNumbering PROVE KeptInv'
  <2>1. Typing' = Typing BY <1>1 DEF TypeNumbering, Typing, cardVars
  <2> QED BY <1>1, <2>1, SameKept DEF TypeNumbering, cardVars, changeVars, saveVars, serverVars
<1>2. ASSUME NEW x \in Thumbnails, UpdateThumbnail(x) PROVE KeptInv'
  <2>1. Typing' = Typing BY <1>2 DEF UpdateThumbnail, Typing, cardVars, formVars
  <2> QED BY <1>2, <2>1, SameKept DEF UpdateThumbnail, cardVars, saveVars, serverVars
<1> QED BY <1>1, <1>2, TypeLabelKept, UpdateSingleKept, UpdateMultiKept DEF Labelling

\* What neither the cards nor the forms touch, on its way to the server.
LEMMA SaveKept ==
    ASSUME OrderInv, KeptInv, Save
    PROVE  KeptInv'
<1>1. /\ ~requested /\ requested' = TRUE /\ todo' = changeList \cup {Resource}
      /\ sent'.order = Ids(items) /\ \A id \in changeList : sent'.labels[id] = Shown(id)
      /\ UNCHANGED <<cardVars, formVars, changeVars, applies, serverVars, mishap>>
  BY DEF Save
<1>2. \A id : Shown(id)' = Shown(id) /\ (Agrees(id)' <=> Agrees(id))
  BY <1>1 DEF Agrees, Shown, IndexById, cardVars, serverVars
<1>3. Ids(items)' = Ids(items) /\ Typing' = Typing
  BY <1>1 DEF Ids, Typing, cardVars, formVars
<1>4. ASSUME ~mishap' PROVE LabelsKept' /\ OrderKept'
  <2>1. LabelsKept /\ OrderKept BY <1>1, <1>4 DEF KeptInv
  <2>2. LabelsKept'
    <3>1. \A id \in Members \ (changeList' \cup Typing') : Agrees(id)'
      BY <1>1, <1>2, <1>3, <2>1 DEF LabelsKept, changeVars
    <3>2. applies' > 0 => \A id \in Members \ Typing' : Agrees(id)'
      BY <1>1, <1>2, <1>3, <2>1 DEF LabelsKept
    <3>3. Resource \in todo' /\ changeList' \subseteq todo'
      BY <1>1 DEF changeVars
    <3>4. \A id \in Members \cap todo' : sent'.labels[id] = Shown(id)'
      BY <1>1, <1>2, OrderAssumption
    <3> QED BY <3>1, <3>2, <3>3, <3>4 DEF LabelsKept
  <2>3. OrderKept'
    BY <1>1, <1>3, <2>1 DEF OrderKept, Ordered, serverVars, changeVars
  <2> QED BY <2>2, <2>3
<1> QED BY <1>1, <1>4 DEF KeptInv, IdleDone

\* The server runs a mutation, or answers.
LEMMA ServingKept ==
    ASSUME OrderInv, KeptInv, Serving
    PROVE  KeptInv'
<1>1. UNCHANGED <<cardVars, formVars, changeVars>>
  BY DEF Serving, UpdateResource, UpdateMember, Refuse, Answer, Fail
<1>2. \A id : Shown(id)' = Shown(id)
  BY <1>1 DEF Shown, IndexById, cardVars
<1>3. Ids(items)' = Ids(items) /\ Typing' = Typing /\ changeList' = changeList /\ ogOrder' = ogOrder
  BY <1>1 DEF Ids, Typing, cardVars, formVars, changeVars
<1>4. ASSUME NEW id, label'[id] = label[id] PROVE Agrees(id)' <=> Agrees(id)
  BY <1>2, <1>4 DEF Agrees
<1>5. CASE UpdateResource
  <2>1. /\ requested /\ Resource \in todo /\ todo' = todo \ {Resource} /\ order' = sent.order
        /\ UNCHANGED <<requested, sent, applies, label, mishap>>
    BY <1>5 DEF UpdateResource, KeptInv, IdleDone
  <2>2. ASSUME ~mishap' PROVE LabelsKept' /\ OrderKept'
    <3>1. LabelsKept /\ OrderKept BY <2>1, <2>2 DEF KeptInv
    <3>2. LabelsKept'
      <4>1. \A id : Agrees(id)' <=> Agrees(id) BY <1>4, <2>1
      <4>2. \A id \in Members \ (changeList' \cup Typing') : Agrees(id)' BY <1>3, <3>1, <4>1 DEF LabelsKept
      <4>3. applies' > 0 => \A id \in Members \ Typing' : Agrees(id)' BY <1>3, <2>1, <3>1, <4>1 DEF LabelsKept
      <4>4. \A id \in Members \ (todo' \cup Typing') : Agrees(id)'
        <5>1. changeList \subseteq todo BY <2>1, <3>1 DEF LabelsKept
        <5>2. \A id \in Members : id \notin todo' => id \notin changeList BY <2>1, <5>1, OrderAssumption
        <5> QED BY <1>3, <4>2, <5>2
      <4>5. \A id \in Members \cap todo' : sent'.labels[id] = Shown(id)' BY <1>2, <2>1, <3>1 DEF LabelsKept
      <4>6. Resource \notin todo' BY <2>1
      <4> QED BY <4>2, <4>3, <4>4, <4>5, <4>6 DEF LabelsKept
    <3>3. OrderKept'
      <4>1. order' = Ids(items) BY <2>1, <3>1 DEF OrderKept
      <4>2. IsInjective(order') BY <2>1, <2>2, <4>1 DEF OrderInv, MembersOnce
      <4>3. SameOrder(order', Ids(items)') BY <1>3, <4>1 DEF SameOrder
      <4>4. sent'.order = Ids(items)' BY <1>3, <2>1, <4>1
      <4>5. requested' /\ Resource \notin todo' BY <2>1
      <4> QED BY <4>2, <4>3, <4>4, <4>5 DEF OrderKept
    <3> QED BY <3>2, <3>3
  <2> QED BY <2>1, <2>2 DEF KeptInv, IdleDone
<1>6. ASSUME NEW m \in Members, UpdateMember(m) PROVE KeptInv'
  <2>1. /\ requested /\ Resource \notin todo /\ m \in todo /\ todo' = todo \ {m}
        /\ label' = [label EXCEPT ![m] = sent.labels[m]]
        /\ UNCHANGED <<requested, sent, applies, order, mishap>>
    BY <1>6 DEF UpdateMember, KeptInv, IdleDone
  <2>2. ASSUME ~mishap' PROVE LabelsKept' /\ OrderKept'
    <3>1. LabelsKept /\ OrderKept BY <2>1, <2>2 DEF KeptInv
    <3>2. label \in [Members -> Labels] BY DEF OrderInv, WellTyped, TypeOK
    <3>3. Agrees(m)'
      <4>1. label'[m] = sent.labels[m] BY <2>1, <3>2
      <4>2. sent.labels[m] = Shown(m) BY <2>1, <3>1 DEF LabelsKept
      <4> QED BY <1>2, <4>1, <4>2 DEF Agrees
    <3>4. ASSUME NEW id \in Members, Agrees(id) PROVE Agrees(id)'
      <4>1. CASE id = m BY <3>3, <4>1
      <4>2. CASE id # m
        <5>1. label'[id] = label[id] BY <2>1, <3>2, <4>2
        <5> QED BY <1>4, <3>4, <5>1
      <4> QED BY <4>1, <4>2
    <3>5. LabelsKept'
      <4>1. \A id \in Members \ (changeList' \cup Typing') : Agrees(id)' BY <1>3, <3>1, <3>4 DEF LabelsKept
      <4>2. applies' > 0 => \A id \in Members \ Typing' : Agrees(id)' BY <1>3, <2>1, <3>1, <3>4 DEF LabelsKept
      <4>3. ASSUME NEW id \in Members \ (todo' \cup Typing') PROVE Agrees(id)'
        <5>1. CASE id = m BY <3>3, <5>1
        <5>2. CASE id # m
          <6>1. id \in Members \ (todo \cup Typing) BY <1>3, <2>1, <5>2
          <6>2. Agrees(id) BY <2>1, <3>1, <6>1 DEF LabelsKept
          <6> QED BY <3>4, <6>2
        <5> QED BY <5>1, <5>2
      <4>4. \A id \in Members \cap todo' : sent'.labels[id] = Shown(id)' BY <1>2, <2>1, <3>1 DEF LabelsKept
      <4>5. Resource \notin todo' BY <2>1
      <4> QED BY <4>1, <4>2, <4>3, <4>4, <4>5 DEF LabelsKept
    <3>6. OrderKept'
      <4>1. Resource \notin todo' BY <2>1
      <4> QED BY <1>3, <2>1, <3>1, <4>1 DEF OrderKept, Ordered
    <3> QED BY <3>5, <3>6
  <2> QED BY <2>1, <2>2 DEF KeptInv, IdleDone
<1>7. ASSUME NEW x \in Members \cup {Resource}, Refuse(x) PROVE KeptInv'
  <2>1. mishap' /\ todo' \subseteq todo /\ UNCHANGED requested BY <1>7 DEF Refuse
  <2> QED BY <2>1 DEF KeptInv, IdleDone
<1>8. CASE Answer
  <2>1. /\ requested /\ todo = {} /\ ~requested' /\ applies' = applies + 1
        /\ UNCHANGED <<sent, todo, order, label, mishap>>
    BY <1>8 DEF Answer, serverVars
  <2>2. applies \in Nat BY DEF OrderInv, WellTyped, TypeOK
  <2>3. ASSUME ~mishap' PROVE LabelsKept' /\ OrderKept'
    <3>1. LabelsKept /\ OrderKept BY <2>1, <2>3 DEF KeptInv
    <3>2. \A id \in Members \ Typing' : Agrees(id)' BY <1>3, <1>4, <2>1, <3>1 DEF LabelsKept
    <3>3. LabelsKept' BY <2>1, <3>2 DEF LabelsKept
    <3>4. OrderKept' BY <1>3, <2>1, <2>2, <3>1 DEF OrderKept, Ordered
    <3> QED BY <3>3, <3>4
  <2> QED BY <2>1, <2>3 DEF KeptInv, IdleDone
<1>9. CASE Fail
  <2>1. /\ requested /\ ~requested' /\ todo' = {} /\ mishap' = (mishap \/ Resource \notin todo)
        /\ UNCHANGED <<sent, applies, order, label>>
    BY <1>9 DEF Fail, serverVars
  <2>2. ASSUME ~mishap' PROVE LabelsKept' /\ OrderKept'
    <3>1. LabelsKept /\ OrderKept /\ Resource \in todo BY <2>1, <2>2 DEF KeptInv
    <3>2. LabelsKept' BY <1>3, <1>4, <2>1, <3>1 DEF LabelsKept
    <3>3. OrderKept' BY <1>3, <2>1, <3>1 DEF OrderKept, Ordered
    <3> QED BY <3>2, <3>3
  <2> QED BY <2>1, <2>2 DEF KeptInv, IdleDone
<1> QED BY <1>5, <1>6, <1>7, <1>8, <1>9 DEF Serving

LEMMA ApplyStateKept ==
    ASSUME OrderInv, KeptInv, ApplyState
    PROVE  KeptInv'
<1>1. /\ applies > 0 /\ changeList' = {} /\ ogOrder' = Ids(items)
      /\ UNCHANGED <<cardVars, formVars, requested, sent, todo, order, label, mishap>>
  BY DEF ApplyState, serverVars
<1>2. \A id : Shown(id)' = Shown(id) /\ (Agrees(id)' <=> Agrees(id))
  BY <1>1 DEF Agrees, Shown, IndexById, cardVars
<1>3. Ids(items)' = Ids(items) /\ Typing' = Typing
  BY <1>1 DEF Ids, Typing, cardVars, formVars
<1>4. ASSUME ~mishap' PROVE LabelsKept' /\ OrderKept'
  <2>1. LabelsKept /\ OrderKept BY <1>1, <1>4 DEF KeptInv
  <2>2. \A id \in Members \ Typing' : Agrees(id)' BY <1>1, <1>2, <1>3, <2>1 DEF LabelsKept
  <2>3. requested' => \A id \in Members \cap todo' : sent'.labels[id] = Shown(id)'
    BY <1>1, <1>2, <2>1 DEF LabelsKept
  <2>4. LabelsKept' BY <1>1, <2>2, <2>3 DEF LabelsKept
  <2>5. OrderKept' BY <1>1, <1>3, <2>1 DEF OrderKept, Ordered
  <2> QED BY <2>4, <2>5
<1> QED BY <1>1, <1>4 DEF KeptInv, IdleDone

LEMMA OthersEditKept ==
    ASSUME OrderInv, KeptInv, OthersEdit
    PROVE  KeptInv'
<1>1. UNCHANGED <<cardVars, formVars, changeVars, saveVars, label, mishap>>
  BY DEF OthersEdit
<1>2. \A id : Shown(id)' = Shown(id) /\ (Agrees(id)' <=> Agrees(id))
  BY <1>1 DEF Agrees, Shown, IndexById, cardVars
<1>3. Ids(items)' = Ids(items) /\ Typing' = Typing
  BY <1>1 DEF Ids, Typing, cardVars, formVars
<1> DEFINE S == Members \cup Others
           t == Ids(items)
<1>4. order \in Seq(S) /\ ogOrder \in Seq(Members) /\ ToSet(t) = Members
  BY DEF OrderInv, WellTyped, TypeOK, NoMemberLost
<1>5. ToSet(ogOrder) \subseteq Members
  BY <1>4, ToSetType
<1> HIDE DEF S, t
<1>6. ASSUME NEW s, ToSet(s) \subseteq Members, IsInjective(order), SameOrder(order, s) PROVE SameOrder(order', s)
  <2>1. ASSUME NEW m \in Others \ ToSet(order), order' = Append(order, m) PROVE SameOrder(order', s)
    <3>1. m \notin ToSet(s) /\ m \in S BY <1>6, OrderAssumption DEF S
    <3> QED BY <1>4, <1>6, <2>1, <3>1, AppendedOrder
  <2>2. ASSUME NEW i \in 1 .. Len(order), order' = RemoveAt(order, i) PROVE SameOrder(order', s)
    BY <1>4, <1>6, <2>2, RemovedOrder
  <2> QED BY <2>1, <2>2 DEF OthersEdit
<1>7. ASSUME IsInjective(order) PROVE IsInjective(order')
  <2>1. ASSUME NEW m \in Others \ ToSet(order), order' = Append(order, m) PROVE IsInjective(order')
    <3>1. m \in S BY DEF S
    <3> QED BY <1>4, <1>7, <2>1, <3>1, Appended
  <2>2. ASSUME NEW i \in 1 .. Len(order), order' = RemoveAt(order, i) PROVE IsInjective(order')
    BY <1>4, <1>7, <2>2, RemovedAt
  <2> QED BY <2>1, <2>2 DEF OthersEdit
<1>8. ASSUME ~mishap' PROVE LabelsKept' /\ OrderKept'
  <2>1. LabelsKept /\ OrderKept BY <1>1, <1>8 DEF KeptInv
  <2>2. LabelsKept' BY <1>1, <1>2, <1>3, <2>1 DEF LabelsKept, changeVars, saveVars
  <2>3. IsInjective(order) /\ IsInjective(order') BY <1>7, <2>1 DEF OrderKept
  <2>4. SameOrder(order, t) => SameOrder(order', t) BY <1>4, <1>6, <2>3
  <2>5. SameOrder(order, ogOrder) => SameOrder(order', ogOrder) BY <1>5, <1>6, <2>3
  <2>6. OrderKept' BY <1>1, <1>3, <2>1, <2>3, <2>4, <2>5 DEF OrderKept, Ordered, t, changeVars, saveVars
  <2> QED BY <2>2, <2>6
<1> QED BY <1>1, <1>8 DEF KeptInv, IdleDone, saveVars

LEMMA NextKept ==
    ASSUME OrderInv, OrderInv', KeptInv, [Next]_vars
    PROVE  KeptInv'
<1>1. CASE UNCHANGED vars
  <2>1. Typing' = Typing BY <1>1 DEF vars, cardVars, formVars, Typing
  <2> QED BY <1>1, <2>1, SameKept DEF vars, cardVars, changeVars, saveVars, serverVars
<1>2. CASE Next
  BY <1>2, SelectingKept, MovingKept, LabellingKept, SaveKept, ServingKept, ApplyStateKept, OthersEditKept DEF Next
<1> QED BY <1>1, <1>2

---------------------------------------------------------------------------
(* Theorems *)

\* Type correctness, for any finite set of members: above all, the position at
\* which a form or a paste looks for a card always exists.
THEOREM OrderTypes == Spec => []TypeOK
<1>1. OrderInv => TypeOK
  BY DEF OrderInv, WellTyped
<1> QED BY Invariant, <1>1, PTL

\* The gallery shows every member and nothing else, in every state: not even a
\* clipboard that names replaced objects loses one.
THEOREM MembersKept == Spec => []NoMemberLost
<1>1. OrderInv => NoMemberLost
  BY DEF OrderInv
<1> QED BY Invariant, <1>1, PTL

\* Until the clipboard is pasted that does not fit the gallery any more, every
\* member is in the gallery once.
THEOREM NothingDoubled == Spec => []MembersOnce
<1>1. OrderInv => MembersOnce
  BY DEF OrderInv
<1> QED BY Invariant, <1>1, PTL

\* What the server takes from the page is a permutation of what it has.
THEOREM OnlyReordered == Spec => SavesReorder
<1>1. ASSUME OrderInv, Serving PROVE ToSet(order') = ToSet(order) /\ Len(order') = Len(order)
  <2>1. CASE UpdateResource
    <3> DEFINE new == sent.order
               O == Members \cup Others
    <3>1. order \in Seq(O) /\ new \in Seq(O)
      <4>1. order \in Seq(O) /\ new \in Seq(Members) BY <1>1 DEF OrderInv, WellTyped, TypeOK, Messages
      <4> QED BY <4>1
    <3>2. Reorders(new) /\ order' = new
      BY <2>1 DEF UpdateResource
    <3> HIDE DEF new, O
    <3>3. ASSUME NEW m \in O
          PROVE  /\ Cardinality({i \in DOMAIN new : new[i] = m}) = 0 <=> m \notin ToSet(new)
                 /\ Cardinality({i \in DOMAIN order : order[i] = m}) = 0 <=> m \notin ToSet(order)
      <4>1. ASSUME NEW s \in Seq(O) PROVE Cardinality({i \in DOMAIN s : s[i] = m}) = 0 <=> m \notin ToSet(s)
        <5> DEFINE D == {i \in DOMAIN s : s[i] = m}
        <5>1. DOMAIN s = 1 .. Len(s) OBVIOUS
        <5>2. IsFiniteSet(1 .. Len(s)) BY FS_Interval
        <5>3. IsFiniteSet(D) BY <5>1, <5>2, FS_Subset
        <5>4. Cardinality(D) = 0 <=> D = {} BY <5>3, FS_EmptySet
        <5>5. D = {} <=> m \notin ToSet(s) BY DEF ToSet
        <5> QED BY <5>4, <5>5
      <4> QED BY <3>1, <4>1
    <3>4. \A m \in O : m \in ToSet(new) <=> m \in ToSet(order)
      BY <3>2, <3>3 DEF Reorders, O
    <3>5. ToSet(new) \subseteq O /\ ToSet(order) \subseteq O
      BY <3>1, ToSetType
    <3>6. ToSet(new) = ToSet(order)
      BY <3>4, <3>5
    <3> QED BY <3>2, <3>6 DEF Reorders
  <2>2. CASE ~UpdateResource
    BY <1>1, <2>2 DEF Serving, UpdateMember, Refuse, Answer, Fail, serverVars
  <2> QED BY <2>1, <2>2
<1>2. OrderInv /\ [Next]_vars => [Serving => ToSet(order') = ToSet(order) /\ Len(order') = Len(order)]_vars
  BY <1>1
<1> QED BY Invariant, <1>2, PTL DEF Spec, SavesReorder

\* While the button is off and nothing is on its way, the page and the server
\* agree, whatever was typed, moved, saved, refused and ingested before: every
\* label and every order can be saved, for any members and any number of saves.
THEOREM NothingUnsaveable == Spec => []UnsavedIsSaveable
<1>1. ASSUME OrderInv, KeptInv PROVE UnsavedIsSaveable
  <2> SUFFICES ASSUME ~mishap, ~StateChanged, ~Late, pending = {}
               PROVE  (\A id \in Members : Shown(id) = label[id]) /\ SameOrder(order, Ids(items))
    BY DEF UnsavedIsSaveable
  <2>1. changeList = {} /\ ogOrder = Ids(items) /\ ~requested /\ ~(applies > 0) /\ Typing = {}
    BY DEF StateChanged, OrderChanged, Late, Typing
  <2>2. LabelsKept /\ OrderKept BY <1>1 DEF KeptInv
  <2>3. \A id \in Members : Shown(id) = label[id] BY <2>1, <2>2 DEF LabelsKept, Agrees
  <2>4. applies = 0 => SameOrder(order, Ids(items)) BY <2>1, <2>2 DEF OrderKept
  <2>5. applies \in Nat BY <1>1 DEF OrderInv, WellTyped, TypeOK
  <2>6. applies = 0 BY <2>1, <2>5
  <2> QED BY <2>3, <2>4, <2>6
<1>2. KeptInv /\ OrderInv /\ OrderInv' /\ [Next]_vars => KeptInv'
  BY NextKept
<1> QED BY Invariant, KeptInit, <1>1, <1>2, PTL DEF Spec
=============================================================================
