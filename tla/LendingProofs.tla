---------------------------- MODULE LendingProofs ----------------------------
(***************************************************************************)
(* What holds of ControlledDigitalLending for every set of patrons, titles *)
(* and copies, any number of web workers and any lending periods: its      *)
(* types, that no save undoes another one (ChargesNotLost), that a copy is *)
(* lent once, and that holds are single, announced and kept.  When every   *)
(* title has its list to begin with: whatever is saved was decided by the  *)
(* row it replaces (EverySaveExact), so that no hold is lost, and the      *)
(* system implements Lending.                                              *)
(***************************************************************************)
EXTENDS LendingRefinement, SequenceLemmas

-----------------------------------------------------------------------------
(***************************************************************************)
(* Charge lists                                                            *)
(***************************************************************************)
\* Every edit of a charge list gives a charge list.
LEMMA ListEdits ==
    ASSUME NEW list \in ResourceChargeList, NEW p \in Patrons, NEW now \in Nat,
           NEW item \in Items \cup {NoItem}
    PROVE  /\ ClearExpiredCharges(list, now) \in ResourceChargeList
           /\ WithCharge(list, p, item, now) \in ResourceChargeList
           /\ WithoutCharges(list, p) \in ResourceChargeList
           /\ WithHold(list, p) \in ResourceChargeList
           /\ WithoutExpiredHolds(list, now) \in ResourceChargeList
           /\ Saved(list) \in ResourceChargeList
<1> USE PeriodAssumption DEF ResourceChargeList
<1>1. ClearExpiredCharges(list, now) \in ResourceChargeList
  BY DEF ClearExpiredCharges
<1>2. WithCharge(list, p, item, now) \in ResourceChargeList
  <2>1. [item_id |-> item, netid |-> p, expiration_time |-> now + ChargePeriod]
          \in ChargedItem
    BY DEF ChargedItem
  <2> QED BY <2>1 DEF WithCharge
<1>3. WithoutCharges(list, p) \in ResourceChargeList
  BY DEF WithoutCharges
<1>4. WithHold(list, p) \in ResourceChargeList
  <2>1. [netid |-> p, expiration_time |-> Pending, place |-> list.version] \in Hold
    BY DEF Hold, Pending
  <2> QED BY <2>1 DEF WithHold
<1>5. WithoutExpiredHolds(list, now) \in ResourceChargeList
  BY DEF WithoutExpiredHolds, PendingOrActiveHolds
<1>7. Saved(list) \in ResourceChargeList
  BY DEF Saved
<1> QED BY <1>1, <1>2, <1>3, <1>4, <1>5, <1>7

\* What each edit does to the version and to the charges of a list.
LEMMA EditsKeep ==
    ASSUME NEW list \in ResourceChargeList, NEW p \in Patrons, NEW now \in Nat,
           NEW item
    PROVE  /\ ClearExpiredCharges(list, now).version = list.version
           /\ ClearExpiredCharges(list, now).charged_items
                = {c \in list.charged_items : ~ChargeExpired(c, now)}
           /\ WithCharge(list, p, item, now).version = list.version
           /\ list.charged_items \subseteq WithCharge(list, p, item, now).charged_items
           /\ WithoutCharges(list, p).version = list.version
           /\ WithoutCharges(list, p).charged_items
                = {c \in list.charged_items : c.netid # p}
           /\ WithHold(list, p).version = list.version
           /\ WithHold(list, p).charged_items = list.charged_items
           /\ WithoutExpiredHolds(list, now).version = list.version
           /\ WithoutExpiredHolds(list, now).charged_items = list.charged_items
           /\ Saved(list).version = list.version + 1
           /\ Saved(list).charged_items = list.charged_items
BY DEF ResourceChargeList, ClearExpiredCharges, WithCharge, WithoutCharges,
       WithHold, WithoutExpiredHolds, Saved

LEMMA ActivationEdit ==
    ASSUME NEW list \in ResourceChargeList, NEW now \in Nat,
           NEW activated \in SUBSET list.hold_queue
    PROVE  /\ WithActivated(list, activated, now) \in ResourceChargeList
           /\ WithActivated(list, activated, now).version = list.version
           /\ WithActivated(list, activated, now).charged_items = list.charged_items
<1>1. \A h \in activated : [h EXCEPT !.expiration_time = now + HoldPeriod] \in Hold
  BY PeriodAssumption DEF Hold, ResourceChargeList
<1> QED BY <1>1 DEF WithActivated, ResourceChargeList

LEMMA SavedEdit ==
    ASSUME NEW list \in ResourceChargeList
    PROVE  /\ Saved(list) \in ResourceChargeList
           /\ Saved(list).version = list.version + 1
           /\ Saved(list).charged_items = list.charged_items
BY DEF Saved, ResourceChargeList

LEMMA UnsavedListType == UnsavedList \in ResourceChargeList
BY DEF UnsavedList, ResourceChargeList
-----------------------------------------------------------------------------
(***************************************************************************)
(* Who is served before whom                                               *)
(***************************************************************************)
\* Holds whose places tell them apart
Line(holds) ==
    /\ IsFiniteSet(holds)
    /\ \A h \in holds : h.place \in Nat
    /\ \A g, h \in holds : g.place = h.place => g = h

LEMMA LinePart ==
    ASSUME NEW holds, Line(holds), NEW part \in SUBSET holds
    PROVE  Line(part)
BY FS_Subset DEF Line

\* Whoever is in line has fewer before them than there are in line.
LEMMA RankIn ==
    ASSUME NEW holds, Line(holds), NEW h \in holds
    PROVE  Before(h, holds) \in 0 .. Cardinality(holds) - 1
<1> DEFINE ahead == {g \in holds : g.place < h.place}
<1>1. ahead \subseteq holds \ {h}
  BY DEF Line
<1>2. /\ IsFiniteSet(holds \ {h}) /\ Cardinality(holds \ {h}) = Cardinality(holds) - 1
  BY FS_RemoveElement DEF Line
<1>3. IsFiniteSet(ahead) /\ Cardinality(ahead) <= Cardinality(holds) - 1
  <2> HIDE DEF ahead
  <2> QED BY <1>1, <1>2, FS_Subset
<1>4. Cardinality(ahead) \in Nat /\ Cardinality(holds) \in Nat
  BY <1>3, FS_CardinalityType DEF Line
<1> QED BY <1>3, <1>4 DEF Before

\* The order of the places is the order of the line.
LEMMA RankLess ==
    ASSUME NEW holds, Line(holds), NEW g \in holds, NEW h \in holds, g.place < h.place
    PROVE  Before(g, holds) < Before(h, holds)
<1> DEFINE first == {x \in holds : x.place < g.place}
           then == {x \in holds : x.place < h.place}
<1>1. g \notin first /\ first \cup {g} \subseteq then
  BY DEF Line
<1>2. IsFiniteSet(first) /\ IsFiniteSet(then)
  BY FS_Subset DEF Line
<1> HIDE DEF first, then
<1>3. Cardinality(first \cup {g}) = Cardinality(first) + 1
  BY <1>1, <1>2, FS_AddElement
<1>4. Cardinality(first \cup {g}) <= Cardinality(then)
  BY <1>1, <1>2, FS_Subset
<1>5. Cardinality(first) \in Nat /\ Cardinality(then) \in Nat
  BY <1>2, FS_CardinalityType
<1>6. Cardinality(first) < Cardinality(then)
  BY <1>3, <1>4, <1>5
<1> QED BY <1>6 DEF Before, first, then

LEMMA RankOnce ==
    ASSUME NEW holds, Line(holds), NEW g \in holds, NEW h \in holds,
           Before(g, holds) = Before(h, holds)
    PROVE  g = h
<1>1. Before(g, holds) \in Nat
  BY RankIn
<1>2. ~(g.place < h.place) /\ ~(h.place < g.place)
  BY <1>1, RankLess
<1> QED BY <1>2 DEF Line

\* No more than n are among the first n.
LEMMA FirstAreFew ==
    ASSUME NEW holds, Line(holds), NEW n \in Nat
    PROVE  /\ IsFiniteSet(FirstHolds(holds, n))
           /\ Cardinality(FirstHolds(holds, n)) <= n
<1> DEFINE first == FirstHolds(holds, n)
           rank == [h \in first |-> Before(h, holds)]
<1>1. first \subseteq holds /\ \A h \in first : Before(h, holds) < n
  BY DEF FirstHolds, Before
<1> HIDE DEF first
<1>2. \A h \in first : Before(h, holds) \in 0 .. n - 1
  BY <1>1, RankIn
<1>3. rank \in [first -> 0 .. n - 1]
  BY <1>2
<1>4. \A g, h \in first : rank[g] = rank[h] => g = h
  BY <1>1, RankOnce
<1>5. rank \in Injection(first, 0 .. n - 1)
  BY <1>3, <1>4 DEF Injection, IsInjective
<1>6. IsFiniteSet(0 .. n - 1) /\ Cardinality(0 .. n - 1) = n
  BY FS_Interval
<1> HIDE DEF rank
<1> QED BY <1>5, <1>6, FS_Injection DEF first

\* Everybody in line has a turn.
LEMMA Turns ==
    ASSUME NEW holds, Line(holds)
    PROVE  /\ InTurn(holds) \in [1 .. Cardinality(holds) -> holds]
           /\ \A i \in 1 .. Cardinality(holds) : Before(InTurn(holds)[i], holds) = i - 1
           /\ \A h \in holds : InTurn(holds)[Before(h, holds) + 1] = h
<1> DEFINE n == Cardinality(holds)
           rank == [h \in holds |-> Before(h, holds)]
<1>0. n \in Nat /\ IsFiniteSet(0 .. n - 1) /\ Cardinality(0 .. n - 1) = n
  <2>1. n \in Nat
    BY FS_CardinalityType DEF Line
  <2> HIDE DEF n
  <2> QED BY <2>1, FS_Interval
<1>1. rank \in [holds -> 0 .. n - 1] /\ \A g, h \in holds : rank[g] = rank[h] => g = h
  BY RankIn, RankOnce
<1>2. rank \in Injection(holds, 0 .. n - 1)
  BY <1>1 DEF Injection, IsInjective
<1>3. \A i \in 0 .. n - 1 : \E h \in holds : Before(h, holds) = i
  <2> HIDE DEF rank
  <2>1. rank \in Surjection(holds, 0 .. n - 1)
    BY <1>0, <1>2, FS_Injection
  <2> QED BY <2>1 DEF Surjection, rank
<1>4. \A i \in 1 .. n : InTurn(holds)[i] \in holds /\ Before(InTurn(holds)[i], holds) = i - 1
  <2> TAKE i \in 1 .. n
  <2>1. i - 1 \in 0 .. n - 1
    BY <1>0
  <2>2. InTurn(holds)[i] = CHOOSE h \in holds : Before(h, holds) = i - 1
    BY DEF InTurn
  <2> QED BY <1>3, <2>1, <2>2
<1>5. InTurn(holds) \in [1 .. n -> holds]
  BY <1>4 DEF InTurn
<1>6. ASSUME NEW h \in holds PROVE InTurn(holds)[Before(h, holds) + 1] = h
  <2> DEFINE i == Before(h, holds) + 1
  <2>1. i \in 1 .. n /\ i - 1 = Before(h, holds)
    BY <1>0, RankIn
  <2> HIDE DEF i
  <2> QED BY <1>4, <2>1, RankOnce DEF i
<1> QED BY <1>4, <1>5, <1>6

\* An arrangement of the holds by their places is the order of the turns.
LEMMA TurnsAre ==
    ASSUME NEW holds, NEW n \in Nat, NEW q \in [1 .. n -> holds],
           \A h \in holds : h.place \in Nat,
           \A h \in holds : \E i \in 1 .. n : q[i] = h,
           \A i, j \in 1 .. n : i < j => q[i].place < q[j].place
    PROVE  Line(holds) /\ Cardinality(holds) = n /\ InTurn(holds) = q
<1>1. \A i, j \in 1 .. n : q[i].place < q[j].place => i < j
  <2> SUFFICES ASSUME NEW i \in 1 .. n, NEW j \in 1 .. n, q[i].place < q[j].place, ~(i < j)
               PROVE  FALSE
    OBVIOUS
  <2>1. q[i] \in holds /\ q[j] \in holds
    OBVIOUS
  <2>2. CASE i = j
    BY <2>1, <2>2
  <2>3. CASE j < i
    BY <2>1, <2>3
  <2> QED BY <2>2, <2>3
<1>2. \A i, j \in 1 .. n : q[i].place = q[j].place => i = j
  <2> SUFFICES ASSUME NEW i \in 1 .. n, NEW j \in 1 .. n, q[i].place = q[j].place, i # j
               PROVE  FALSE
    OBVIOUS
  <2>1. q[i] \in holds /\ q[j] \in holds
    OBVIOUS
  <2>2. i < j \/ j < i
    OBVIOUS
  <2> QED BY <2>1, <2>2
<1>3. q \in Surjection(1 .. n, holds) /\ q \in Injection(1 .. n, holds)
  BY <1>2 DEF Surjection, Injection, IsInjective
<1>4. IsFiniteSet(1 .. n) /\ Cardinality(1 .. n) = n
  BY FS_Interval
<1>5. IsFiniteSet(holds) /\ Cardinality(holds) = n
  BY <1>3, <1>4, FS_Surjection
<1>6. Line(holds)
  BY <1>2, <1>5 DEF Line
<1>7. ASSUME NEW i \in 1 .. n PROVE Before(q[i], holds) = i - 1
  <2> DEFINE ahead == {g \in holds : g.place < q[i].place}
             f == [j \in 1 .. i - 1 |-> q[j]]
  <2>1. \A j \in 1 .. i - 1 : j \in 1 .. n /\ q[j] \in ahead
    OBVIOUS
  <2>2. \A g \in ahead : \E j \in 1 .. i - 1 : q[j] = g
    <3> TAKE g \in ahead
    <3>1. PICK j \in 1 .. n : q[j] = g
      OBVIOUS
    <3>2. j < i
      BY <1>1, <3>1
    <3> QED BY <3>1, <3>2
  <2>3. f \in [1 .. i - 1 -> ahead]
    BY <2>1
  <2>4. \A j, k \in 1 .. i - 1 : f[j] = f[k] => j = k
    BY <1>2, <2>1
  <2>5. \A g \in ahead : \E j \in 1 .. i - 1 : f[j] = g
    BY <2>2
  <2> HIDE DEF f, ahead
  <2>6. f \in Surjection(1 .. i - 1, ahead) /\ f \in Injection(1 .. i - 1, ahead)
    BY <2>3, <2>4, <2>5 DEF Surjection, Injection, IsInjective
  <2>7. IsFiniteSet(1 .. i - 1) /\ Cardinality(1 .. i - 1) = i - 1
    BY FS_Interval
  <2>8. Cardinality(ahead) = i - 1
    BY <2>6, <2>7, FS_Surjection
  <2> QED BY <2>8 DEF Before, ahead
<1>8. ASSUME NEW i \in 1 .. n PROVE InTurn(holds)[i] = q[i]
  <2>1. InTurn(holds)[i] \in holds /\ Before(InTurn(holds)[i], holds) = i - 1
    BY <1>5, <1>6, Turns
  <2> QED BY <1>6, <1>7, <2>1, RankOnce
<1>9. InTurn(holds) = [i \in 1 .. n |-> InTurn(holds)[i]]
  BY <1>5 DEF InTurn
<1> QED BY <1>5, <1>6, <1>8, <1>9
-----------------------------------------------------------------------------
(***************************************************************************)
(* Types                                                                   *)
(***************************************************************************)
Typed == TypeOK /\ Addressed

LEMMA LoadedType ==
    ASSUME TypeOK, NEW rows \in [Slots -> ResourceChargeList],
           NEW row \in Slots \cup {NewRow}, FirstRow(rows, row)
    PROVE  Loaded(rows, row) \in ResourceChargeList
<1>1. (IF row = NewRow THEN UnsavedList ELSE rows[row]) \in ResourceChargeList
  BY UnsavedListType
<1> QED BY <1>1 DEF Loaded, ClearExpiredCharges, ResourceChargeList, TypeOK

LEMMA TxnRowsType ==
    ASSUME TypeOK, NEW t \in Titles
    PROVE  TxnRows(t) \in [Slots -> ResourceChargeList]
BY DEF TypeOK, TxnRows

LEMMA IdleTypes ==
    /\ IdleRequest \in Request
    /\ \A reply \in Replies : [IdleRequest EXCEPT !.reply = reply] \in Request
    /\ IdleBatch \in Batch
    /\ DOMAIN NoWrites = {}
BY UnsavedListType DEF IdleRequest, IdleBatch, Request, Batch, NoWrites, Ops, Replies

\* A list a request may save: an edit of the list it loaded that loses no
\* charge but those the request returns.
Edited(w, list, reply) ==
    /\ list \in ResourceChargeList
    /\ list.version = req[w].list.version
    /\ \A c \in req[w].list.charged_items :
         \/ c \in list.charged_items
         \/ req[w].op = "return" /\ c.netid = req[w].netid /\ reply = "thanked"

\* Whatever a request decides, it answers at once or saves an edit.
LEMMA ActShape ==
    ASSUME Typed, NEW w \in Workers, Act(w)
    PROVE  \E reply \in Replies : \/ AnswerOnly(w, reply)
                                  \/ \E list : Edited(w, list, reply) /\ Save(w, list, reply)
<1> DEFINE r == req[w]
           copies == items[r.title]
<1>1. /\ r.list \in ResourceChargeList /\ r.netid \in Patrons /\ r.title \in Titles
      /\ copies \in SUBSET Items /\ clock \in Nat
  BY DEF Typed, TypeOK, Addressed, Act, Request
<1>2. ASSUME CreateCharge(w)
      PROVE  \E reply \in Replies : \/ AnswerOnly(w, reply)
                                    \/ \E list : Edited(w, list, reply) /\ Save(w, list, reply)
  <2>1. CASE AnswerOnly(w, "redirected") \/ AnswerOnly(w, "unavailable")
    BY <2>1 DEF Replies
  <2>2. CASE \E item \in FirstAvailable(r.list, copies) :
               Save(w, WithCharge(r.list, r.netid, item, clock), "redirected")
    <3>1. PICK item \in FirstAvailable(r.list, copies) :
               Save(w, WithCharge(r.list, r.netid, item, clock), "redirected")
      BY <2>2
    <3>2. item \in Items \cup {NoItem}
      BY <1>1 DEF FirstAvailable, AvailableItemIds
    <3> DEFINE list == WithCharge(r.list, r.netid, item, clock)
    <3>3. /\ list \in ResourceChargeList
          /\ list.version = r.list.version
          /\ r.list.charged_items \subseteq list.charged_items
      BY <1>1, <3>2, ListEdits, EditsKeep
    <3> HIDE DEF list
    <3>4. Edited(w, list, "redirected")
      BY <3>3 DEF Edited
    <3> USE DEF list
    <3> QED BY <3>1, <3>4 DEF Replies
  <2> QED BY <1>2, <2>1, <2>2 DEF CreateCharge
<1>3. ASSUME CreateHold(w)
      PROVE  \E reply \in Replies : \/ AnswerOnly(w, reply)
                                    \/ \E list : Edited(w, list, reply) /\ Save(w, list, reply)
  <2>1. CASE AnswerOnly(w, "already_reserved")
    BY <2>1 DEF Replies
  <2>2. CASE CreateCharge(w)
    BY <1>2, <2>2
  <2>3. CASE Save(w, WithHold(r.list, r.netid), "redirected")
    <3>1. Edited(w, WithHold(r.list, r.netid), "redirected")
      BY <1>1, ListEdits, EditsKeep DEF Edited
    <3> QED BY <2>3, <3>1 DEF Replies
  <2> QED BY <1>3, <2>1, <2>2, <2>3 DEF CreateHold
<1>4. ASSUME Return(w), r.op = "return"
      PROVE  \E reply \in Replies : \/ AnswerOnly(w, reply)
                                    \/ \E list : Edited(w, list, reply) /\ Save(w, list, reply)
  <2>1. CASE AnswerOnly(w, "redirected")
    BY <2>1 DEF Replies
  <2>2. CASE Save(w, WithoutCharges(r.list, r.netid), "thanked")
    <3> DEFINE list == WithoutCharges(r.list, r.netid)
    <3>1. /\ list \in ResourceChargeList
          /\ list.version = r.list.version
          /\ list.charged_items = {c \in r.list.charged_items : c.netid # r.netid}
      BY <1>1, ListEdits, EditsKeep
    <3> HIDE DEF list
    <3>2. Edited(w, list, "thanked")
      BY <1>4, <3>1 DEF Edited
    <3> USE DEF list
    <3> QED BY <2>2, <3>2 DEF Replies
  <2> QED BY <1>4, <2>1, <2>2 DEF Return
<1> QED BY <1>2, <1>3, <1>4 DEF Act

LEMMA TypedInit == Init => Typed
<1> SUFFICES ASSUME Init PROVE Typed
  OBVIOUS
<1>1. lists \in [Titles -> [Slots -> ResourceChargeList]]
  <2>1. [UnsavedList EXCEPT !.version = 1] \in ResourceChargeList
    BY DEF UnsavedList, ResourceChargeList
  <2> QED BY <2>1, UnsavedListType DEF Init
<1>2. req \in [Workers -> Request] /\ batch \in Batch
  BY IdleTypes DEF Init
<1>3. DOMAIN txn = {}
  BY IdleTypes DEF Init
<1>4. spent \in [requests : Nat, items : Nat, crashes : Nat]
  BY DEF Init
<1>5. TypeOK
  BY <1>1, <1>2, <1>3, <1>4 DEF Init, TypeOK
<1>6. Addressed
  BY DEF Init, Addressed, IdleRequest, IdleBatch, InUse
<1> QED BY <1>5, <1>6 DEF Typed

LEMMA LoadTyped ==
    ASSUME Typed, NEW w \in Workers, NEW op \in Ops, NEW p \in Patrons,
           NEW t \in Titles, NEW n \in Nat, Load(w, op, p, t, n),
           spent' \in [requests : Nat, items : Nat, crashes : Nat]
    PROVE  Typed'
<1>1. PICK row \in Slots \cup {NewRow} :
        /\ FirstRow(lists[t], row)
        /\ req' = [req EXCEPT ![w] =
             [pc |-> "loaded", op |-> op, netid |-> p, title |-> t,
              attempt |-> n, row |-> row, list |-> Loaded(lists[t], row),
              reply |-> "none"]]
        /\ UNCHANGED <<clock, items, lists, batch, txn, mails>>
  BY DEF Load
<1>2. Loaded(lists[t], row) \in ResourceChargeList
  BY <1>1, LoadedType DEF Typed, TypeOK
<1>3. req' \in [Workers -> Request]
  BY <1>1, <1>2 DEF Typed, TypeOK, Request, Replies
<1>4. TypeOK'
  BY <1>1, <1>3 DEF Typed, TypeOK
<1>5. Addressed'
  BY <1>1 DEF Typed, TypeOK, Addressed, InUse
<1> QED BY <1>4, <1>5 DEF Typed

LEMMA AnswerTyped ==
    ASSUME Typed, NEW w \in Workers, NEW reply \in Replies, Answer(w, reply),
           lists' \in [Titles -> [Slots -> ResourceChargeList]],
           UNCHANGED <<clock, items, batch, txn, mails, spent>>
    PROVE  Typed'
<1>1. req' \in [Workers -> Request]
  BY IdleTypes DEF Answer, Typed, TypeOK
<1>2. TypeOK'
  BY <1>1 DEF Typed, TypeOK
<1>3. Addressed'
  BY DEF Typed, TypeOK, Addressed, Answer, IdleRequest, InUse
<1> QED BY <1>2, <1>3 DEF Typed

LEMMA SaveTyped ==
    ASSUME Typed, NEW w \in Workers, req[w].pc = "loaded", NEW reply \in Replies,
           NEW list \in ResourceChargeList, Save(w, list, reply),
           UNCHANGED <<clock, items, batch, txn, mails, spent>>
    PROVE  Typed'
<1>1. Saved(list) \in ResourceChargeList
  BY DEF Saved, ResourceChargeList
<1>2. req[w].title \in Titles /\ req[w].row \in Slots \cup {NewRow}
  BY DEF Typed, TypeOK, Addressed, Request
<1>3. CASE SaveNew(w, list, reply)
  <2>1. lists' \in [Titles -> [Slots -> ResourceChargeList]]
    BY <1>1, <1>2, <1>3 DEF SaveNew, Typed, TypeOK
  <2> QED BY <1>3, <2>1, AnswerTyped DEF SaveNew
<1>4. CASE SaveFresh(w, list, reply)
  <2>1. lists' \in [Titles -> [Slots -> ResourceChargeList]]
    BY <1>1, <1>2, <1>4 DEF SaveFresh, Typed, TypeOK
  <2> QED BY <1>4, <2>1, AnswerTyped DEF SaveFresh
<1>5. CASE SaveStale(w, reply)
  <2>1. CASE Answer(w, reply)
    BY <1>5, <2>1, AnswerTyped DEF SaveStale, Typed, TypeOK
  <2>2. CASE req' = [req EXCEPT ![w] = [@ EXCEPT !.pc = "stale", !.row = NewRow,
                                                 !.list = UnsavedList]]
    <3>1. req' \in [Workers -> Request]
      <4>1. [req[w] EXCEPT !.pc = "stale", !.row = NewRow, !.list = UnsavedList] \in Request
        BY UnsavedListType DEF Typed, TypeOK, Request
      <4> QED BY <2>2, <4>1 DEF Typed, TypeOK
    <3>2. TypeOK'
      BY <1>5, <3>1 DEF SaveStale, Typed, TypeOK
    <3>3. Addressed'
      BY <2>2 DEF Typed, TypeOK, Addressed, Request, InUse
    <3> QED BY <3>2, <3>3 DEF Typed
  <2> QED BY <1>5, <2>1, <2>2 DEF SaveStale
<1> QED BY <1>3, <1>4, <1>5 DEF Save

LEMMA RollBackTyped ==
    ASSUME Typed, RollBack, UNCHANGED <<clock, items, lists, req>>, mails' \subseteq Mail,
           spent' \in [requests : Nat, items : Nat, crashes : Nat]
    PROVE  Typed'
<1>1. TypeOK'
  BY IdleTypes DEF Typed, TypeOK, RollBack
<1>2. Addressed'
  BY DEF Typed, TypeOK, Addressed, RollBack, IdleBatch, InUse
<1> QED BY <1>1, <1>2 DEF Typed

\* Inside a run: a batch that goes on with a typed list, its writes and its mail.
LEMMA BatchGoesOn ==
    ASSUME Typed, UNCHANGED <<clock, items, lists, req, spent>>,
           batch' \in Batch, mails' \subseteq Mail,
           InUse' => batch'.title \in Titles /\ batch'.row \in Slots,
           \/ txn' = txn
           \/ InUse /\ \E list \in ResourceChargeList : WriteRow(list)
    PROVE  Typed'
<1>1. /\ DOMAIN txn' \subseteq Titles \X Slots
      /\ \A k \in DOMAIN txn' : txn'[k] \in ResourceChargeList
  <2>1. CASE txn' = txn
    BY <2>1 DEF Typed, TypeOK
  <2>2. CASE InUse /\ \E list \in ResourceChargeList : WriteRow(list)
    <3>1. batch.title \in Titles /\ batch.row \in Slots
      BY <2>2 DEF Typed, Addressed
    <3> QED BY <2>2, <3>1 DEF WriteRow, Typed, TypeOK
  <2> QED BY <2>1, <2>2
<1>2. TypeOK'
  BY <1>1 DEF Typed, TypeOK
<1>3. Addressed'
  BY DEF Typed, TypeOK, Addressed
<1> QED BY <1>2, <1>3 DEF Typed

LEMMA NoticesType ==
    ASSUME Typed, InUse, NEW kind \in {"activated", "expired"}, NEW holds \in SUBSET Hold
    PROVE  Notices(kind, holds) \subseteq Mail
BY DEF Typed, Addressed, Notices, Mail, Hold

LEMMA BatchStartTyped == Typed /\ BatchStart => Typed'
<1> SUFFICES ASSUME Typed, BatchStart PROVE Typed'
  OBVIOUS
<1>1. batch' \in Batch
  BY IdleTypes DEF BatchStart, HeldLists, Batch
<1>2. ~InUse'
  BY DEF BatchStart, IdleBatch, InUse
<1> QED BY <1>1, <1>2, BatchGoesOn DEF BatchStart, Typed, TypeOK

LEMMA BatchLoadTyped == Typed /\ BatchLoad => Typed'
<1> SUFFICES ASSUME Typed, BatchLoad PROVE Typed'
  OBVIOUS
<1>1. PICK k \in batch.todo, row \in Slots :
        /\ FirstRow(TxnRows(k[1]), row)
        /\ batch' = [batch EXCEPT !.pc = "loaded", !.todo = @ \ {k},
                       !.title = k[1], !.row = row, !.list = Loaded(TxnRows(k[1]), row)]
  BY DEF BatchLoad
<1>2. k[1] \in Titles
  BY DEF Typed, TypeOK, Batch
<1>3. Loaded(TxnRows(k[1]), row) \in ResourceChargeList
  BY <1>1, <1>2, TxnRowsType, LoadedType DEF Typed
<1>4. batch' \in Batch /\ batch'.title \in Titles /\ batch'.row \in Slots
  BY <1>1, <1>2, <1>3 DEF Typed, TypeOK, Batch
<1> QED BY <1>4, BatchGoesOn DEF BatchLoad, Typed, TypeOK

LEMMA BatchExpireTyped == Typed /\ BatchExpire => Typed'
<1> SUFFICES ASSUME Typed, BatchExpire PROVE Typed'
  OBVIOUS
<1> DEFINE gone == ExpiredHolds(batch.list, clock)
           list == Saved(WithoutExpiredHolds(batch.list, clock))
           told == Notices("expired", gone)
<1>1. InUse /\ batch \in Batch /\ batch.list \in ResourceChargeList
  BY DEF BatchExpire, InUse, Typed, TypeOK, Batch
<1>2. list \in ResourceChargeList
  <2>1. WithoutExpiredHolds(batch.list, clock) \in ResourceChargeList
    BY <1>1 DEF WithoutExpiredHolds, PendingOrActiveHolds, ResourceChargeList
  <2> QED BY <2>1 DEF Saved, ResourceChargeList
<1>3. told \subseteq Mail
  BY <1>1, NoticesType DEF ExpiredHolds, ResourceChargeList
<1>4. CASE gone = {}
  <2>1. /\ batch' = [batch EXCEPT !.pc = "expired"] /\ UNCHANGED <<txn, mails>>
        /\ UNCHANGED <<clock, items, lists, req, spent>>
    BY <1>4 DEF BatchExpire
  <2> QED BY <1>1, <2>1, BatchGoesOn DEF Typed, TypeOK, Addressed, Batch, InUse
<1>5. CASE gone # {} /\ BatchTokenMatches
  <2>1. /\ batch' = [batch EXCEPT !.pc = "expired", !.list = list]
        /\ WriteRow(list) /\ mails' = mails \cup told
        /\ UNCHANGED <<clock, items, lists, req, spent>>
    BY <1>5 DEF BatchExpire
  <2>2. batch' \in Batch /\ mails' \subseteq Mail
    BY <1>1, <1>2, <1>3, <2>1 DEF Typed, TypeOK, Batch
  <2> QED BY <1>1, <1>2, <2>1, <2>2, BatchGoesOn DEF Typed, TypeOK, Addressed, Batch
<1>6. CASE gone # {} /\ ~BatchTokenMatches
  <2>1. RollBack /\ mails' = mails \cup told /\ UNCHANGED <<clock, items, lists, req, spent>>
    BY <1>6 DEF BatchExpire
  <2> QED BY <1>3, <2>1, RollBackTyped DEF Typed, TypeOK
<1> QED BY <1>4, <1>5, <1>6

LEMMA BatchActivateTyped == Typed /\ BatchActivate => Typed'
<1> SUFFICES ASSUME Typed, BatchActivate PROVE Typed'
  OBVIOUS
<1> DEFINE chosen == HoldsToActivate(batch.list, items[batch.title], clock)
           list == Saved(WithActivated(batch.list, chosen, clock))
           told == Notices("activated", list.hold_queue \ batch.list.hold_queue)
<1>1. InUse /\ batch \in Batch /\ batch.list \in ResourceChargeList /\ clock \in Nat
  BY DEF BatchActivate, InUse, Typed, TypeOK, Batch
<1>2. list \in ResourceChargeList
  <2>1. chosen \subseteq batch.list.hold_queue
    BY DEF HoldsToActivate, FirstHolds, PendingHolds
  <2>2. WithActivated(batch.list, chosen, clock) \in ResourceChargeList
    BY <1>1, <2>1, ActivationEdit
  <2> QED BY <2>2 DEF Saved, ResourceChargeList
<1>3. told \subseteq Mail
  BY <1>1, <1>2, NoticesType DEF ResourceChargeList
<1>4. UNCHANGED <<clock, items, lists, req, spent>>
  BY DEF BatchActivate
<1>5. CASE batch' = [batch EXCEPT !.pc = "next"] /\ UNCHANGED <<txn, mails>>
  BY <1>1, <1>4, <1>5, BatchGoesOn DEF Typed, TypeOK, Batch, InUse
<1>6. CASE RollBack /\ UNCHANGED mails
  BY <1>4, <1>6, RollBackTyped DEF Typed, TypeOK
<1>7. CASE StoreActivated(list, told)
  <2>1. batch' \in Batch /\ mails' \subseteq Mail /\ ~InUse'
    BY <1>1, <1>3, <1>7 DEF StoreActivated, Typed, TypeOK, Batch, InUse
  <2> QED BY <1>1, <1>2, <1>4, <1>7, <2>1, BatchGoesOn DEF StoreActivated
<1> QED BY <1>5, <1>6, <1>7 DEF BatchActivate

LEMMA BatchCommitTyped == Typed /\ BatchCommit => Typed'
<1> SUFFICES ASSUME Typed, BatchCommit PROVE Typed'
  OBVIOUS
<1>1. lists' \in [Titles -> [Slots -> ResourceChargeList]]
  BY TxnRowsType DEF BatchCommit, Typed
<1>2. TypeOK'
  BY <1>1, IdleTypes DEF BatchCommit, Typed, TypeOK
<1>3. Addressed'
  BY DEF BatchCommit, Typed, TypeOK, Addressed, IdleBatch, InUse
<1> QED BY <1>2, <1>3 DEF Typed

\* No request, no step of the cron job, neither time nor the catalog spoils a type.
LEMMA TypedStep == Typed /\ [Next]_vars => Typed'
<1> SUFFICES ASSUME Typed, [Next]_vars PROVE Typed'
  OBVIOUS
<1> USE LendingAssumption
<1>1. ASSUME NEW w \in Workers, NEW op \in Ops, NEW p \in Patrons, NEW t \in Titles,
             Begin(w, op, p, t)
      PROVE  Typed'
  <2>1. spent' \in [requests : Nat, items : Nat, crashes : Nat]
    BY <1>1 DEF Begin, Typed, TypeOK
  <2> QED BY <1>1, <2>1, LoadTyped DEF Begin
<1>2. ASSUME NEW w \in Workers, Retry(w) PROVE Typed'
  <2>1. req[w].op \in Ops /\ req[w].netid \in Patrons /\ req[w].title \in Titles
    BY <1>2 DEF Retry, Typed, Addressed
  <2>2. req[w].attempt + 1 \in Nat
    BY DEF Typed, TypeOK, Request
  <2> QED BY <1>2, <2>1, <2>2, LoadTyped DEF Retry, Typed, TypeOK
<1>3. ASSUME NEW w \in Workers, Act(w) PROVE Typed'
  <2>1. req[w].pc = "loaded" /\ UNCHANGED <<clock, items, batch, txn, mails, spent>>
    BY <1>3 DEF Act
  <2>2. PICK reply \in Replies : \/ AnswerOnly(w, reply)
                                 \/ \E list : Edited(w, list, reply) /\ Save(w, list, reply)
    BY <1>3, ActShape
  <2>3. CASE AnswerOnly(w, reply)
    BY <2>1, <2>3, AnswerTyped DEF AnswerOnly, Typed, TypeOK
  <2>4. ASSUME NEW list, Edited(w, list, reply), Save(w, list, reply) PROVE Typed'
    BY <2>1, <2>4, SaveTyped DEF Edited
  <2> QED BY <2>2, <2>3, <2>4
<1>4. CASE BatchStart
  BY <1>4, BatchStartTyped
<1>5. CASE BatchLoad
  BY <1>5, BatchLoadTyped
<1>6. CASE BatchExpire
  BY <1>6, BatchExpireTyped
<1>7. CASE BatchActivate
  BY <1>7, BatchActivateTyped
<1>8. CASE BatchCommit
  BY <1>8, BatchCommitTyped
<1>9. CASE BatchCrash
  <2>1. spent' \in [requests : Nat, items : Nat, crashes : Nat]
    BY <1>9 DEF BatchCrash, Typed, TypeOK
  <2> QED BY <1>9, <2>1, RollBackTyped DEF BatchCrash, Typed, TypeOK
<1>10. CASE Tick
  BY <1>10 DEF Tick, Typed, TypeOK, Addressed, InUse
<1>11. ASSUME NEW t \in Titles, NEW copies \in SUBSET Items, ChangeItems(t, copies)
       PROVE  Typed'
  BY <1>11 DEF ChangeItems, Typed, TypeOK, Addressed, InUse
<1>12. CASE UNCHANGED vars
  BY <1>12 DEF vars, Typed, TypeOK, Addressed, InUse
<1> QED BY <1>1, <1>2, <1>3, <1>4, <1>5, <1>6, <1>7, <1>8, <1>9, <1>10, <1>11, <1>12
        DEF Next, BatchStep

\* Every state of controlled digital lending is well typed, and whatever is being
\* worked on has a title (ChargeManager, CDLController, BulkHoldProcessor).
THEOREM TypeCorrect == Spec => []TypeOK
<1>1. Init => Typed
  BY TypedInit
<1>2. Typed /\ [Next]_vars => Typed'
  BY TypedStep
<1>3. Typed => TypeOK
  BY DEF Typed
<1> QED BY <1>1, <1>2, <1>3, PTL DEF Spec
-----------------------------------------------------------------------------
(***************************************************************************)
(* Tokens: a list with the token of its row has every running charge of it *)
(***************************************************************************)
Inv == Typed /\ TokensTell

\* A committed row stays as it is or gets a new token.
RowsGrow == \A t \in Titles, s \in Slots :
    lists'[t][s] = lists[t][s] \/ lists'[t][s].version > lists[t][s].version

LEMMA RequestTokens ==
    ASSUME Inv, Typed', RowsGrow, clock' = clock,
           \A w \in Workers : req'[w] = req[w] \/ req'[w].pc # "loaded"
    PROVE  RequestTokensTell'
<1> SUFFICES ASSUME NEW w \in Workers, req'[w].pc = "loaded", req'[w].row # NewRow
             PROVE  TokenTells(req[w].list, lists'[req[w].title][req[w].row])
  BY DEF RequestTokensTell, TokenTells, KeepsCharges
<1> DEFINE t == req[w].title
           s == req[w].row
<1>1. req'[w] = req[w]
  OBVIOUS
<1>2. /\ t \in Titles /\ s \in Slots
      /\ req[w].list.version \in Nat /\ lists[t][s].version \in Nat
      /\ lists'[t][s].version \in Nat
  BY <1>1 DEF Inv, Typed, TypeOK, Addressed, Request, ResourceChargeList
<1>3. TokenTells(req[w].list, lists[t][s])
  BY <1>1 DEF Inv, TokensTell, RequestTokensTell
<1> QED BY <1>2, <1>3 DEF RowsGrow, TokenTells

\* Outside the cron job: its rows are locked, so nobody else's save touches them.
LEMMA BatchTokens ==
    ASSUME Inv, Typed', RowsGrow, UNCHANGED <<clock, batch, txn>>,
           \A k \in DOMAIN txn : lists'[k[1]][k[2]] = lists[k[1]][k[2]]
    PROVE  BatchTokenTells' /\ TxnKeepsCharges'
<1>1. BatchTokenTells'
  <2> SUFFICES ASSUME InUse
               PROVE  /\ batch.list.version > 0
                      /\ TokenTells(batch.list, TxnRows(batch.title)[batch.row])'
    BY DEF BatchTokenTells, InUse
  <2> DEFINE t == batch.title
             s == batch.row
  <2>1. /\ t \in Titles /\ s \in Slots /\ batch.list.version \in Nat
        /\ lists[t][s].version \in Nat /\ lists'[t][s].version \in Nat
    BY DEF Inv, Typed, TypeOK, Addressed, Batch, ResourceChargeList
  <2>2. batch.list.version > 0 /\ TokenTells(batch.list, TxnRows(t)[s])
    BY DEF Inv, TokensTell, BatchTokenTells
  <2>3. CASE <<t, s>> \in DOMAIN txn
    BY <2>1, <2>2, <2>3 DEF TxnRows, TokenTells, KeepsCharges
  <2>4. CASE <<t, s>> \notin DOMAIN txn
    BY <2>1, <2>2, <2>4 DEF TxnRows, TokenTells, KeepsCharges, RowsGrow
  <2> QED BY <2>2, <2>3, <2>4
<1>2. TxnKeepsCharges'
  BY DEF Inv, TokensTell, TxnKeepsCharges, KeepsCharges
<1> QED BY <1>1, <1>2

LEMMA InvInit == Init => Inv
<1> SUFFICES ASSUME Init PROVE Inv
  OBVIOUS
<1>1. Typed
  BY TypedInit
<1>2. UnsavedRowsEmpty
  BY DEF Init, UnsavedRowsEmpty, UnsavedList
<1>3. RequestTokensTell /\ BatchTokenTells
  BY DEF Init, IdleRequest, IdleBatch, RequestTokensTell, BatchTokenTells, InUse
<1>4. TxnKeepsCharges
  BY IdleTypes DEF Init, TxnKeepsCharges
<1> QED BY <1>1, <1>2, <1>3, <1>4 DEF Inv, TokensTell, Typed

LEMMA LoadInv ==
    ASSUME Inv, NEW w \in Workers, NEW op \in Ops, NEW p \in Patrons,
           NEW t \in Titles, NEW n \in Nat, Load(w, op, p, t, n), Typed'
    PROVE  Inv'
<1>1. PICK row \in Slots \cup {NewRow} :
        /\ FirstRow(lists[t], row)
        /\ req' = [req EXCEPT ![w] =
             [pc |-> "loaded", op |-> op, netid |-> p, title |-> t,
              attempt |-> n, row |-> row, list |-> Loaded(lists[t], row),
              reply |-> "none"]]
        /\ UNCHANGED <<clock, items, lists, batch, txn, mails>>
  BY DEF Load
<1>2. ASSUME row # NewRow
      PROVE  TokenTells(Loaded(lists[t], row), lists[t][row])
  <2>1. lists[t][row] \in ResourceChargeList /\ clock \in Nat
    BY <1>2 DEF Inv, Typed, TypeOK
  <2>2. Loaded(lists[t], row) = ClearExpiredCharges(lists[t][row], clock)
    BY <1>2 DEF Loaded
  <2>3. /\ Loaded(lists[t], row).version = lists[t][row].version
        /\ Loaded(lists[t], row).charged_items
             = {c \in lists[t][row].charged_items : ~ChargeExpired(c, clock)}
    BY <2>1, <2>2 DEF ClearExpiredCharges, ResourceChargeList
  <2> QED BY <2>1, <2>3 DEF TokenTells, KeepsCharges, ResourceChargeList
<1>3. RequestTokensTell'
  <2> SUFFICES ASSUME NEW v \in Workers, req'[v].pc = "loaded", req'[v].row # NewRow
               PROVE  TokenTells(req'[v].list, lists[req'[v].title][req'[v].row])
    BY <1>1 DEF RequestTokensTell, TokenTells, KeepsCharges
  <2>1. CASE v = w
    BY <1>1, <1>2, <2>1 DEF Inv, Typed, TypeOK
  <2>2. CASE v # w
    BY <1>1, <2>2 DEF Inv, Typed, TypeOK, TokensTell, RequestTokensTell
  <2> QED BY <2>1, <2>2
<1>4. UnsavedRowsEmpty' /\ BatchTokenTells' /\ TxnKeepsCharges'
  BY <1>1, BatchTokens DEF Inv, TokensTell, RowsGrow, UnsavedRowsEmpty
<1> QED BY <1>3, <1>4 DEF Inv, TokensTell, Typed

LEMMA SaveInv ==
    ASSUME Inv, NEW w \in Workers, req[w].pc = "loaded", NEW reply, NEW list,
           Edited(w, list, reply), Save(w, list, reply), Typed',
           UNCHANGED <<clock, items, batch, txn, mails, spent>>
    PROVE  Inv'
<1> DEFINE t == req[w].title
           s == req[w].row
<1>1. /\ t \in Titles /\ req \in [Workers -> Request]
      /\ lists \in [Titles -> [Slots -> ResourceChargeList]]
      /\ list \in ResourceChargeList
  BY DEF Inv, Typed, TypeOK, Addressed, Edited
<1>2. Saved(list) \in ResourceChargeList /\ Saved(list).version = list.version + 1
  BY <1>1, SavedEdit
<1>3. /\ RowsGrow
      /\ UnsavedRowsEmpty'
      /\ \A k \in DOMAIN txn : lists'[k[1]][k[2]] = lists[k[1]][k[2]]
  <2>1. CASE SaveNew(w, list, reply)
    <3>1. PICK n \in Slots : /\ lists[t][n].version = 0
                             /\ lists' = [lists EXCEPT ![t][n] = Saved(list)]
      BY <2>1 DEF SaveNew
    <3>2. \A u \in Titles, m \in Slots :
            lists'[u][m] = IF u = t /\ m = n THEN Saved(list) ELSE lists[u][m]
      BY <1>1, <3>1
    <3>3. \A k \in DOMAIN txn : k \in Titles \X Slots /\ 0 < lists[k[1]][k[2]].version
      BY DEF Inv, Typed, TypeOK, TokensTell, TxnKeepsCharges
    <3>4. Saved(list).version > 0
      BY <1>1, <1>2 DEF ResourceChargeList
    <3> QED BY <3>1, <3>2, <3>3, <3>4 DEF RowsGrow, UnsavedRowsEmpty, Inv, TokensTell
  <2>2. CASE SaveFresh(w, list, reply)
    <3>1. /\ s \in Slots /\ lists[t][s].version = list.version
          /\ <<t, s>> \notin DOMAIN txn
          /\ lists' = [lists EXCEPT ![t][s] = Saved(list)]
      BY <1>1, <2>2 DEF SaveFresh, Edited, Request
    <3>2. \A u \in Titles, m \in Slots :
            lists'[u][m] = IF u = t /\ m = s THEN Saved(list) ELSE lists[u][m]
      BY <1>1, <3>1
    <3>3. \A k \in DOMAIN txn : k \in Titles \X Slots
      BY DEF Inv, Typed, TypeOK
    <3>4. list.version \in Nat
      BY <1>1 DEF ResourceChargeList
    <3>5. RowsGrow
      BY <1>2, <3>1, <3>2, <3>4 DEF RowsGrow
    <3>6. UnsavedRowsEmpty'
      BY <1>2, <3>2, <3>4 DEF UnsavedRowsEmpty, Inv, TokensTell
    <3>7. \A k \in DOMAIN txn : lists'[k[1]][k[2]] = lists[k[1]][k[2]]
      BY <3>1, <3>2, <3>3
    <3> QED BY <3>5, <3>6, <3>7
  <2>3. CASE SaveStale(w, reply)
    BY <2>3 DEF SaveStale, RowsGrow, UnsavedRowsEmpty, Inv, TokensTell
  <2> QED BY <2>1, <2>2, <2>3 DEF Save
<1>4. \A v \in Workers : req'[v] = req[v] \/ req'[v].pc # "loaded"
  <2>1. \/ Answer(w, reply)
        \/ req' = [req EXCEPT ![w] = [@ EXCEPT !.pc = "stale", !.row = NewRow,
                                               !.list = UnsavedList]]
    BY DEF Save, SaveNew, SaveFresh, SaveStale
  <2>2. req[w] \in Request
    BY <1>1
  <2> QED BY <1>1, <2>1, <2>2 DEF Answer, IdleRequest, Request
<1>5. RequestTokensTell'
  BY <1>3, <1>4, RequestTokens
<1>6. BatchTokenTells' /\ TxnKeepsCharges'
  BY <1>3, BatchTokens
<1> QED BY <1>3, <1>5, <1>6 DEF Inv, TokensTell, Typed

LEMMA BatchLoadInv == Inv /\ BatchLoad /\ Typed' => Inv'
<1> SUFFICES ASSUME Inv, BatchLoad, Typed' PROVE Inv'
  OBVIOUS
<1> USE LendingAssumption
<1>1. PICK k \in batch.todo, row \in Slots :
        /\ FirstRow(TxnRows(k[1]), row)
        /\ batch' = [batch EXCEPT !.pc = "loaded", !.todo = @ \ {k},
                       !.title = k[1], !.row = row, !.list = Loaded(TxnRows(k[1]), row)]
  BY DEF BatchLoad
<1> DEFINE rows == TxnRows(k[1])
<1>2. k[1] \in Titles /\ batch \in Batch /\ clock \in Nat
  BY DEF Inv, Typed, TypeOK, Batch
<1>3. rows \in [Slots -> ResourceChargeList]
  BY <1>2, TxnRowsType DEF Inv, Typed
<1>4. rows[row].version > 0 /\ row # NewRow
  BY <1>1, <1>3 DEF FirstRow
<1>5. /\ Loaded(rows, row).version = rows[row].version
      /\ Loaded(rows, row).charged_items
           = {c \in rows[row].charged_items : ~ChargeExpired(c, clock)}
  BY <1>3, <1>4 DEF Loaded, ClearExpiredCharges, ResourceChargeList
<1>6. TokenTells(Loaded(rows, row), rows[row]) /\ Loaded(rows, row).version > 0
  BY <1>3, <1>4, <1>5 DEF TokenTells, KeepsCharges, ResourceChargeList
<1>7. /\ batch'.title = k[1] /\ batch'.row = row /\ batch'.list = Loaded(rows, row)
      /\ UNCHANGED <<clock, items, lists, req, txn, mails, spent>>
  BY <1>1, <1>2 DEF Batch, BatchLoad
<1>8. BatchTokenTells'
  BY <1>6, <1>7 DEF BatchTokenTells, TokenTells, KeepsCharges, TxnRows
<1> QED BY <1>7, <1>8 DEF Inv, TokensTell, Typed, UnsavedRowsEmpty, RequestTokensTell,
                          TokenTells, KeepsCharges, TxnKeepsCharges

\* A write of the cron job: with a matching token and every charge it read, the
\* new row keeps every running charge of the committed one.
LEMMA WriteKeeps ==
    ASSUME Inv, InUse, BatchTokenMatches, NEW edit \in ResourceChargeList,
           edit.version = batch.list.version,
           edit.charged_items = batch.list.charged_items,
           WriteRow(Saved(edit)), UNCHANGED <<clock, items, lists, req, spent>>
    PROVE  TxnKeepsCharges'
<1> DEFINE b == <<batch.title, batch.row>>
           row == TxnRows(batch.title)[batch.row]
           old == lists[batch.title][batch.row]
<1>1. /\ batch.title \in Titles /\ batch.row \in Slots
      /\ old.version \in Nat /\ row.version \in Nat
      /\ edit.version \in Nat
  <2>1. batch.title \in Titles /\ batch.row \in Slots
    BY DEF Inv, Typed, Addressed
  <2>2. old \in ResourceChargeList
    BY <2>1 DEF Inv, Typed, TypeOK
  <2>3. row \in ResourceChargeList
    BY <2>1, TxnRowsType DEF Inv, Typed
  <2> QED BY <2>1, <2>2, <2>3 DEF ResourceChargeList
<1>2. /\ txn' = [k \in DOMAIN txn \cup {b} |-> IF k = b THEN Saved(edit) ELSE txn[k]]
      /\ DOMAIN txn' = DOMAIN txn \cup {b}
  BY DEF WriteRow
<1>3. /\ Saved(edit).version = edit.version + 1
      /\ Saved(edit).charged_items = edit.charged_items
  BY SavedEdit
<1>4. edit.version = row.version /\ row.version > 0 /\ KeepsCharges(batch.list, row)
  BY DEF BatchTokenMatches, Inv, TokensTell, BatchTokenTells, TokenTells
<1>5. /\ 0 < old.version
      /\ old.version < Saved(edit).version
      /\ KeepsCharges(Saved(edit), old)
  <2>1. CASE b \in DOMAIN txn
    <3>1. row = txn[b]
      BY <1>1, <2>1 DEF TxnRows
    <3>2. 0 < old.version /\ old.version < row.version /\ KeepsCharges(row, old)
      BY <2>1, <3>1 DEF Inv, TokensTell, TxnKeepsCharges
    <3> QED BY <1>1, <1>3, <1>4, <3>2 DEF KeepsCharges
  <2>2. CASE b \notin DOMAIN txn
    <3>1. row = old
      BY <1>1, <2>2 DEF TxnRows
    <3> QED BY <1>1, <1>3, <1>4, <3>1 DEF KeepsCharges
  <2> QED BY <2>1, <2>2
<1> QED BY <1>2, <1>5 DEF TxnKeepsCharges, KeepsCharges, Inv, TokensTell

LEMMA BatchExpireInv == Inv /\ BatchExpire /\ Typed' => Inv'
<1> SUFFICES ASSUME Inv, BatchExpire, Typed' PROVE Inv'
  OBVIOUS
<1> DEFINE gone == ExpiredHolds(batch.list, clock)
           edit == WithoutExpiredHolds(batch.list, clock)
<1>1. /\ InUse /\ batch \in Batch /\ batch.list \in ResourceChargeList
      /\ batch.title \in Titles /\ batch.row \in Slots
      /\ UNCHANGED <<clock, items, lists, req, spent>>
  BY DEF BatchExpire, InUse, Inv, Typed, TypeOK, Addressed, Batch
<1>2. UnsavedRowsEmpty' /\ RequestTokensTell'
  BY <1>1 DEF Inv, TokensTell, UnsavedRowsEmpty, RequestTokensTell, TokenTells, KeepsCharges
<1>3. CASE gone = {}
  <2>1. batch' = [batch EXCEPT !.pc = "expired"] /\ UNCHANGED <<txn, mails>>
    BY <1>3 DEF BatchExpire
  <2>2. batch'.title = batch.title /\ batch'.row = batch.row /\ batch'.list = batch.list
    BY <1>1, <2>1 DEF Batch
  <2>3. BatchTokenTells' /\ TxnKeepsCharges'
    BY <1>1, <2>1, <2>2 DEF Inv, TokensTell, BatchTokenTells, TxnKeepsCharges, TokenTells,
                            KeepsCharges, TxnRows
  <2> QED BY <1>2, <2>3 DEF Inv, TokensTell, Typed
<1>4. CASE gone # {} /\ BatchTokenMatches
  <2>1. /\ batch' = [batch EXCEPT !.pc = "expired", !.list = Saved(edit)]
        /\ WriteRow(Saved(edit))
    BY <1>4 DEF BatchExpire
  <2>2. /\ edit \in ResourceChargeList /\ edit.version = batch.list.version
        /\ edit.charged_items = batch.list.charged_items
    BY <1>1 DEF WithoutExpiredHolds, PendingOrActiveHolds, ResourceChargeList
  <2> HIDE DEF edit
  <2>3. TxnKeepsCharges'
    BY <1>1, <1>4, <2>1, <2>2, WriteKeeps
  <2>4. /\ batch'.title = batch.title /\ batch'.row = batch.row
        /\ batch'.list = Saved(edit)
    BY <1>1, <2>1 DEF Batch
  <2>5. Saved(edit).version \in Nat /\ Saved(edit).version > 0
    BY <2>2, SavedEdit DEF ResourceChargeList
  <2>6. TxnRows(batch.title)'[batch'.row] = Saved(edit)
    BY <1>1, <2>1, <2>4 DEF TxnRows, WriteRow
  <2>7. BatchTokenTells'
    BY <2>4, <2>5, <2>6 DEF BatchTokenTells, TokenTells, KeepsCharges
  <2> QED BY <1>2, <2>3, <2>7 DEF Inv, TokensTell, Typed
<1>5. CASE gone # {} /\ ~BatchTokenMatches
  <2>1. RollBack
    BY <1>5 DEF BatchExpire
  <2>2. BatchTokenTells' /\ TxnKeepsCharges'
    BY <2>1, IdleTypes DEF RollBack, IdleBatch, BatchTokenTells, TxnKeepsCharges, InUse
  <2> QED BY <1>2, <2>2 DEF Inv, TokensTell, Typed
<1> QED BY <1>3, <1>4, <1>5

LEMMA BatchActivateInv == Inv /\ BatchActivate /\ Typed' => Inv'
<1> SUFFICES ASSUME Inv, BatchActivate, Typed' PROVE Inv'
  OBVIOUS
<1> DEFINE chosen == HoldsToActivate(batch.list, items[batch.title], clock)
           edit == WithActivated(batch.list, chosen, clock)
           told == Notices("activated", Saved(edit).hold_queue \ batch.list.hold_queue)
<1>1. /\ InUse /\ batch \in Batch /\ batch.list \in ResourceChargeList /\ clock \in Nat
      /\ UNCHANGED <<clock, items, lists, req, spent>>
  BY DEF BatchActivate, InUse, Inv, Typed, TypeOK, Batch
<1>2. UnsavedRowsEmpty' /\ RequestTokensTell'
  BY <1>1 DEF Inv, TokensTell, UnsavedRowsEmpty, RequestTokensTell, TokenTells, KeepsCharges
<1>3. CASE batch' = [batch EXCEPT !.pc = "next"] /\ UNCHANGED <<txn, mails>>
  <2>1. BatchTokenTells' /\ TxnKeepsCharges'
    BY <1>1, <1>3 DEF Inv, TokensTell, BatchTokenTells, TxnKeepsCharges, KeepsCharges,
                      InUse, Batch
  <2> QED BY <1>2, <2>1 DEF Inv, TokensTell, Typed
<1>4. CASE RollBack
  <2>1. BatchTokenTells' /\ TxnKeepsCharges'
    BY <1>4, IdleTypes DEF RollBack, IdleBatch, BatchTokenTells, TxnKeepsCharges, InUse
  <2> QED BY <1>2, <2>1 DEF Inv, TokensTell, Typed
<1>5. CASE BatchTokenMatches /\ StoreActivated(Saved(edit), told)
  <2>1. chosen \subseteq batch.list.hold_queue
    BY DEF HoldsToActivate, FirstHolds, PendingHolds
  <2> HIDE DEF chosen
  <2>2. /\ edit \in ResourceChargeList /\ edit.version = batch.list.version
        /\ edit.charged_items = batch.list.charged_items
    BY <1>1, <2>1, ActivationEdit
  <2> HIDE DEF edit
  <2>3. TxnKeepsCharges'
    BY <1>1, <1>5, <2>2, WriteKeeps DEF StoreActivated
  <2>4. BatchTokenTells'
    BY <1>1, <1>5 DEF StoreActivated, BatchTokenTells, InUse, Batch
  <2> QED BY <1>2, <2>3, <2>4 DEF Inv, TokensTell, Typed
<1> QED BY <1>3, <1>4, <1>5 DEF BatchActivate

LEMMA BatchCommitInv == Inv /\ BatchCommit /\ Typed' => Inv'
<1> SUFFICES ASSUME Inv, BatchCommit, Typed' PROVE Inv'
  OBVIOUS
<1> SUFFICES /\ RowsGrow /\ UnsavedRowsEmpty'
             /\ RequestTokensTell' /\ BatchTokenTells' /\ TxnKeepsCharges'
  BY DEF Inv, TokensTell, Typed
<1>1. ASSUME NEW t \in Titles, NEW s \in Slots
      PROVE  \/ lists'[t][s] = lists[t][s]
             \/ /\ lists'[t][s].version > lists[t][s].version
                /\ lists'[t][s].version # 0
  <2>1. lists'[t][s] = IF <<t, s>> \in DOMAIN txn THEN txn[<<t, s>>] ELSE lists[t][s]
    BY DEF BatchCommit, TxnRows
  <2>2. CASE <<t, s>> \in DOMAIN txn
    <3>1. txn[<<t, s>>] \in ResourceChargeList /\ lists[t][s] \in ResourceChargeList
      BY <2>2 DEF Inv, Typed, TypeOK
    <3>2. 0 < lists[t][s].version /\ lists[t][s].version < txn[<<t, s>>].version
      BY <2>2 DEF Inv, TokensTell, TxnKeepsCharges
    <3> QED BY <2>1, <2>2, <3>1, <3>2 DEF ResourceChargeList
  <2>3. CASE <<t, s>> \notin DOMAIN txn
    BY <2>1, <2>3
  <2> QED BY <2>2, <2>3
<1>2. RowsGrow /\ UnsavedRowsEmpty'
  BY <1>1 DEF RowsGrow, UnsavedRowsEmpty, Inv, TokensTell
<1>3. RequestTokensTell'
  BY <1>2, RequestTokens DEF BatchCommit
<1>4. BatchTokenTells' /\ TxnKeepsCharges'
  BY IdleTypes DEF BatchCommit, IdleBatch, BatchTokenTells, TxnKeepsCharges, InUse
<1> QED BY <1>2, <1>3, <1>4

LEMMA TickInv == Inv /\ Tick /\ Typed' => Inv'
<1> SUFFICES ASSUME Inv, Tick, Typed' PROVE Inv'
  OBVIOUS
<1>1. clock' = clock + 1 /\ UNCHANGED <<items, lists, req, batch, txn, mails, spent>>
  BY DEF Tick
<1>2. \A t \in Titles, s \in Slots : lists[t][s] \in ResourceChargeList
  BY DEF Inv, Typed, TypeOK
<1>3. ASSUME NEW list, NEW base \in ResourceChargeList,
             NEW c \in base.charged_items, ChargeExpired(c, clock)
      PROVE  ChargeExpired(c, clock + 1)
  BY <1>3 DEF ResourceChargeList, ChargedItem, ChargeExpired, Inv, Typed, TypeOK
<1>4. RequestTokensTell'
  <2>1. \A w \in Workers : req[w].pc = "loaded" /\ req[w].row # NewRow =>
          req[w].title \in Titles /\ req[w].row \in Slots
    BY DEF Inv, Typed, TypeOK, Addressed, Request
  <2> QED BY <1>1, <1>2, <1>3, <2>1
          DEF Inv, TokensTell, RequestTokensTell, TokenTells, KeepsCharges
<1>5. BatchTokenTells'
  <2>1. InUse => TxnRows(batch.title)[batch.row] \in ResourceChargeList
    BY TxnRowsType DEF Inv, Typed, Addressed
  <2>2. InUse' = InUse /\ TxnRows(batch.title)' = TxnRows(batch.title)
    BY <1>1 DEF InUse, TxnRows
  <2> QED BY <1>1, <1>3, <2>1, <2>2
          DEF Inv, TokensTell, BatchTokenTells, TokenTells, KeepsCharges
<1>6. TxnKeepsCharges'
  BY <1>1, <1>2, <1>3 DEF Inv, Typed, TypeOK, TokensTell, TxnKeepsCharges, KeepsCharges
<1> QED BY <1>1, <1>4, <1>5, <1>6 DEF Inv, TokensTell, Typed, UnsavedRowsEmpty

\* Nothing else touches a charge list, a token or the clock.
LEMMA InvStep == Inv /\ [Next]_vars => Inv'
<1> SUFFICES ASSUME Inv, [Next]_vars PROVE Inv'
  OBVIOUS
<1>0. Typed'
  BY TypedStep DEF Inv
<1>1. ASSUME NEW w \in Workers, NEW op \in Ops, NEW p \in Patrons, NEW t \in Titles,
             Begin(w, op, p, t)
      PROVE  Inv'
  BY <1>0, <1>1, LoadInv DEF Begin
<1>2. ASSUME NEW w \in Workers, Retry(w) PROVE Inv'
  <2>1. /\ req[w].op \in Ops /\ req[w].netid \in Patrons /\ req[w].title \in Titles
        /\ req[w].attempt + 1 \in Nat
    BY <1>2 DEF Retry, Inv, Typed, TypeOK, Addressed, Request
  <2> QED BY <1>0, <1>2, <2>1, LoadInv DEF Retry
<1>3. ASSUME NEW w \in Workers, Act(w) PROVE Inv'
  <2>1. req[w].pc = "loaded" /\ UNCHANGED <<clock, items, batch, txn, mails, spent>>
    BY <1>3 DEF Act
  <2>2. PICK reply \in Replies : \/ AnswerOnly(w, reply)
                                 \/ \E list : Edited(w, list, reply) /\ Save(w, list, reply)
    BY <1>3, ActShape DEF Inv
  <2>3. CASE AnswerOnly(w, reply)
    <3>1. \A v \in Workers : req'[v] = req[v] \/ req'[v].pc # "loaded"
      BY <2>3 DEF AnswerOnly, Answer, IdleRequest, Inv, Typed, TypeOK
    <3>2. RowsGrow /\ UNCHANGED lists
      BY <2>3 DEF AnswerOnly, RowsGrow
    <3>3. RequestTokensTell' /\ BatchTokenTells' /\ TxnKeepsCharges'
      BY <1>0, <2>1, <3>1, <3>2, RequestTokens, BatchTokens
    <3> QED BY <1>0, <3>2, <3>3 DEF Inv, TokensTell, Typed, UnsavedRowsEmpty
  <2>4. ASSUME NEW list, Edited(w, list, reply), Save(w, list, reply) PROVE Inv'
    BY <1>0, <2>1, <2>4, SaveInv
  <2> QED BY <2>2, <2>3, <2>4
<1>4. CASE BatchStart
  <2>1. BatchTokenTells'
    BY <1>4 DEF BatchStart, IdleBatch, BatchTokenTells, InUse
  <2> QED BY <1>0, <1>4, <2>1 DEF BatchStart, Inv, TokensTell, Typed, UnsavedRowsEmpty,
             RequestTokensTell, TokenTells, KeepsCharges, TxnKeepsCharges
<1>5. CASE BatchLoad
  BY <1>0, <1>5, BatchLoadInv
<1>6. CASE BatchExpire
  BY <1>0, <1>6, BatchExpireInv
<1>7. CASE BatchActivate
  BY <1>0, <1>7, BatchActivateInv
<1>8. CASE BatchCommit
  BY <1>0, <1>8, BatchCommitInv
<1>9. CASE BatchCrash
  <2>1. BatchTokenTells' /\ TxnKeepsCharges'
    BY <1>9, IdleTypes DEF BatchCrash, RollBack, IdleBatch, BatchTokenTells,
                           TxnKeepsCharges, InUse
  <2> QED BY <1>0, <1>9, <2>1 DEF BatchCrash, Inv, TokensTell, Typed, UnsavedRowsEmpty,
             RequestTokensTell, TokenTells, KeepsCharges
<1>10. CASE Tick
  BY <1>0, <1>10, TickInv
<1>11. ASSUME UNCHANGED <<clock, lists, req, batch, txn>> PROVE Inv'
  BY <1>0, <1>11 DEF Inv, TokensTell, Typed, UnsavedRowsEmpty, RequestTokensTell,
     TokenTells, KeepsCharges, BatchTokenTells, TxnRows, TxnKeepsCharges, InUse
<1>12. ASSUME NEW t \in Titles, NEW copies \in SUBSET Items, ChangeItems(t, copies)
       PROVE  Inv'
  BY <1>11, <1>12 DEF ChangeItems
<1>13. CASE UNCHANGED vars
  BY <1>11, <1>13 DEF vars
<1> QED BY <1>1, <1>2, <1>3, <1>4, <1>5, <1>6, <1>7, <1>8, <1>9, <1>10, <1>12, <1>13
        DEF Next, BatchStep

\* A list in memory that carries the token of its row has every running charge of
\* that row, for requests and for the cron job's uncommitted writes alike.
THEOREM TokensAlwaysTell == Spec => []TokensTell
<1>1. Init => Inv
  BY InvInit
<1>2. Inv /\ [Next]_vars => Inv'
  BY InvStep
<1>3. Inv => TokensTell
  BY DEF Inv
<1> QED BY <1>1, <1>2, <1>3, PTL DEF Spec

LEMMA SaveKeepsCharges ==
    ASSUME Inv, NEW w \in Workers, req[w].pc = "loaded", NEW reply, NEW list,
           Edited(w, list, reply), Save(w, list, reply)
    PROVE  ChargesKept
<1> SUFFICES ASSUME NEW t \in Titles, NEW s \in Slots,
                    NEW c \in lists[t][s].charged_items,
                    ~ChargeExpired(c, clock), c \notin lists'[t][s].charged_items
             PROVE  Returning(c.netid, t)
  BY DEF ChargesKept
<1>1. /\ req[w].title \in Titles /\ req \in [Workers -> Request]
      /\ lists \in [Titles -> [Slots -> ResourceChargeList]]
      /\ list \in ResourceChargeList
  BY DEF Inv, Typed, TypeOK, Addressed, Edited
<1>2. Saved(list).charged_items = list.charged_items
  BY <1>1, SavedEdit
<1>3. CASE SaveNew(w, list, reply)
  <2>1. PICK n \in Slots :
          /\ lists[req[w].title][n].version = 0
          /\ lists' = [lists EXCEPT ![req[w].title][n] = Saved(list)]
    BY <1>3 DEF SaveNew
  <2>2. t = req[w].title /\ s = n
    BY <1>1, <2>1
  <2>3. lists[t][s].charged_items = {}
    BY <2>1, <2>2 DEF Inv, TokensTell, UnsavedRowsEmpty, UnsavedList
  <2> QED BY <2>3
<1>4. CASE SaveFresh(w, list, reply)
  <2>1. /\ req[w].row # NewRow
        /\ lists[req[w].title][req[w].row].version = req[w].list.version
        /\ lists' = [lists EXCEPT ![req[w].title][req[w].row] = Saved(list)]
        /\ Answer(w, reply)
    BY <1>4 DEF SaveFresh
  <2>2. t = req[w].title /\ s = req[w].row /\ lists'[t][s] = Saved(list)
    BY <1>1, <2>1
  <2>3. c \in req[w].list.charged_items
    BY <2>1, <2>2 DEF Inv, TokensTell, RequestTokensTell, TokenTells, KeepsCharges
  <2>4. req[w].op = "return" /\ c.netid = req[w].netid /\ reply = "thanked"
    BY <1>2, <2>2, <2>3 DEF Edited
  <2>5. req'[w].reply = reply
    BY <1>1, <2>1 DEF Answer, IdleRequest
  <2> QED BY <2>2, <2>4, <2>5 DEF Returning
<1>5. CASE SaveStale(w, reply)
  BY <1>5 DEF SaveStale
<1> QED BY <1>3, <1>4, <1>5 DEF Save

LEMMA StepKeepsCharges == Inv /\ [Next]_vars => [ChargesKept]_vars
<1> SUFFICES ASSUME Inv, Next PROVE ChargesKept
  BY DEF vars
<1>1. ASSUME NEW w \in Workers, Act(w) PROVE ChargesKept
  <2>1. req[w].pc = "loaded"
    BY <1>1 DEF Act
  <2>2. PICK reply \in Replies : \/ AnswerOnly(w, reply)
                                 \/ \E list : Edited(w, list, reply) /\ Save(w, list, reply)
    BY <1>1, ActShape DEF Inv
  <2>3. CASE AnswerOnly(w, reply)
    BY <2>3 DEF AnswerOnly, ChargesKept
  <2>4. ASSUME NEW list, Edited(w, list, reply), Save(w, list, reply) PROVE ChargesKept
    BY <2>1, <2>4, SaveKeepsCharges
  <2> QED BY <2>2, <2>3, <2>4
<1>2. CASE BatchCommit
  <2>1. \A t \in Titles, s \in Slots :
          lists'[t][s] = IF <<t, s>> \in DOMAIN txn THEN txn[<<t, s>>] ELSE lists[t][s]
    BY <1>2 DEF BatchCommit, TxnRows
  <2>2. \A t \in Titles, s \in Slots : <<t, s>> \in DOMAIN txn =>
          KeepsCharges(txn[<<t, s>>], lists[t][s])
    BY DEF Inv, TokensTell, TxnKeepsCharges
  <2> QED BY <2>1, <2>2 DEF ChargesKept, KeepsCharges
<1>3. CASE UNCHANGED lists
  BY <1>3 DEF ChargesKept
<1> QED BY <1>1, <1>2, <1>3
        DEF Next, Begin, Retry, Load, BatchStart, BatchStep, BatchLoad, BatchExpire,
            BatchActivate, BatchCrash, Tick, ChangeItems

\* No save, from whatever copy of a list, takes a running charge from its patron,
\* unless it is the return of that patron.
THEOREM NoChargeLost == Spec => ChargesNotLost
<1>1. Init => Inv
  BY InvInit
<1>2. Inv /\ [Next]_vars => Inv'
  BY InvStep
<1>3. Inv /\ [Next]_vars => [ChargesKept]_vars
  BY StepKeepsCharges
<1> QED BY <1>1, <1>2, <1>3, PTL DEF Spec, ChargesNotLost
-----------------------------------------------------------------------------
(***************************************************************************)
(* Every copy of a list, stored or in memory, lends a copy once, holds     *)
(* once and has told whom it keeps a copy for                              *)
(***************************************************************************)
\* What is lent and promised of a list, by their definitions.
LEMMA LentOf ==
    ASSUME NEW list \in ResourceChargeList, NEW now
    PROVE  ClearExpiredCharges(list, now).charged_items
             = {c \in list.charged_items : ~ChargeExpired(c, now)}
BY DEF ClearExpiredCharges, ResourceChargeList

\* Whatever lends and promises no more than something that fits, fits.
LEMMA FitsLess ==
    ASSUME NEW list \in ResourceChargeList, NEW now, Fits(list, now),
           IsFiniteSet(list.charged_items), IsFiniteSet(list.hold_queue),
           NEW less, NEW then,
           ClearExpiredCharges(less, then).charged_items
             \subseteq ClearExpiredCharges(list, now).charged_items,
           ActiveHolds(less, then) \subseteq ActiveHolds(list, now)
    PROVE  Fits(less, then)
<1> DEFINE lent == ClearExpiredCharges(list, now).charged_items
           active == ActiveHolds(list, now)
           lent2 == ClearExpiredCharges(less, then).charged_items
           active2 == ActiveHolds(less, then)
<1>1. IsFiniteSet(lent) /\ IsFiniteSet(active)
  BY LentOf, FS_Subset DEF ActiveHolds
<1> SUFFICES Cardinality(lent2) + Cardinality(active2) <= Cardinality(Items)
  BY DEF Fits
<1> HIDE DEF lent, active, lent2, active2
<1>2. lent2 \subseteq lent /\ active2 \subseteq active
  BY DEF lent, active, lent2, active2
<1>3. /\ IsFiniteSet(lent2) /\ Cardinality(lent2) <= Cardinality(lent)
      /\ IsFiniteSet(active2) /\ Cardinality(active2) <= Cardinality(active)
  BY <1>1, <1>2, FS_Subset
<1>4. /\ Cardinality(lent) \in Nat /\ Cardinality(active) \in Nat
      /\ Cardinality(lent2) \in Nat /\ Cardinality(active2) \in Nat
      /\ Cardinality(Items) \in Nat
  BY <1>1, <1>3, ItemsAssumption, FS_CardinalityType
<1>5. Cardinality(lent) + Cardinality(active) <= Cardinality(Items)
  BY DEF Fits, lent, active
<1> QED BY <1>3, <1>4, <1>5

LEMMA EmptyListSound == ASSUME NEW t PROVE ListSound(UnsavedList, t, clock, mails)
<1>1. /\ ClearExpiredCharges(UnsavedList, clock).charged_items = {}
      /\ ActiveHolds(UnsavedList, clock) = {}
  BY UnsavedListType, LentOf DEF UnsavedList, ActiveHolds
<1>2. Cardinality(Items) \in Nat
  BY ItemsAssumption, FS_CardinalityType
<1>3. Fits(UnsavedList, clock)
  BY <1>1, <1>2, FS_EmptySet DEF Fits
<1> QED BY <1>3, FS_EmptySet DEF UnsavedList, ListSound, OneBorrowerPerCopy, OneHoldEach,
                                 Announced, PendingOrActiveHolds, Ordered

\* As time passes and mail goes out, a list stays sound.
LEMMA SoundLater ==
    ASSUME Typed, NEW list \in ResourceChargeList, NEW t, ListSound(list, t, clock, mails),
           clock' \in Nat, clock <= clock', mails \subseteq mails'
    PROVE  ListSound(list, t, clock', mails')
<1>0. \A h \in list.hold_queue : HoldExpired(h, clock) => HoldExpired(h, clock')
  <2> TAKE h \in list.hold_queue
  <2>1. h.expiration_time \in Nat /\ clock \in Nat
    BY DEF ResourceChargeList, Hold, Typed, TypeOK
  <2> QED BY <2>1 DEF HoldExpired
<1>1. PendingOrActiveHolds(list, clock') \subseteq PendingOrActiveHolds(list, clock)
  BY <1>0 DEF PendingOrActiveHolds, ExpiredHolds
<1>2. OneHoldEach(list, clock')
  BY <1>1 DEF ListSound, OneHoldEach
<1>3. Announced(list, t, mails')
  BY DEF ListSound, Announced
<1>4. Fits(list, clock')
  <2>1. ActiveHolds(list, clock') \subseteq ActiveHolds(list, clock)
    BY <1>0 DEF ActiveHolds
  <2>2. \A c \in list.charged_items : ChargeExpired(c, clock) => ChargeExpired(c, clock')
    BY DEF ResourceChargeList, ChargedItem, ChargeExpired, Typed, TypeOK
  <2>3. ClearExpiredCharges(list, clock').charged_items
          \subseteq ClearExpiredCharges(list, clock).charged_items
    BY <2>2, LentOf
  <2> QED BY <2>1, <2>3, FitsLess DEF ListSound
<1> QED BY <1>2, <1>3, <1>4 DEF ListSound, OneBorrowerPerCopy, ChargeExpired, Ordered

\* Edits that only take charges or holds away.
LEMMA SoundLess ==
    ASSUME NEW list \in ResourceChargeList, NEW t, ListSound(list, t, clock, mails),
           NEW less \in ResourceChargeList, list.version <= less.version,
           less.charged_items \subseteq list.charged_items,
           less.hold_queue \subseteq list.hold_queue
    PROVE  ListSound(less, t, clock, mails)
<1>1. IsFiniteSet(less.charged_items) /\ IsFiniteSet(less.hold_queue)
  BY FS_Subset DEF ListSound
<1>2. OneBorrowerPerCopy(less)
  BY DEF ListSound, OneBorrowerPerCopy
<1>3. OneHoldEach(less, clock)
  BY DEF ListSound, OneHoldEach, PendingOrActiveHolds, ExpiredHolds
<1>4. Announced(less, t, mails)
  BY DEF ListSound, Announced
<1>5. Ordered(less)
  BY DEF ListSound, Ordered, ResourceChargeList, Hold
<1>6. Fits(less, clock)
  <2>1. ActiveHolds(less, clock) \subseteq ActiveHolds(list, clock)
    BY DEF ActiveHolds
  <2>2. ClearExpiredCharges(less, clock).charged_items
          \subseteq ClearExpiredCharges(list, clock).charged_items
    BY LentOf
  <2> QED BY <2>1, <2>2, FitsLess DEF ListSound
<1> QED BY <1>1, <1>2, <1>3, <1>4, <1>5, <1>6 DEF ListSound

LEMMA LoadedSound ==
    ASSUME Typed, NEW rows \in [Slots -> ResourceChargeList], NEW t,
           \A s \in Slots : ListSound(rows[s], t, clock, mails),
           NEW row \in Slots \cup {NewRow}
    PROVE  ListSound(Loaded(rows, row), t, clock, mails)
<1> DEFINE base == IF row = NewRow THEN UnsavedList ELSE rows[row]
<1>1. base \in ResourceChargeList /\ ListSound(base, t, clock, mails)
  BY UnsavedListType, EmptyListSound
<1>2. /\ Loaded(rows, row).charged_items \subseteq base.charged_items
      /\ Loaded(rows, row).hold_queue = base.hold_queue
      /\ Loaded(rows, row).version = base.version /\ base.version \in Nat
      /\ Loaded(rows, row) \in ResourceChargeList
  BY <1>1 DEF Loaded, ClearExpiredCharges, ResourceChargeList
<1> HIDE DEF base
<1> QED BY <1>1, <1>2, SoundLess

LEMMA SavedSound ==
    ASSUME NEW list \in ResourceChargeList, NEW t, ListSound(list, t, clock, mails)
    PROVE  ListSound(Saved(list), t, clock, mails)
<1>1. /\ Saved(list).charged_items = list.charged_items
      /\ Saved(list).hold_queue = list.hold_queue
      /\ Saved(list) \in ResourceChargeList
      /\ list.version <= Saved(list).version
  BY DEF Saved, ResourceChargeList
<1> QED BY <1>1, SoundLess

\* Who may borrow finds a copy that nobody has: each charge has a copy of its own,
\* so as long as the charges are fewer than the copies, one is left.
LEMMA CopyIsLeft ==
    ASSUME NEW list \in ResourceChargeList, NEW t, ListSound(list, t, clock, mails),
           NEW p, NEW copies \in SUBSET Items, AvailableForCharge(list, p, copies, clock)
    PROVE  AvailableItemIds(list, copies) # {}
<1> DEFINE charged == list.charged_items
           waiting == PendingOrActiveHolds(list, clock)
           f == [c \in charged |-> c.item_id]
           lent == {c.item_id : c \in charged}
<1> SUFFICES ASSUME AvailableItemIds(list, copies) = {} PROVE FALSE
  OBVIOUS
<1>1. copies \subseteq lent
  BY DEF AvailableItemIds
<1>2. IsFiniteSet(charged) /\ IsFiniteSet(waiting)
  BY FS_Subset DEF ListSound, PendingOrActiveHolds
<1>3. f \in Surjection(charged, lent)
  BY DEF Surjection
<1>4. IsFiniteSet(lent) /\ Cardinality(lent) <= Cardinality(charged)
  BY <1>2, <1>3, FS_Surjection
<1>5. IsFiniteSet(copies) /\ Cardinality(copies) <= Cardinality(lent)
  BY <1>1, <1>4, FS_Subset
<1>6. /\ Cardinality(charged) \in Nat /\ Cardinality(waiting) \in Nat
      /\ Cardinality(lent) \in Nat /\ Cardinality(copies) \in Nat
  BY <1>2, <1>4, <1>5, FS_CardinalityType
<1>7. Cardinality(charged) < Cardinality(copies)
  BY <1>6 DEF AvailableForCharge, AvailableChargeSlot
<1> QED BY <1>4, <1>5, <1>6, <1>7

\* create_charge: the copy is free, and the patron has none yet; either a copy is
\* kept back for the patron, or there is one more than are lent and waited for.
LEMMA ChargeSound ==
    ASSUME NEW list \in ResourceChargeList, NEW t, ListSound(list, t, clock, mails),
           NEW p \in Patrons, ~ActiveCharge(list, p), clock \in Nat,
           NEW copies \in SUBSET Items, AvailableForCharge(list, p, copies, clock),
           NEW item \in Items, \A c \in list.charged_items : c.item_id # item
    PROVE  ListSound(WithCharge(list, p, item, clock), t, clock, mails)
<1> DEFINE new == [item_id |-> item, netid |-> p, expiration_time |-> clock + ChargePeriod]
           after == WithCharge(list, p, item, clock)
<1>0. after \in ResourceChargeList
  BY ListEdits
<1>1. /\ after.charged_items = list.charged_items \cup {new}
      /\ after.hold_queue = {h \in list.hold_queue : h.netid # p}
      /\ after.version = list.version
  BY DEF WithCharge, ResourceChargeList
<1> HIDE DEF after
<1>2. IsFiniteSet(after.charged_items) /\ IsFiniteSet(after.hold_queue)
  BY <1>1, FS_AddElement, FS_Subset DEF ListSound
<1>3. OneBorrowerPerCopy(after)
  <2>1. new.item_id = item /\ new.netid = p /\ item # NoItem
    BY ItemsAssumption
  <2> HIDE DEF new
  <2> QED BY <1>1, <2>1 DEF ListSound, OneBorrowerPerCopy, ActiveCharge
<1>4. OneHoldEach(after, clock) /\ Announced(after, t, mails) /\ Ordered(after)
  BY <1>1 DEF ListSound, OneHoldEach, Announced, PendingOrActiveHolds, ExpiredHolds, Ordered
<1>5. Fits(after, clock)
  <2> DEFINE lent == ClearExpiredCharges(list, clock).charged_items
             active == ActiveHolds(list, clock)
             lent2 == ClearExpiredCharges(after, clock).charged_items
             active2 == ActiveHolds(after, clock)
             counted == PendingOrActiveHolds(list, clock)
  <2>1. /\ lent2 \subseteq lent \cup {new} /\ lent \subseteq list.charged_items
        /\ active2 = {h \in active : h.netid # p}
        /\ active \subseteq counted /\ counted \subseteq list.hold_queue
    BY <1>0, <1>1, LentOf DEF ActiveHolds, PendingOrActiveHolds, ExpiredHolds
  <2>2. HasActiveHold(list, p, clock) => \E h \in active : h.netid = p
    BY DEF HasActiveHold
  <2>3. Cardinality(lent) + Cardinality(active) <= Cardinality(Items)
    BY DEF ListSound, Fits
  <2> HIDE DEF lent, active, lent2, active2, counted, new
  <2>4. IsFiniteSet(lent) /\ IsFiniteSet(counted) /\ IsFiniteSet(active) /\ IsFiniteSet(active2)
    BY <2>1, FS_Subset DEF ListSound
  <2>5. /\ IsFiniteSet(lent \cup {new})
        /\ Cardinality(lent \cup {new}) <= Cardinality(lent) + 1
    <3>1. Cardinality(lent) \in Nat
      BY <2>4, FS_CardinalityType
    <3>2. /\ IsFiniteSet(lent \cup {new})
          /\ Cardinality(lent \cup {new})
               = IF new \in lent THEN Cardinality(lent) ELSE Cardinality(lent) + 1
      BY <2>4, FS_AddElement
    <3> QED BY <3>1, <3>2
  <2>6. IsFiniteSet(lent2) /\ Cardinality(lent2) <= Cardinality(lent \cup {new})
    BY <2>1, <2>5, FS_Subset
  <2>7. /\ Cardinality(lent) \in Nat /\ Cardinality(active) \in Nat
        /\ Cardinality(lent2) \in Nat /\ Cardinality(active2) \in Nat
        /\ Cardinality(lent \cup {new}) \in Nat /\ Cardinality(Items) \in Nat
        /\ Cardinality(list.charged_items) \in Nat /\ Cardinality(counted) \in Nat
    BY <2>4, <2>5, <2>6, ItemsAssumption, FS_CardinalityType DEF ListSound
  <2>8. CASE HasActiveHold(list, p, clock)
    <3>1. PICK h \in active : h.netid = p
      BY <2>2, <2>8
    <3>2. active2 \subseteq active \ {h}
      BY <2>1, <3>1
    <3>3. IsFiniteSet(active \ {h}) /\ Cardinality(active \ {h}) = Cardinality(active) - 1
      BY <2>4, <3>1, FS_RemoveElement
    <3>4. Cardinality(active2) <= Cardinality(active) - 1
      BY <3>2, <3>3, FS_Subset
    <3>5. Cardinality(lent2) + Cardinality(active2) <= Cardinality(Items)
      BY <2>3, <2>5, <2>6, <2>7, <3>4
    <3> QED BY <3>5 DEF Fits, lent2, active2
  <2>9. CASE Cardinality(list.charged_items) + Cardinality(counted) < Cardinality(copies)
    <3>1. Cardinality(copies) \in Nat /\ Cardinality(copies) <= Cardinality(Items)
      BY ItemsAssumption, FS_Subset, FS_CardinalityType
    <3>2. /\ Cardinality(lent) <= Cardinality(list.charged_items)
          /\ Cardinality(active2) <= Cardinality(counted)
      <4>1. active2 \subseteq counted
        BY <2>1
      <4> QED BY <2>1, <2>4, <4>1, FS_Subset DEF ListSound
    <3>3. Cardinality(lent2) + Cardinality(active2) <= Cardinality(Items)
      BY <2>5, <2>6, <2>7, <2>9, <3>1, <3>2
    <3> QED BY <3>3 DEF Fits, lent2, active2
  <2> QED BY <2>8, <2>9 DEF AvailableForCharge, counted
<1> QED BY <1>2, <1>3, <1>4, <1>5 DEF ListSound, after

\* create_hold: the patron has no hold that still counts, and waits behind all others.
LEMMA HoldSound ==
    ASSUME NEW list \in ResourceChargeList, NEW t, ListSound(list, t, clock, mails),
           NEW p \in Patrons, ~HoldFor(list, p, clock), clock \in Nat
    PROVE  ListSound(Saved(WithHold(list, p)), t, clock, mails)
<1> DEFINE new == [netid |-> p, expiration_time |-> Pending, place |-> list.version]
           after == Saved(WithHold(list, p))
<1>0. after \in ResourceChargeList
  BY ListEdits, SavedEdit, ItemsAssumption
<1>1. /\ after.charged_items = list.charged_items
      /\ after.hold_queue = list.hold_queue \cup {new}
      /\ after.version = list.version + 1 /\ list.version \in Nat
  BY DEF WithHold, Saved, ResourceChargeList
<1>2. new.netid = p /\ ~HoldActive(new) /\ new.place = list.version
  BY DEF HoldActive
<1> HIDE DEF after, new
<1>3. IsFiniteSet(after.hold_queue)
  BY <1>1, FS_AddElement DEF ListSound
<1>4. OneBorrowerPerCopy(after)
  BY <1>1 DEF ListSound, OneBorrowerPerCopy
<1>5. OneHoldEach(after, clock)
  <2>1. PendingOrActiveHolds(after, clock)
          \subseteq PendingOrActiveHolds(list, clock) \cup {new}
    BY <1>1 DEF PendingOrActiveHolds, ExpiredHolds
  <2> QED BY <1>2, <2>1 DEF ListSound, OneHoldEach, HoldFor
<1>6. Announced(after, t, mails)
  BY <1>1, <1>2 DEF ListSound, Announced
<1>7. Ordered(after)
  <2>1. \A h \in list.hold_queue : h.place \in Nat /\ h.place < list.version
    BY DEF ListSound, Ordered, ResourceChargeList, Hold
  <2> QED BY <1>1, <1>2, <2>1 DEF ListSound, Ordered
<1>8. Fits(after, clock)
  <2>1. ActiveHolds(after, clock) \subseteq ActiveHolds(list, clock)
    BY <1>1, <1>2 DEF ActiveHolds
  <2>2. ClearExpiredCharges(after, clock).charged_items
          \subseteq ClearExpiredCharges(list, clock).charged_items
    BY <1>0, <1>1, LentOf
  <2> QED BY <2>1, <2>2, FitsLess DEF ListSound
<1> QED BY <1>1, <1>3, <1>4, <1>5, <1>6, <1>7, <1>8 DEF ListSound, after

\* Each charge has a copy of its own: what is lent and what is available are no
\* more than all copies.
LEMMA LentAndAvailable ==
    ASSUME NEW list \in ResourceChargeList, OneBorrowerPerCopy(list),
           NEW copies \in SUBSET Items
    PROVE  /\ IsFiniteSet(AvailableItemIds(list, copies))
           /\ IsFiniteSet(list.charged_items)
           /\ Cardinality(list.charged_items) + Cardinality(AvailableItemIds(list, copies))
                <= Cardinality(Items)
<1> DEFINE charged == list.charged_items
           f == [c \in charged |-> c.item_id]
           lent == {c.item_id : c \in charged}
           free == AvailableItemIds(list, copies)
<1>1. lent \subseteq Items /\ free \subseteq Items /\ lent \cap free = {}
  BY DEF AvailableItemIds, OneBorrowerPerCopy, ResourceChargeList, ChargedItem
<1>2. f \in Injection(charged, lent)
  BY DEF Injection, IsInjective, OneBorrowerPerCopy
<1> HIDE DEF lent, free, f, charged
<1>3. IsFiniteSet(lent) /\ IsFiniteSet(free)
  BY <1>1, ItemsAssumption, FS_Subset
<1>4. IsFiniteSet(charged) /\ Cardinality(charged) <= Cardinality(lent)
  BY <1>2, <1>3, FS_Injection
<1>5. Cardinality(lent \cup free) <= Cardinality(Items)
  BY <1>1, ItemsAssumption, FS_Subset
<1>6. Cardinality(lent \cup free) = Cardinality(lent) + Cardinality(free)
  <2>1. Cardinality(lent \cap free) = 0
    BY <1>1, FS_EmptySet
  <2>2. Cardinality(lent) \in Nat /\ Cardinality(free) \in Nat
    BY <1>3, FS_CardinalityType
  <2>3. Cardinality(lent \cup free)
          = Cardinality(lent) + Cardinality(free) - Cardinality(lent \cap free)
    BY <1>3, FS_Union
  <2> QED BY <2>1, <2>2, <2>3
<1>7. /\ Cardinality(lent) \in Nat /\ Cardinality(free) \in Nat
      /\ Cardinality(charged) \in Nat /\ Cardinality(Items) \in Nat
  BY <1>3, <1>4, ItemsAssumption, FS_CardinalityType
<1>8. Cardinality(charged) + Cardinality(free) <= Cardinality(Items)
  BY <1>4, <1>5, <1>6, <1>7
<1> QED BY <1>3, <1>4, <1>8 DEF charged, free

\* activate_holds!: an active hold takes the place of each hold it activates, and
\* its mail goes out with it; no more are activated than copies are left.
LEMMA ActivatedSound ==
    ASSUME Typed, InUse, ListSound(batch.list, batch.title, clock, mails),
           NEW copies \in SUBSET Items, ~TooManyActiveHolds(batch.list, copies, clock),
           NEW chosen, chosen = HoldsToActivate(batch.list, copies, clock), UNCHANGED clock,
           LET after == Saved(WithActivated(batch.list, chosen, clock))
           IN  mails' = mails \cup Notices("activated",
                                           after.hold_queue \ batch.list.hold_queue)
    PROVE  ListSound(Saved(WithActivated(batch.list, chosen, clock)), batch.title, clock', mails')
<1> DEFINE list == batch.list
           t == batch.title
           after == Saved(WithActivated(list, chosen, clock))
           active(h) == [h EXCEPT !.expiration_time = clock + HoldPeriod]
<1>0. chosen \subseteq PendingHolds(list)
  BY DEF HoldsToActivate, FirstHolds
<1>1. /\ list \in ResourceChargeList /\ clock \in Nat
      /\ chosen \subseteq list.hold_queue
  BY <1>0 DEF Typed, TypeOK, Batch, PendingHolds
<1>2. WithActivated(list, chosen, clock) \in ResourceChargeList
  BY <1>1, ActivationEdit
<1>3. /\ after.charged_items = list.charged_items
      /\ after.hold_queue = (list.hold_queue \ chosen) \cup {active(h) : h \in chosen}
      /\ after.version = list.version + 1 /\ after \in ResourceChargeList
  <2>1. /\ WithActivated(list, chosen, clock).version = list.version
        /\ WithActivated(list, chosen, clock).charged_items = list.charged_items
        /\ WithActivated(list, chosen, clock).hold_queue
             = (list.hold_queue \ chosen) \cup {active(h) : h \in chosen}
    BY <1>1 DEF WithActivated, ResourceChargeList
  <2>2. Saved(WithActivated(list, chosen, clock)).hold_queue
          = WithActivated(list, chosen, clock).hold_queue
    BY <1>2 DEF Saved, ResourceChargeList
  <2> HIDE DEF active
  <2> QED BY <1>2, <2>1, <2>2, SavedEdit
<1>4. \A h \in chosen : /\ active(h).netid = h.netid /\ active(h).place = h.place
                        /\ h \in PendingOrActiveHolds(list, clock)
  BY <1>0, <1>1 DEF ResourceChargeList, Hold, PendingHolds, PendingOrActiveHolds,
                    ExpiredHolds, HoldExpired
<1> DEFINE f == [h \in chosen |-> active(h)]
           actives == {active(h) : h \in chosen}
<1>5. /\ IsFiniteSet(chosen) /\ IsFiniteSet(actives)
      /\ Cardinality(actives) <= Cardinality(chosen)
  <2>1. IsFiniteSet(chosen)
    BY <1>1, FS_Subset DEF ListSound
  <2>2. f \in Surjection(chosen, actives)
    BY DEF Surjection
  <2> HIDE DEF f, actives
  <2> QED BY <2>1, <2>2, FS_Surjection
<1>6. IsFiniteSet(after.hold_queue)
  <2>1. IsFiniteSet(list.hold_queue \ chosen)
    BY FS_Subset DEF ListSound
  <2>2. after.hold_queue = (list.hold_queue \ chosen) \cup actives
    BY <1>3
  <2> HIDE DEF after, actives
  <2> QED BY <1>5, <2>1, <2>2, FS_Union
<1> HIDE DEF after, active
<1>7. OneBorrowerPerCopy(after)
  BY <1>3 DEF ListSound, OneBorrowerPerCopy
<1>8. OneHoldEach(after, clock)
  <2>1. ASSUME NEW g \in PendingOrActiveHolds(after, clock)
        PROVE  \/ g \notin chosen /\ g \in PendingOrActiveHolds(list, clock)
               \/ \E h \in chosen : g = active(h)
    BY <1>3, <2>1 DEF PendingOrActiveHolds, ExpiredHolds
  <2> SUFFICES ASSUME NEW g \in PendingOrActiveHolds(after, clock),
                      NEW h \in PendingOrActiveHolds(after, clock),
                      g.netid = h.netid
               PROVE  g = h
    BY DEF OneHoldEach
  <2> QED BY <1>4, <2>1 DEF ListSound, OneHoldEach
<1>9. Announced(after, t, mails')
  <2> SUFFICES ASSUME NEW h \in after.hold_queue, HoldActive(h)
               PROVE  [kind |-> "activated", title |-> t, netid |-> h.netid,
                       expiration_time |-> h.expiration_time] \in mails'
    BY DEF Announced
  <2>1. CASE h \in list.hold_queue
    BY <2>1 DEF ListSound, Announced
  <2>2. CASE h \notin list.hold_queue
    BY <2>2 DEF Notices, after
  <2> QED BY <2>1, <2>2
<1>10. Ordered(after)
  <2>1. \A h \in list.hold_queue : /\ h.place \in Nat /\ h.place < list.version
                                   /\ list.version \in Nat
    BY <1>1 DEF ListSound, Ordered, ResourceChargeList, Hold
  <2>2. ASSUME NEW g \in after.hold_queue
        PROVE  \E h \in list.hold_queue : /\ g.place = h.place
                                          /\ g = IF h \in chosen THEN active(h) ELSE h
    BY <1>1, <1>3, <1>4
  <2> QED BY <1>3, <2>1, <2>2 DEF ListSound, Ordered
<1>11. Fits(after, clock)
  <2> DEFINE lent == ClearExpiredCharges(after, clock).charged_items
             act == ActiveHolds(list, clock)
             act2 == ActiveHolds(after, clock)
             free == AvailableItemIds(list, copies)
             pending == PendingHolds(list)
  <2>1. /\ IsFiniteSet(free) /\ IsFiniteSet(list.charged_items)
        /\ Cardinality(list.charged_items) + Cardinality(free) <= Cardinality(Items)
    BY <1>1, LentAndAvailable DEF ListSound
  <2>2. IsFiniteSet(act) /\ lent \subseteq list.charged_items
    BY <1>3, LentOf, FS_Subset DEF ActiveHolds, ListSound
  <2>3. act2 \subseteq act \cup actives
    BY <1>3 DEF ActiveHolds
  <2>4. Line(pending)
    <3>1. IsFiniteSet(pending)
      BY FS_Subset DEF PendingHolds, ListSound
    <3> QED BY <1>1, <3>1 DEF Line, ListSound, Ordered, PendingHolds, ResourceChargeList, Hold
  <2>5. ~(Cardinality(free) < Cardinality(act))
    BY DEF TooManyActiveHolds
  <2>6. chosen = FirstHolds(pending, Cardinality(free) - Cardinality(act))
    BY DEF HoldsToActivate
  <2> HIDE DEF lent, act, act2, free, pending, actives
  <2>7. Cardinality(free) \in Nat /\ Cardinality(act) \in Nat
    BY <2>1, <2>2, FS_CardinalityType
  <2>8. Cardinality(free) - Cardinality(act) \in Nat
    BY <2>5, <2>7
  <2>9. Cardinality(chosen) <= Cardinality(free) - Cardinality(act)
    BY <2>4, <2>6, <2>8, FirstAreFew
  <2>10. IsFiniteSet(lent) /\ Cardinality(lent) <= Cardinality(list.charged_items)
    BY <2>1, <2>2, FS_Subset
  <2>11. /\ IsFiniteSet(act \cup actives)
         /\ Cardinality(act \cup actives) <= Cardinality(act) + Cardinality(actives)
    <3>1. IsFiniteSet(act \cap actives)
      BY <1>5, FS_Subset
    <3>2. /\ Cardinality(act \cap actives) \in Nat
          /\ Cardinality(act) \in Nat /\ Cardinality(actives) \in Nat
      BY <1>5, <2>2, <3>1, FS_CardinalityType
    <3>3. Cardinality(act \cup actives)
            = Cardinality(act) + Cardinality(actives) - Cardinality(act \cap actives)
      BY <1>5, <2>2, FS_Union
    <3>4. IsFiniteSet(act \cup actives)
      BY <1>5, <2>2, FS_Union
    <3> QED BY <3>2, <3>3, <3>4
  <2>12. IsFiniteSet(act2) /\ Cardinality(act2) <= Cardinality(act \cup actives)
    BY <2>3, <2>11, FS_Subset
  <2>13. /\ Cardinality(lent) \in Nat /\ Cardinality(list.charged_items) \in Nat
         /\ Cardinality(act2) \in Nat /\ Cardinality(act \cup actives) \in Nat
         /\ Cardinality(actives) \in Nat /\ Cardinality(chosen) \in Nat
         /\ Cardinality(Items) \in Nat
    BY <1>5, <2>1, <2>10, <2>11, <2>12, ItemsAssumption, FS_CardinalityType
  <2>14. Cardinality(lent) + Cardinality(act2) <= Cardinality(Items)
    BY <1>5, <2>1, <2>7, <2>9, <2>10, <2>11, <2>12, <2>13
  <2> QED BY <2>14 DEF Fits, lent, act2
<1> QED BY <1>3, <1>6, <1>7, <1>8, <1>9, <1>10, <1>11
        DEF ListSound, OneHoldEach, OneBorrowerPerCopy, Fits, after
-----------------------------------------------------------------------------
SoundInv == Typed /\ EveryListSound

LEMMA SoundInit == Init => SoundInv
<1> SUFFICES ASSUME Init PROVE SoundInv
  OBVIOUS
<1>1. \A t : ListSound([UnsavedList EXCEPT !.version = 1], t, clock, mails)
  <2>1. [UnsavedList EXCEPT !.version = 1] = Saved(UnsavedList)
    BY DEF UnsavedList, Saved
  <2> QED BY <2>1, UnsavedListType, EmptyListSound, SavedSound
<1>2. \A t \in Titles, s \in Slots : ListSound(lists[t][s], t, clock, mails)
  <2>1. PICK slot \in Slots :
          lists = [t \in Titles |-> [s \in Slots |->
                     IF t \in Borrowed /\ s = slot
                     THEN [UnsavedList EXCEPT !.version = 1] ELSE UnsavedList]]
    BY DEF Init
  <2> TAKE t \in Titles, s \in Slots
  <2>2. lists[t][s] \in {UnsavedList, [UnsavedList EXCEPT !.version = 1]}
    BY <2>1
  <2> QED BY <1>1, <2>2, EmptyListSound
<1>3. /\ \A w \in Workers : ListSound(req[w].list, req[w].title, clock, mails)
      /\ ListSound(batch.list, batch.title, clock, mails)
      /\ \A k \in DOMAIN txn : ListSound(txn[k], k[1], clock, mails)
  BY EmptyListSound, IdleTypes DEF Init, IdleRequest, IdleBatch
<1> QED BY <1>2, <1>3, TypedInit DEF SoundInv, EveryListSound

\* What a step leaves alone stays sound, whatever the time and the mail.
LEMMA SoundFrame ==
    ASSUME SoundInv, Typed', clock <= clock', mails \subseteq mails',
           \A t \in Titles, s \in Slots :
             \/ lists'[t][s] = lists[t][s] \/ ListSound(lists'[t][s], t, clock', mails'),
           \A w \in Workers :
             \/ req'[w] = req[w] \/ ListSound(req'[w].list, req'[w].title, clock', mails'),
           \A k \in DOMAIN txn' :
             \/ k \in DOMAIN txn /\ txn'[k] = txn[k]
             \/ ListSound(txn'[k], k[1], clock', mails'),
           \/ batch'.list = batch.list /\ batch'.title = batch.title
           \/ ListSound(batch'.list, batch'.title, clock', mails')
    PROVE  SoundInv'
<1>1. clock' \in Nat
  BY DEF Typed, TypeOK
<1>2. ASSUME NEW list \in ResourceChargeList, NEW t, ListSound(list, t, clock, mails)
      PROVE  ListSound(list, t, clock', mails')
  BY <1>1, <1>2, SoundLater DEF SoundInv
<1>3. \A t \in Titles, s \in Slots : ListSound(lists'[t][s], t, clock', mails')
  BY <1>2 DEF SoundInv, EveryListSound, Typed, TypeOK
<1>4. \A w \in Workers : ListSound(req'[w].list, req'[w].title, clock', mails')
  BY <1>2 DEF SoundInv, EveryListSound, Typed, TypeOK, Request
<1>5. \A k \in DOMAIN txn' : ListSound(txn'[k], k[1], clock', mails')
  BY <1>2 DEF SoundInv, EveryListSound, Typed, TypeOK
<1>6. ListSound(batch'.list, batch'.title, clock', mails')
  BY <1>2 DEF SoundInv, EveryListSound, Typed, TypeOK, Batch
<1> QED BY <1>3, <1>4, <1>5, <1>6 DEF SoundInv, EveryListSound

\* A request, or the cron job, begins with a sound list.
LEMMA LoadSound ==
    ASSUME SoundInv, Typed', NEW w \in Workers, NEW op, NEW p, NEW t \in Titles, NEW n,
           Load(w, op, p, t, n)
    PROVE  SoundInv'
<1>1. PICK row \in Slots \cup {NewRow} :
        /\ req' = [req EXCEPT ![w] =
             [pc |-> "loaded", op |-> op, netid |-> p, title |-> t,
              attempt |-> n, row |-> row, list |-> Loaded(lists[t], row),
              reply |-> "none"]]
        /\ UNCHANGED <<clock, items, lists, batch, txn, mails>>
  BY DEF Load
<1>2. ListSound(Loaded(lists[t], row), t, clock, mails)
  BY LoadedSound DEF SoundInv, EveryListSound, Typed, TypeOK
<1>3. ASSUME NEW v \in Workers
      PROVE  req'[v] = req[v] \/ ListSound(req'[v].list, req'[v].title, clock', mails')
  BY <1>1, <1>2 DEF SoundInv, Typed, TypeOK
<1>4. clock <= clock' /\ mails \subseteq mails'
  BY <1>1 DEF SoundInv, Typed, TypeOK
<1> QED BY <1>1, <1>3, <1>4, SoundFrame

LEMMA BatchLoadSound ==
    ASSUME SoundInv, Typed', BatchLoad
    PROVE  SoundInv'
<1>1. PICK k \in batch.todo, row \in Slots :
        batch' = [batch EXCEPT !.pc = "loaded", !.todo = @ \ {k},
                     !.title = k[1], !.row = row, !.list = Loaded(TxnRows(k[1]), row)]
  BY DEF BatchLoad
<1> DEFINE rows == TxnRows(k[1])
<1>2. k[1] \in Titles /\ batch \in Batch
  BY DEF SoundInv, Typed, TypeOK, Batch
<1>3. rows \in [Slots -> ResourceChargeList]
  BY <1>2, TxnRowsType DEF SoundInv, Typed
<1>4. \A s \in Slots : ListSound(rows[s], k[1], clock, mails)
  BY <1>2 DEF TxnRows, SoundInv, EveryListSound
<1>5. ListSound(Loaded(rows, row), k[1], clock, mails)
  BY <1>3, <1>4, LoadedSound DEF SoundInv
<1>6. /\ batch'.list = Loaded(rows, row) /\ batch'.title = k[1]
      /\ UNCHANGED <<clock, lists, req, txn, mails>>
  BY <1>1, <1>2 DEF Batch, BatchLoad
<1>7. clock <= clock'
  BY <1>6 DEF SoundInv, Typed, TypeOK
<1> HIDE DEF rows
<1> QED BY <1>5, <1>6, <1>7, SoundFrame

\* Whatever a request saves is sound.
LEMMA ActSound ==
    ASSUME SoundInv, NEW w \in Workers, Act(w)
    PROVE  \E reply : \/ AnswerOnly(w, reply)
                      \/ \E list \in ResourceChargeList :
                           /\ ListSound(Saved(list), req[w].title, clock, mails)
                           /\ Save(w, list, reply)
<1> DEFINE r == req[w]
           copies == items[r.title]
           Fine == \E reply : \/ AnswerOnly(w, reply)
                                \/ \E list \in ResourceChargeList :
                                     /\ ListSound(Saved(list), r.title, clock, mails)
                                     /\ Save(w, list, reply)
<1>1. /\ r.list \in ResourceChargeList /\ r.netid \in Patrons /\ r.title \in Titles
      /\ copies \in SUBSET Items /\ clock \in Nat
      /\ ListSound(r.list, r.title, clock, mails)
  BY DEF SoundInv, EveryListSound, Typed, TypeOK, Addressed, Act, Request
<1>2. ASSUME NEW list \in ResourceChargeList, ListSound(Saved(list), r.title, clock, mails),
             NEW reply, Save(w, list, reply)
      PROVE  Fine
  BY <1>2
<1>3. ASSUME NEW reply, AnswerOnly(w, reply) PROVE Fine
  BY <1>3
<1> HIDE DEF Fine
<1>4. ASSUME CreateCharge(w) PROVE Fine
  <2>1. CASE AnswerOnly(w, "redirected") \/ AnswerOnly(w, "unavailable")
    BY <1>3, <2>1
  <2>2. ASSUME ~ActiveCharge(r.list, r.netid),
               AvailableForCharge(r.list, r.netid, copies, clock),
               NEW item \in FirstAvailable(r.list, copies),
               Save(w, WithCharge(r.list, r.netid, item, clock), "redirected")
        PROVE  Fine
    <3>1. item \in AvailableItemIds(r.list, copies)
      BY <1>1, <2>2, CopyIsLeft DEF FirstAvailable
    <3>2. /\ item \in Items /\ item # NoItem
          /\ \A c \in r.list.charged_items : c.item_id # item
      BY <1>1, <3>1, ItemsAssumption DEF AvailableItemIds
    <3>3. WithCharge(r.list, r.netid, item, clock) \in ResourceChargeList
      BY <1>1, <3>2, ListEdits
    <3>4. ListSound(Saved(WithCharge(r.list, r.netid, item, clock)), r.title, clock, mails)
      <4>1. ListSound(WithCharge(r.list, r.netid, item, clock), r.title, clock, mails)
        BY <1>1, <2>2, <3>2, ChargeSound
      <4> QED BY <3>3, <4>1, SavedSound
    <3> QED BY <1>2, <2>2, <3>3, <3>4
  <2> QED BY <1>4, <2>1, <2>2 DEF CreateCharge
<1>5. ASSUME CreateHold(w) PROVE Fine
  <2>1. CASE AnswerOnly(w, "already_reserved")
    BY <1>3, <2>1
  <2>2. CASE CreateCharge(w)
    BY <1>4, <2>2
  <2>3. CASE /\ ~HoldFor(r.list, r.netid, clock)
             /\ Save(w, WithHold(r.list, r.netid), "redirected")
    <3>1. WithHold(r.list, r.netid) \in ResourceChargeList
      BY <1>1, ListEdits
    <3>2. ListSound(Saved(WithHold(r.list, r.netid)), r.title, clock, mails)
      BY <1>1, <2>3, HoldSound
    <3> QED BY <1>2, <2>3, <3>1, <3>2
  <2> QED BY <1>5, <2>1, <2>2, <2>3 DEF CreateHold
<1>6. ASSUME Return(w) PROVE Fine
  <2>1. CASE AnswerOnly(w, "redirected")
    BY <1>3, <2>1
  <2>2. CASE Save(w, WithoutCharges(r.list, r.netid), "thanked")
    <3> DEFINE less == WithoutCharges(r.list, r.netid)
    <3>1. /\ less \in ResourceChargeList
          /\ less.charged_items \subseteq r.list.charged_items
          /\ less.hold_queue = r.list.hold_queue
          /\ r.list.version <= less.version
      BY <1>1 DEF WithoutCharges, ResourceChargeList
    <3> HIDE DEF less
    <3>2. ListSound(Saved(less), r.title, clock, mails)
      BY <1>1, <3>1, SoundLess, SavedSound
    <3> QED BY <1>2, <2>2, <3>1, <3>2 DEF less
  <2> QED BY <1>6, <2>1, <2>2 DEF Return
<1>7. Fine
  BY <1>4, <1>5, <1>6 DEF Act
<1> QED BY <1>7 DEF Fine

LEMMA RequestSound ==
    ASSUME SoundInv, Typed', NEW w \in Workers, Act(w)
    PROVE  SoundInv'
<1>1. UNCHANGED <<clock, items, batch, txn, mails, spent>>
  BY DEF Act
<1>2. /\ req \in [Workers -> Request] /\ clock <= clock'
      /\ lists \in [Titles -> [Slots -> ResourceChargeList]]
      /\ req[w].title \in Titles
  BY <1>1 DEF Act, SoundInv, Typed, TypeOK, Addressed
<1>3. ASSUME NEW reply, Answer(w, reply), NEW v \in Workers
      PROVE  req'[v] = req[v] \/ ListSound(req'[v].list, req'[v].title, clock', mails')
  <2>1. req'[w].list = UnsavedList
    BY <1>2, <1>3 DEF Answer, IdleRequest
  <2> QED BY <1>2, <1>3, <2>1, EmptyListSound, <1>1 DEF Answer
<1>4. ASSUME NEW reply, AnswerOnly(w, reply) PROVE SoundInv'
  BY <1>1, <1>2, <1>3, <1>4, SoundFrame DEF AnswerOnly
<1>5. ASSUME NEW list \in ResourceChargeList, NEW reply, Save(w, list, reply),
             ListSound(Saved(list), req[w].title, clock, mails)
      PROVE  SoundInv'
  <2>1. ListSound(Saved(list), req[w].title, clock', mails')
    BY <1>1, <1>5
  <2>2. ASSUME NEW row, lists' = [lists EXCEPT ![req[w].title][row] = Saved(list)],
               Answer(w, reply)
        PROVE  SoundInv'
    <3>1. \A t \in Titles, s \in Slots :
            lists'[t][s] = lists[t][s] \/ ListSound(lists'[t][s], t, clock', mails')
      BY <1>2, <2>1, <2>2
    <3> QED BY <1>1, <1>2, <1>3, <2>2, <3>1, SoundFrame
  <2>3. CASE SaveNew(w, list, reply) \/ SaveFresh(w, list, reply)
    BY <2>2, <2>3 DEF SaveNew, SaveFresh
  <2>4. CASE SaveStale(w, reply)
    <3>1. ASSUME NEW v \in Workers
          PROVE  req'[v] = req[v] \/ ListSound(req'[v].list, req'[v].title, clock', mails')
      <4>1. CASE Answer(w, reply)
        BY <1>3, <4>1
      <4>2. CASE req' = [req EXCEPT ![w] = [@ EXCEPT !.pc = "stale", !.row = NewRow,
                                                     !.list = UnsavedList]]
        <5>1. req'[w].list = UnsavedList /\ (v # w => req'[v] = req[v])
          BY <1>2, <4>2 DEF Request
        <5> QED BY <1>1, <5>1, EmptyListSound
      <4> QED BY <2>4, <4>1, <4>2 DEF SaveStale
    <3>2. UNCHANGED lists
      BY <2>4 DEF SaveStale
    <3> QED BY <1>1, <1>2, <3>1, <3>2, SoundFrame
  <2> QED BY <1>5, <2>3, <2>4 DEF Save
<1> QED BY <1>4, <1>5, ActSound

\* A run that ends, however it ends, leaves nothing of its own behind.
LEMMA RollBackSound ==
    ASSUME SoundInv, Typed', RollBack, UNCHANGED <<clock, lists, req>>,
           mails \subseteq mails'
    PROVE  SoundInv'
<1>1. ListSound(batch'.list, batch'.title, clock, mails)
  BY EmptyListSound DEF RollBack, IdleBatch
<1>2. batch'.list \in ResourceChargeList /\ clock \in Nat
  BY UnsavedListType DEF RollBack, IdleBatch, SoundInv, Typed, TypeOK
<1>3. ListSound(batch'.list, batch'.title, clock', mails') /\ clock <= clock'
  BY <1>1, <1>2, SoundLater DEF SoundInv
<1>4. DOMAIN txn' = {}
  BY IdleTypes DEF RollBack
<1> QED BY <1>3, <1>4, SoundFrame

LEMMA BatchExpireSound ==
    ASSUME SoundInv, Typed', BatchExpire
    PROVE  SoundInv'
<1> DEFINE gone == ExpiredHolds(batch.list, clock)
           edit == WithoutExpiredHolds(batch.list, clock)
           told == Notices("expired", gone)
<1>1. /\ batch \in Batch /\ batch.list \in ResourceChargeList
      /\ clock \in Nat /\ clock' = clock /\ UNCHANGED <<lists, req>>
  BY DEF BatchExpire, SoundInv, Typed, TypeOK, Batch
<1>2. CASE gone = {}
  <2>1. batch' = [batch EXCEPT !.pc = "expired"] /\ UNCHANGED <<txn, mails>>
    BY <1>2 DEF BatchExpire
  <2>2. batch'.list = batch.list /\ batch'.title = batch.title
    BY <1>1, <2>1 DEF Batch
  <2>3. mails \subseteq mails' /\ clock <= clock'
    BY <1>1, <2>1
  <2> HIDE DEF gone
  <2> QED BY <1>1, <2>1, <2>2, <2>3, SoundFrame
<1>3. CASE gone # {} /\ BatchTokenMatches
  <2>1. /\ batch' = [batch EXCEPT !.pc = "expired", !.list = Saved(edit)]
        /\ WriteRow(Saved(edit))
        /\ mails' = mails \cup told
    BY <1>3 DEF BatchExpire
  <2>2. /\ edit \in ResourceChargeList
        /\ edit.charged_items = batch.list.charged_items
        /\ edit.hold_queue \subseteq batch.list.hold_queue
        /\ batch.list.version <= edit.version
    BY <1>1 DEF WithoutExpiredHolds, PendingOrActiveHolds, ResourceChargeList
  <2> HIDE DEF edit, told, gone
  <2>3. ListSound(edit, batch.title, clock, mails)
    BY <1>1, <2>2, SoundLess DEF SoundInv, EveryListSound
  <2>4. Saved(edit) \in ResourceChargeList /\ ListSound(Saved(edit), batch.title, clock, mails)
    BY <2>2, <2>3, SavedSound, SavedEdit
  <2>5. mails \subseteq mails' /\ clock <= clock'
    BY <1>1, <2>1
  <2>6. ListSound(Saved(edit), batch.title, clock', mails')
    BY <1>1, <2>4, <2>5, SoundLater DEF SoundInv
  <2>7. batch'.list = Saved(edit) /\ batch'.title = batch.title
    BY <1>1, <2>1 DEF Batch
  <2>8. \A k \in DOMAIN txn' : \/ k \in DOMAIN txn /\ txn'[k] = txn[k]
                               \/ ListSound(txn'[k], k[1], clock', mails')
    BY <2>1, <2>6 DEF WriteRow
  <2> QED BY <1>1, <2>5, <2>6, <2>7, <2>8, SoundFrame
<1>4. CASE gone # {} /\ ~BatchTokenMatches
  <2>1. RollBack /\ mails \subseteq mails'
    BY <1>4 DEF BatchExpire
  <2> QED BY <1>1, <2>1, RollBackSound
<1> QED BY <1>2, <1>3, <1>4

LEMMA BatchActivateSound ==
    ASSUME SoundInv, Typed', BatchActivate
    PROVE  SoundInv'
<1> DEFINE chosen == HoldsToActivate(batch.list, items[batch.title], clock)
           list == Saved(WithActivated(batch.list, chosen, clock))
           told == Notices("activated", list.hold_queue \ batch.list.hold_queue)
<1>1. /\ InUse /\ batch \in Batch /\ clock \in Nat /\ clock' = clock
      /\ clock <= clock' /\ UNCHANGED <<lists, req>>
  BY DEF BatchActivate, InUse, SoundInv, Typed, TypeOK
<1>2. ASSUME batch' = [batch EXCEPT !.pc = "next"]
      PROVE  batch'.list = batch.list /\ batch'.title = batch.title
  BY <1>1, <1>2 DEF Batch
<1>3. CASE batch' = [batch EXCEPT !.pc = "next"] /\ UNCHANGED <<txn, mails>>
  BY <1>1, <1>2, <1>3, SoundFrame
<1>4. CASE RollBack /\ UNCHANGED mails
  BY <1>1, <1>4, RollBackSound
<1>5. CASE /\ ~TooManyActiveHolds(batch.list, items[batch.title], clock)
           /\ StoreActivated(list, told)
  <2>1. items[batch.title] \in SUBSET Items
    BY <1>1 DEF SoundInv, Typed, TypeOK, Addressed
  <2>2. mails' = mails \cup told
    BY <1>5 DEF StoreActivated
  <2>3. ListSound(list, batch.title, clock', mails')
    <3>1. Typed /\ ListSound(batch.list, batch.title, clock, mails) /\ UNCHANGED clock
      BY <1>1 DEF SoundInv, EveryListSound
    <3>2. ~TooManyActiveHolds(batch.list, items[batch.title], clock)
      BY <1>5
    <3> QED BY <1>1, <2>1, <2>2, <3>1, <3>2, ActivatedSound
  <2> HIDE DEF list, told
  <2>4. \A k \in DOMAIN txn' : \/ k \in DOMAIN txn /\ txn'[k] = txn[k]
                               \/ ListSound(txn'[k], k[1], clock', mails')
    BY <1>5, <2>3 DEF StoreActivated, WriteRow
  <2>5. mails \subseteq mails' /\ batch'.list = batch.list /\ batch'.title = batch.title
    BY <1>2, <1>5, <2>2 DEF StoreActivated
  <2> QED BY <1>1, <2>4, <2>5, SoundFrame
<1> QED BY <1>3, <1>4, <1>5 DEF BatchActivate

LEMMA BatchCommitSound ==
    ASSUME SoundInv, Typed', BatchCommit
    PROVE  SoundInv'
<1>1. UNCHANGED <<clock, req, mails>> /\ clock <= clock'
  BY DEF BatchCommit, SoundInv, Typed, TypeOK
<1>2. \A t \in Titles, s \in Slots : ListSound(lists'[t][s], t, clock', mails')
  BY <1>1 DEF BatchCommit, TxnRows, SoundInv, EveryListSound
<1>3. DOMAIN txn' = {} /\ ListSound(batch'.list, batch'.title, clock', mails')
  BY <1>1, IdleTypes, EmptyListSound DEF BatchCommit, IdleBatch
<1> QED BY <1>1, <1>2, <1>3, SoundFrame

LEMMA SoundStep == SoundInv /\ [Next]_vars => SoundInv'
<1> SUFFICES ASSUME SoundInv, [Next]_vars PROVE SoundInv'
  OBVIOUS
<1>0. Typed'
  BY TypedStep DEF SoundInv
<1>1. ASSUME NEW w \in Workers, NEW op \in Ops, NEW p \in Patrons, NEW t \in Titles,
             Begin(w, op, p, t)
      PROVE  SoundInv'
  BY <1>0, <1>1, LoadSound DEF Begin
<1>2. ASSUME NEW w \in Workers, Retry(w) PROVE SoundInv'
  <2>1. req[w].title \in Titles
    BY <1>2 DEF Retry, SoundInv, Typed, Addressed
  <2> QED BY <1>0, <1>2, <2>1, LoadSound DEF Retry
<1>3. ASSUME NEW w \in Workers, Act(w) PROVE SoundInv'
  BY <1>0, <1>3, RequestSound
<1>4. CASE BatchStart
  <2>1. /\ batch'.list = UnsavedList /\ batch'.title = NoOne
        /\ UNCHANGED <<clock, lists, req, txn, mails>> /\ clock <= clock'
    BY <1>4 DEF BatchStart, IdleBatch, SoundInv, Typed, TypeOK
  <2>2. ListSound(batch'.list, batch'.title, clock', mails')
    BY <2>1, EmptyListSound
  <2> QED BY <1>0, <2>1, <2>2, SoundFrame
<1>5. CASE BatchLoad
  BY <1>0, <1>5, BatchLoadSound
<1>6. CASE BatchExpire
  BY <1>0, <1>6, BatchExpireSound
<1>7. CASE BatchActivate
  BY <1>0, <1>7, BatchActivateSound
<1>8. CASE BatchCommit
  BY <1>0, <1>8, BatchCommitSound
<1>9. CASE BatchCrash
  BY <1>0, <1>9, RollBackSound DEF BatchCrash
<1>10. ASSUME UNCHANGED <<lists, req, batch, txn, mails>>, clock <= clock' PROVE SoundInv'
  BY <1>0, <1>10, SoundFrame
<1>11. CASE Tick
  BY <1>10, <1>11 DEF Tick, SoundInv, Typed, TypeOK
<1>12. ASSUME NEW t \in Titles, NEW copies \in SUBSET Items, ChangeItems(t, copies)
       PROVE  SoundInv'
  BY <1>10, <1>12 DEF ChangeItems, SoundInv, Typed, TypeOK
<1>13. CASE UNCHANGED vars
  BY <1>10, <1>13 DEF vars, SoundInv, Typed, TypeOK
<1> QED BY <1>1, <1>2, <1>3, <1>4, <1>5, <1>6, <1>7, <1>8, <1>9, <1>11, <1>12, <1>13
        DEF Next, BatchStep

\* No charge list, stored or in memory, lends one copy twice or lends a patron two,
\* and every charge names a copy (ChargeManager#create_charge).
THEOREM CopiesAreLentOnce == Spec => []CopiesLentOnce
<1>1. SoundInv => CopiesLentOnce
  BY DEF SoundInv, EveryListSound, ListSound, CopiesLentOnce
<1> QED BY <1>1, SoundInit, SoundStep, PTL DEF Spec

\* A patron has at most one hold that counts in a queue (ChargeManager#create_hold).
THEOREM HoldsAreSingle == Spec => []OneLiveHoldPerPatron
<1>1. SoundInv => OneLiveHoldPerPatron
  BY DEF SoundInv, EveryListSound, ListSound, OneLiveHoldPerPatron
<1> QED BY <1>1, SoundInit, SoundStep, PTL DEF Spec

\* Whoever has an active hold has been told, even if the cron job fails halfway
\* (ChargeManager#activate_holds!, CDL::BulkHoldProcessor).
THEOREM HoldsAreAnnounced == Spec => []ActiveHoldsAnnounced
<1>1. SoundInv => ActiveHoldsAnnounced
  BY DEF SoundInv, EveryListSound, ListSound, ActiveHoldsAnnounced
<1> QED BY <1>1, SoundInit, SoundStep, PTL DEF Spec
-----------------------------------------------------------------------------
(***************************************************************************)
(* When every title has its one charge list: a list in memory that carries *)
(* the token of its row is that row, so that a save that gets through is   *)
(* decided by what it replaces                                             *)
(***************************************************************************)
ExactInv == Inv /\ EveryListSound /\ EverySaveExact

\* As long as no row is saved for the first time, each title keeps its row.
LEMMA RowsStay ==
    ASSUME OneRow,
           \A t \in Titles, s \in Slots :
             lists'[t][s].version > 0 <=> lists[t][s].version > 0
    PROVE  OneRow' /\ \A t \in Titles : Row(t)' = Row(t)
<1>1. ASSUME NEW t \in Titles PROVE Row(t)' = Row(t)
  <2>1. Row(t) \in Slots /\ lists'[t][Row(t)].version > 0
    BY DEF OneRow
  <2>2. Row(t)' \in Slots /\ lists'[t][Row(t)'].version > 0
    BY <2>1 DEF Row
  <2> QED BY <2>2 DEF OneRow
<1> QED BY <1>1 DEF OneRow

\* Time makes no difference to what two lists have in common.
LEMMA SameLater ==
    ASSUME NEW list \in ResourceChargeList, NEW row \in ResourceChargeList,
           NEW now \in Nat, SameAt(list, row, now)
    PROVE  SameAt(list, row, now + 1)
<1>1. ASSUME NEW base \in ResourceChargeList
      PROVE  ClearExpiredCharges(base, now + 1).charged_items
               = {c \in ClearExpiredCharges(base, now).charged_items :
                    ~ChargeExpired(c, now + 1)}
  <2>1. \A c \in base.charged_items : ChargeExpired(c, now) => ChargeExpired(c, now + 1)
    BY DEF ResourceChargeList, ChargedItem, ChargeExpired
  <2> QED BY <2>1, LentOf
<1> QED BY <1>1 DEF SameAt

\* A request's list is still exact unless its row has a new token.
LEMMA RequestsStayExact ==
    ASSUME ExactInv, Typed', RowsGrow, clock' = clock,
           \A t \in Titles : Row(t)' = Row(t),
           \A w \in Workers : req'[w] = req[w] \/ req'[w].pc # "loaded"
    PROVE  RequestsExact'
<1> SUFFICES ASSUME NEW w \in Workers, req'[w].pc = "loaded"
             PROVE  /\ (req[w].row = Row(req[w].title))'
                    /\ Exact(req[w].list, List(req[w].title))'
  BY DEF RequestsExact
<1> DEFINE t == req[w].title
           s == req[w].row
<1>1. req'[w] = req[w] /\ req[w].pc = "loaded"
  OBVIOUS
<1>2. t \in Titles /\ s = Row(t) /\ s \in Slots /\ s # NewRow
  BY <1>1, LendingAssumption
     DEF ExactInv, Inv, Typed, Addressed, EverySaveExact, RequestsExact, OneRow
<1>3. /\ req[w].list.version \in Nat /\ lists[t][s].version \in Nat
      /\ lists'[t][s].version \in Nat
  BY <1>2 DEF ExactInv, Inv, Typed, TypeOK, Request, ResourceChargeList
<1>4. req[w].list.version <= lists[t][s].version
  BY <1>1, <1>2 DEF ExactInv, Inv, TokensTell, RequestTokensTell, TokenTells
<1>5. Exact(req[w].list, lists[t][s])
  BY <1>1, <1>2 DEF ExactInv, EverySaveExact, RequestsExact, List
<1>6. List(t)' = lists'[t][s]
  BY <1>2 DEF List
<1> QED BY <1>1, <1>2, <1>3, <1>4, <1>5, <1>6 DEF RowsGrow, Exact

\* So is the cron job's, whose rows nobody else can save.
LEMMA BatchStaysExact ==
    ASSUME ExactInv, Typed', RowsGrow, UNCHANGED <<clock, batch, txn>>,
           \A t \in Titles : Row(t)' = Row(t),
           \A k \in DOMAIN txn : lists'[k[1]][k[2]] = lists[k[1]][k[2]]
    PROVE  BatchExact' /\ BatchOnce' /\ TxnServed'
<1>1. BatchExact'
  <2> SUFFICES ASSUME InUse
               PROVE  /\ batch.row = Row(batch.title)'
                      /\ Exact(batch.list, TxnRows(batch.title)'[batch.row])
    BY DEF BatchExact, InUse, Exact
  <2> DEFINE t == batch.title
             s == batch.row
  <2>1. /\ t \in Titles /\ s \in Slots /\ batch.list.version \in Nat
        /\ lists[t][s].version \in Nat /\ lists'[t][s].version \in Nat
    BY DEF ExactInv, Inv, Typed, TypeOK, Addressed, Batch, ResourceChargeList
  <2>2. /\ batch.list.version <= TxnRows(t)[s].version
        /\ s = Row(t) /\ Exact(batch.list, TxnRows(t)[s])
    BY DEF ExactInv, Inv, TokensTell, BatchTokenTells, TokenTells, EverySaveExact, BatchExact
  <2>3. /\ TxnRows(t)[s] = IF <<t, s>> \in DOMAIN txn THEN txn[<<t, s>>] ELSE lists[t][s]
        /\ TxnRows(t)'[s] = IF <<t, s>> \in DOMAIN txn THEN txn[<<t, s>>] ELSE lists'[t][s]
    BY <2>1 DEF TxnRows
  <2> QED BY <2>1, <2>2, <2>3 DEF RowsGrow, Exact
<1>2. BatchOnce'
  <2>1. \A k \in batch.todo : k[1] \in Titles
    BY DEF ExactInv, Inv, Typed, TypeOK, Batch
  <2> QED BY <2>1 DEF ExactInv, EverySaveExact, BatchOnce, InUse, InHand
<1>3. TxnServed'
  BY DEF ExactInv, EverySaveExact, TxnServed, InUse, InHand
<1> QED BY <1>1, <1>2, <1>3

\* A step that leaves the rows, the clock and the cron job alone.
LEMMA ElsewhereExact ==
    ASSUME ExactInv, Typed', UNCHANGED <<clock, lists, batch, txn>>,
           \A w \in Workers : req'[w] = req[w] \/ req'[w].pc # "loaded"
    PROVE  EverySaveExact'
<1>1. OneRow' /\ \A t \in Titles : Row(t)' = Row(t)
  BY RowsStay DEF ExactInv, EverySaveExact
<1>2. RowsGrow
  BY DEF RowsGrow
<1> QED BY <1>1, <1>2, RequestsStayExact, BatchStaysExact DEF EverySaveExact

\* What a request may decide to save, from the list it has in memory.
Decided(w, list) ==
    LET r == req[w]
        copies == items[r.title]
    IN  \/ /\ ~ActiveCharge(r.list, r.netid)
           /\ AvailableForCharge(r.list, r.netid, copies, clock)
           /\ \E item \in AvailableItemIds(r.list, copies) :
                list = WithCharge(r.list, r.netid, item, clock)
        \/ /\ ~HoldFor(r.list, r.netid, clock)
           /\ list = WithHold(r.list, r.netid)
        \/ /\ ActiveCharge(r.list, r.netid)
           /\ list = WithoutCharges(r.list, r.netid)

LEMMA ActDecides ==
    ASSUME SoundInv, NEW w \in Workers, Act(w)
    PROVE  \E reply : \/ AnswerOnly(w, reply)
                      \/ \E list \in ResourceChargeList :
                           Decided(w, list) /\ Save(w, list, reply)
<1> DEFINE r == req[w]
           copies == items[r.title]
           Fine == \E reply : \/ AnswerOnly(w, reply)
                              \/ \E list \in ResourceChargeList :
                                   Decided(w, list) /\ Save(w, list, reply)
<1>1. /\ r.list \in ResourceChargeList /\ r.netid \in Patrons /\ r.title \in Titles
      /\ copies \in SUBSET Items /\ clock \in Nat
      /\ ListSound(r.list, r.title, clock, mails)
  BY DEF SoundInv, EveryListSound, Typed, TypeOK, Addressed, Act, Request
<1>2. ASSUME NEW list \in ResourceChargeList, Decided(w, list), NEW reply, Save(w, list, reply)
      PROVE  Fine
  BY <1>2
<1>3. ASSUME NEW reply, AnswerOnly(w, reply) PROVE Fine
  BY <1>3
<1> HIDE DEF Fine
<1>4. ASSUME CreateCharge(w) PROVE Fine
  <2>1. CASE AnswerOnly(w, "redirected") \/ AnswerOnly(w, "unavailable")
    BY <1>3, <2>1
  <2>2. ASSUME ~ActiveCharge(r.list, r.netid),
               AvailableForCharge(r.list, r.netid, copies, clock),
               NEW item \in FirstAvailable(r.list, copies),
               Save(w, WithCharge(r.list, r.netid, item, clock), "redirected")
        PROVE  Fine
    <3>1. item \in AvailableItemIds(r.list, copies)
      BY <1>1, <2>2, CopyIsLeft DEF FirstAvailable
    <3>2. item \in Items
      BY <1>1, <3>1 DEF AvailableItemIds
    <3>3. WithCharge(r.list, r.netid, item, clock) \in ResourceChargeList
      BY <1>1, <3>2, ListEdits
    <3>4. Decided(w, WithCharge(r.list, r.netid, item, clock))
      BY <2>2, <3>1 DEF Decided
    <3> QED BY <1>2, <2>2, <3>3, <3>4
  <2> QED BY <1>4, <2>1, <2>2 DEF CreateCharge
<1>5. ASSUME CreateHold(w) PROVE Fine
  <2>1. CASE AnswerOnly(w, "already_reserved")
    BY <1>3, <2>1
  <2>2. CASE CreateCharge(w)
    BY <1>4, <2>2
  <2>3. CASE /\ ~HoldFor(r.list, r.netid, clock)
             /\ Save(w, WithHold(r.list, r.netid), "redirected")
    <3>1. WithHold(r.list, r.netid) \in ResourceChargeList
      BY <1>1, ListEdits
    <3>2. Decided(w, WithHold(r.list, r.netid))
      BY <2>3 DEF Decided
    <3> QED BY <1>2, <2>3, <3>1, <3>2
  <2> QED BY <1>5, <2>1, <2>2, <2>3 DEF CreateHold
<1>6. ASSUME Return(w) PROVE Fine
  <2>1. CASE AnswerOnly(w, "redirected")
    BY <1>3, <2>1
  <2>2. CASE /\ ActiveCharge(r.list, r.netid)
             /\ Save(w, WithoutCharges(r.list, r.netid), "thanked")
    <3>1. WithoutCharges(r.list, r.netid) \in ResourceChargeList
      BY <1>1, ListEdits
    <3>2. Decided(w, WithoutCharges(r.list, r.netid))
      BY <2>2 DEF Decided
    <3> QED BY <1>2, <2>2, <3>1, <3>2
  <2> QED BY <1>6, <2>1, <2>2 DEF Return
<1>7. Fine
  BY <1>4, <1>5, <1>6 DEF Act
<1> QED BY <1>7 DEF Fine

\* The save that gets through replaces the row it was decided by.
Replaces(w, list) ==
    LET t == req[w].title
    IN  /\ t \in Titles
        /\ <<t, Row(t)>> \notin DOMAIN txn
        /\ req[w].list \in ResourceChargeList
        /\ req[w].list.version = List(t).version
        /\ SameAt(req[w].list, List(t), clock)
        /\ list \in ResourceChargeList
        /\ list.version = List(t).version
        /\ lists' = [lists EXCEPT ![t][Row(t)] = Saved(list)]

LEMMA ActReplaces ==
    ASSUME ExactInv, NEW w \in Workers, Act(w)
    PROVE  /\ \A v \in Workers : req'[v] = req[v] \/ req'[v].pc # "loaded"
           /\ UNCHANGED <<clock, items, batch, txn, mails>>
           /\ UNCHANGED lists \/ \E list : Decided(w, list) /\ Replaces(w, list)
<1>1. UNCHANGED <<clock, items, batch, txn, mails>> /\ req[w].pc = "loaded"
  BY DEF Act
<1>2. /\ req \in [Workers -> Request] /\ req[w] \in Request /\ req[w].title \in Titles
      /\ req[w].list \in ResourceChargeList /\ req[w].netid \in Patrons /\ clock \in Nat
  BY <1>1 DEF ExactInv, Inv, Typed, TypeOK, Addressed, Request
<1>3. ASSUME NEW reply, Answer(w, reply), NEW v \in Workers
      PROVE  req'[v] = req[v] \/ req'[v].pc # "loaded"
  BY <1>2, <1>3 DEF Answer, IdleRequest
<1>4. ASSUME NEW list \in ResourceChargeList, Decided(w, list), NEW reply, Save(w, list, reply)
      PROVE  /\ \A v \in Workers : req'[v] = req[v] \/ req'[v].pc # "loaded"
             /\ UNCHANGED lists \/ Replaces(w, list)
  <2>1. req[w].row = Row(req[w].title) /\ req[w].row # NewRow
    BY <1>1, <1>2, LendingAssumption DEF ExactInv, EverySaveExact, RequestsExact, OneRow
  <2>2. CASE SaveNew(w, list, reply)
    BY <2>1, <2>2 DEF SaveNew
  <2>3. CASE SaveFresh(w, list, reply)
    <3>1. /\ lists[req[w].title][req[w].row].version = req[w].list.version
          /\ <<req[w].title, req[w].row>> \notin DOMAIN txn
          /\ lists' = [lists EXCEPT ![req[w].title][req[w].row] = Saved(list)]
      BY <2>3 DEF SaveFresh
    <3>2. SameAt(req[w].list, List(req[w].title), clock)
      BY <1>1, <2>1, <3>1 DEF ExactInv, EverySaveExact, RequestsExact, Exact, List
    <3>3. list.version = req[w].list.version
      BY <1>2, <1>4, EditsKeep DEF Decided
    <3> QED BY <1>2, <1>3, <1>4, <2>1, <2>3, <3>1, <3>2, <3>3 DEF Replaces, List, SaveFresh
  <2>4. CASE SaveStale(w, reply)
    BY <1>2, <1>3, <2>4 DEF SaveStale, Request
  <2> QED BY <1>4, <2>2, <2>3, <2>4 DEF Save
<1>5. SoundInv
  BY DEF SoundInv, ExactInv, Inv
<1>6. PICK reply : \/ AnswerOnly(w, reply)
                   \/ \E list \in ResourceChargeList :
                        Decided(w, list) /\ Save(w, list, reply)
  BY <1>5, ActDecides
<1>7. CASE AnswerOnly(w, reply)
  BY <1>1, <1>3, <1>7 DEF AnswerOnly
<1> QED BY <1>1, <1>4, <1>6, <1>7

\* That save makes the row newer and leaves all others as they are.
LEMMA ReplacedRows ==
    ASSUME ExactInv, NEW w \in Workers, NEW list, Replaces(w, list)
    PROVE  /\ RowsGrow
           /\ OneRow' /\ \A t \in Titles : Row(t)' = Row(t)
           /\ \A k \in DOMAIN txn : lists'[k[1]][k[2]] = lists[k[1]][k[2]]
           /\ \A t \in Titles \ {req[w].title} : List(t)' = List(t)
           /\ \A t \in Titles : t = req[w].title => List(t)' = Saved(list)
<1> DEFINE t0 == req[w].title
           s0 == Row(t0)
<1>1. /\ t0 \in Titles /\ s0 \in Slots /\ <<t0, s0>> \notin DOMAIN txn
      /\ lists[t0][s0].version \in Nat /\ lists[t0][s0].version > 0
      /\ Saved(list).version = lists[t0][s0].version + 1
      /\ lists \in [Titles -> [Slots -> ResourceChargeList]]
  BY SavedEdit DEF Replaces, List, ExactInv, Inv, Typed, TypeOK, EverySaveExact, OneRow,
                   ResourceChargeList
<1>2. lists' = [lists EXCEPT ![t0][s0] = Saved(list)]
  BY DEF Replaces
<1> HIDE DEF s0
<1>3. \A t \in Titles, s \in Slots :
        lists'[t][s] = IF t = t0 /\ s = s0 THEN Saved(list) ELSE lists[t][s]
  BY <1>1, <1>2
<1>4. RowsGrow
  BY <1>1, <1>3 DEF RowsGrow
<1>5. OneRow' /\ \A t \in Titles : Row(t)' = Row(t)
  BY <1>1, <1>3, RowsStay DEF ExactInv, EverySaveExact
<1>6. \A k \in DOMAIN txn : lists'[k[1]][k[2]] = lists[k[1]][k[2]]
  <2> TAKE k \in DOMAIN txn
  <2>1. k[1] \in Titles /\ k[2] \in Slots /\ k = <<k[1], k[2]>>
    BY DEF ExactInv, Inv, Typed, TypeOK
  <2>2. ~(k[1] = t0 /\ k[2] = s0)
    BY <1>1, <2>1
  <2> QED BY <1>3, <2>1, <2>2
<1>7. \A t \in Titles : Row(t) \in Slots /\ List(t)' = lists'[t][Row(t)]
  BY <1>5 DEF List, ExactInv, EverySaveExact, OneRow
<1>8. \A t \in Titles \ {req[w].title} : List(t)' = List(t)
  BY <1>3, <1>7 DEF List
<1>9. \A t \in Titles : t = req[w].title => List(t)' = Saved(list)
  BY <1>3, <1>7 DEF s0
<1> QED BY <1>4, <1>5, <1>6, <1>8, <1>9

LEMMA ActExact ==
    ASSUME ExactInv, Typed', NEW w \in Workers, Act(w)
    PROVE  EverySaveExact'
<1>1. /\ \A v \in Workers : req'[v] = req[v] \/ req'[v].pc # "loaded"
      /\ UNCHANGED <<clock, items, batch, txn, mails>>
      /\ UNCHANGED lists \/ \E list : Decided(w, list) /\ Replaces(w, list)
  BY ActReplaces
<1>2. CASE UNCHANGED lists
  BY <1>1, <1>2, ElsewhereExact
<1>3. ASSUME NEW list, Replaces(w, list) PROVE EverySaveExact'
  BY <1>1, <1>3, ReplacedRows, RequestsStayExact, BatchStaysExact DEF EverySaveExact
<1> QED BY <1>1, <1>2, <1>3

\* A loaded list is that of the row.
LEMMA LoadExact ==
    ASSUME ExactInv, Typed', NEW w \in Workers, NEW op, NEW p, NEW t \in Titles, NEW n,
           Load(w, op, p, t, n)
    PROVE  EverySaveExact'
<1>1. PICK row \in Slots \cup {NewRow} :
        /\ FirstRow(lists[t], row)
        /\ req' = [req EXCEPT ![w] =
             [pc |-> "loaded", op |-> op, netid |-> p, title |-> t,
              attempt |-> n, row |-> row, list |-> Loaded(lists[t], row),
              reply |-> "none"]]
        /\ UNCHANGED <<clock, items, lists, batch, txn, mails>>
  BY DEF Load
<1>2. row = Row(t) /\ row \in Slots /\ row # NewRow /\ List(t) = lists[t][row]
  <2>1. Row(t) \in Slots /\ lists[t][Row(t)].version > 0
    BY DEF ExactInv, EverySaveExact, OneRow
  <2>2. lists[t][Row(t)].version # 0
    BY <2>1
  <2>3. row \in Slots /\ lists[t][row].version > 0
    BY <1>1, <2>1, <2>2 DEF FirstRow
  <2> QED BY <2>3, LendingAssumption DEF ExactInv, EverySaveExact, OneRow, List
<1>3. lists[t][row] \in ResourceChargeList
  BY <1>2 DEF ExactInv, Inv, Typed, TypeOK
<1>4. SameAt(Loaded(lists[t], row), lists[t][row], clock)
  BY <1>2, <1>3 DEF Loaded, SameAt, ClearExpiredCharges, ResourceChargeList
<1>5. OneRow' /\ \A u \in Titles : Row(u)' = Row(u)
  BY <1>1, RowsStay DEF ExactInv, EverySaveExact
<1>6. \A u \in Titles : List(u)' = List(u)
  BY <1>1, <1>5 DEF List
<1>7. RequestsExact'
  <2> SUFFICES ASSUME NEW v \in Workers, req'[v].pc = "loaded"
               PROVE  (req[v].row = Row(req[v].title) /\ Exact(req[v].list, List(req[v].title)))'
    BY DEF RequestsExact
  <2>1. CASE v = w
    <3>1. /\ req'[v].row = row /\ req'[v].title = t
          /\ req'[v].list = Loaded(lists[t], row)
      BY <1>1, <2>1 DEF ExactInv, Inv, Typed, TypeOK
    <3> QED BY <1>1, <1>2, <1>4, <1>5, <1>6, <3>1 DEF Exact
  <2>2. CASE v # w
    <3>1. req'[v] = req[v]
      BY <1>1, <2>2 DEF ExactInv, Inv, Typed, TypeOK
    <3>2. req[v].title \in Titles /\ req[v].row = Row(req[v].title)
          /\ Exact(req[v].list, List(req[v].title))
      BY <3>1 DEF ExactInv, Inv, Typed, Addressed, EverySaveExact, RequestsExact
    <3> QED BY <1>1, <1>5, <1>6, <3>1, <3>2 DEF Exact
  <2> QED BY <2>1, <2>2
<1>8. RowsGrow
  BY <1>1 DEF RowsGrow
<1> QED BY <1>1, <1>5, <1>7, <1>8, BatchStaysExact DEF EverySaveExact

\* Steps of the cron job that commit nothing leave the requests' lists exact.
LEMMA RowsAlone ==
    ASSUME ExactInv, Typed', UNCHANGED <<clock, lists, req>>
    PROVE  OneRow' /\ RequestsExact' /\ \A t \in Titles : Row(t)' = Row(t)
<1>1. OneRow' /\ \A t \in Titles : Row(t)' = Row(t)
  BY RowsStay DEF ExactInv, EverySaveExact
<1>2. RowsGrow
  BY DEF RowsGrow
<1> QED BY <1>1, <1>2, RequestsStayExact

LEMMA TxnStaysServed ==
    ASSUME ExactInv, UNCHANGED <<clock, lists, txn>>,
           InUse' => InHand' \notin DOMAIN txn \/ (InUse /\ InHand' = InHand)
    PROVE  TxnServed'
BY DEF ExactInv, EverySaveExact, TxnServed

\* What the cron job's transaction sees has a token just when the row has one.
LEMMA TxnRowsSaved ==
    ASSUME ExactInv, NEW t \in Titles, NEW s \in Slots
    PROVE  /\ TxnRows(t)[s].version > 0 <=> lists[t][s].version > 0
           /\ TxnRows(t)[s] = IF <<t, s>> \in DOMAIN txn THEN txn[<<t, s>>] ELSE lists[t][s]
<1>1. TxnRows(t)[s] = IF <<t, s>> \in DOMAIN txn THEN txn[<<t, s>>] ELSE lists[t][s]
  BY DEF TxnRows
<1>2. ASSUME <<t, s>> \in DOMAIN txn
      PROVE  txn[<<t, s>>].version > 0 /\ lists[t][s].version > 0
  <2>1. txn[<<t, s>>].version \in Nat /\ lists[t][s].version \in Nat
    BY <1>2 DEF ExactInv, Inv, Typed, TypeOK, ResourceChargeList
  <2>2. 0 < lists[t][s].version /\ lists[t][s].version < txn[<<t, s>>].version
    BY <1>2 DEF ExactInv, Inv, TokensTell, TxnKeepsCharges
  <2> QED BY <2>1, <2>2
<1> QED BY <1>1, <1>2

LEMMA BatchStartExact ==
    ASSUME ExactInv, Typed', BatchStart
    PROVE  EverySaveExact'
<1>1. /\ UNCHANGED <<clock, lists, req, txn>> /\ ~InUse' /\ batch'.pc = "next"
      /\ batch'.todo = HeldLists /\ DOMAIN txn = {}
  BY DEF BatchStart, IdleBatch, InUse, ExactInv, EverySaveExact, BatchOnce
<1>2. OneRow' /\ RequestsExact' /\ \A t \in Titles : Row(t)' = Row(t)
  BY <1>1, RowsAlone
<1>3. ASSUME NEW k \in HeldLists PROVE k[1] \in Titles /\ k[2] = Row(k[1])
  <2>1. k[1] \in Titles /\ k[2] \in Slots /\ lists[k[1]][k[2]] # UnsavedList
    BY DEF HeldLists, UnsavedList
  <2>2. lists[k[1]][k[2]].version \in Nat
    BY <2>1 DEF ExactInv, Inv, Typed, TypeOK, ResourceChargeList
  <2>3. lists[k[1]][k[2]].version > 0
    BY <2>1, <2>2 DEF ExactInv, Inv, TokensTell, UnsavedRowsEmpty
  <2> QED BY <2>1, <2>3 DEF ExactInv, EverySaveExact, OneRow
<1>4. BatchOnce' /\ BatchExact'
  BY <1>1, <1>2, <1>3 DEF BatchOnce, BatchExact, InUse
<1>5. TxnServed'
  BY <1>1, TxnStaysServed
<1> QED BY <1>2, <1>4, <1>5 DEF EverySaveExact

LEMMA BatchLoadExact ==
    ASSUME ExactInv, Typed', BatchLoad
    PROVE  EverySaveExact'
<1>1. PICK k \in batch.todo, row \in Slots :
        /\ FirstRow(TxnRows(k[1]), row)
        /\ batch' = [batch EXCEPT !.pc = "loaded", !.todo = @ \ {k},
                       !.title = k[1], !.row = row, !.list = Loaded(TxnRows(k[1]), row)]
  BY DEF BatchLoad
<1> DEFINE rows == TxnRows(k[1])
<1>2. /\ UNCHANGED <<clock, lists, req, txn>> /\ batch \in Batch /\ clock \in Nat
      /\ k \in Titles \X Slots /\ k[1] \in Titles /\ k[2] \in Slots
      /\ k[2] = Row(k[1]) /\ k \notin DOMAIN txn
  BY DEF BatchLoad, ExactInv, Inv, Typed, TypeOK, Batch, EverySaveExact, BatchOnce
<1>3. OneRow' /\ RequestsExact' /\ \A t \in Titles : Row(t)' = Row(t)
  BY <1>2, RowsAlone
<1>4. row # NewRow /\ rows[row].version > 0 /\ rows \in [Slots -> ResourceChargeList]
  BY <1>1, <1>2, LendingAssumption, TxnRowsType DEF FirstRow, ExactInv, Inv, Typed
<1>5. row = Row(k[1])
  BY <1>2, <1>4, TxnRowsSaved DEF ExactInv, EverySaveExact, OneRow
<1>6. SameAt(Loaded(rows, row), rows[row], clock)
  BY <1>4 DEF Loaded, SameAt, ClearExpiredCharges, ResourceChargeList
<1>7. /\ batch'.title = k[1] /\ batch'.row = row /\ batch'.list = Loaded(rows, row)
      /\ batch'.pc = "loaded" /\ batch'.todo = batch.todo \ {k}
  BY <1>1, <1>2 DEF Batch
<1>8. InHand' = k
  BY <1>2, <1>5, <1>7 DEF InHand
<1>9. BatchExact'
  <2>1. TxnRows(k[1])' = rows
    BY <1>2 DEF TxnRows
  <2>2. Row(k[1])' = row
    BY <1>2, <1>3, <1>5
  <2> SUFFICES (batch.row = Row(batch.title) /\ Exact(batch.list, TxnRows(batch.title)[batch.row]))'
    BY DEF BatchExact
  <2> HIDE DEF rows
  <2> QED BY <1>2, <1>6, <1>7, <2>1, <2>2 DEF Exact
<1>10. BatchOnce'
  <2>1. \A j \in batch.todo : j[1] \in Titles /\ j[2] = Row(j[1]) /\ j \notin DOMAIN txn
    BY <1>2 DEF Batch, ExactInv, EverySaveExact, BatchOnce
  <2> QED BY <1>2, <1>3, <1>7, <1>8, <2>1 DEF BatchOnce
<1>11. TxnServed'
  BY <1>2, <1>8, TxnStaysServed
<1> QED BY <1>3, <1>9, <1>10, <1>11 DEF EverySaveExact

LEMMA RollBackExact ==
    ASSUME ExactInv, Typed', RollBack, UNCHANGED <<clock, lists, req>>
    PROVE  EverySaveExact'
<1>1. DOMAIN txn' = {} /\ ~InUse' /\ batch'.todo = {} /\ batch'.pc = "idle"
  BY IdleTypes DEF RollBack, IdleBatch, InUse
<1>2. BatchExact' /\ BatchOnce' /\ TxnServed'
  BY <1>1 DEF BatchExact, BatchOnce, TxnServed
<1> QED BY <1>2, RowsAlone DEF EverySaveExact

\* A write of the cron job that serves a row.
LEMMA WriteServed ==
    ASSUME ExactInv, InUse, UNCHANGED <<clock, lists>>, NEW list, WriteRow(list),
           ClearExpiredCharges(list, clock).charged_items
             = ClearExpiredCharges(lists[batch.title][batch.row], clock).charged_items,
           NEW n \in Nat, NEW until \in Nat \ {0},
           Served(list, lists[batch.title][batch.row], n, until, clock),
           InUse' => n = 0 /\ InHand' = InHand
    PROVE  TxnServed'
<1>1. /\ DOMAIN txn' = DOMAIN txn \cup {InHand}
      /\ \A k \in DOMAIN txn' : txn'[k] = IF k = InHand THEN list ELSE txn[k]
  BY DEF WriteRow, InHand
<1>2. InHand[1] = batch.title /\ InHand[2] = batch.row
  BY DEF InHand
<1> SUFFICES ASSUME NEW k \in DOMAIN txn'
             PROVE  /\ ClearExpiredCharges(txn'[k], clock).charged_items
                         = ClearExpiredCharges(lists[k[1]][k[2]], clock).charged_items
                    /\ \E m \in Nat, u \in Nat \ {0} :
                         /\ Served(txn'[k], lists[k[1]][k[2]], m, u, clock)
                         /\ InUse' /\ k = InHand' => m = 0
  BY DEF TxnServed
<1>3. CASE k = InHand
  BY <1>1, <1>2, <1>3
<1>4. CASE k # InHand
  <2>1. k \in DOMAIN txn /\ txn'[k] = txn[k]
    BY <1>1, <1>4
  <2> QED BY <1>4, <2>1 DEF ExactInv, EverySaveExact, TxnServed
<1> QED BY <1>3, <1>4

LEMMA FirstNone ==
    ASSUME NEW holds, IsFiniteSet(holds)
    PROVE  FirstHolds(holds, 0) = {}
<1> SUFFICES ASSUME NEW h \in holds
             PROVE  ~(Cardinality({g \in holds : g.place < h.place}) < 0)
  BY DEF FirstHolds
<1> DEFINE ahead == {g \in holds : g.place < h.place}
<1>1. IsFiniteSet(ahead)
  BY FS_Subset
<1> HIDE DEF ahead
<1>2. Cardinality(ahead) \in Nat
  BY <1>1, FS_CardinalityType
<1>3. ~(Cardinality(ahead) < 0)
  BY <1>2
<1> QED BY <1>3 DEF ahead

\* What the cron job has in hand, when its token matches: the row, less some holds
\* that have expired.
LEMMA InHandIs ==
    ASSUME ExactInv, InUse, BatchTokenMatches
    PROVE  LET row == lists[batch.title][batch.row]
               list == batch.list
           IN  /\ row \in ResourceChargeList /\ list \in ResourceChargeList
               /\ ListSound(row, batch.title, clock, mails)
               /\ ListSound(list, batch.title, clock, mails)
               /\ ClearExpiredCharges(list, clock).charged_items
                    = ClearExpiredCharges(row, clock).charged_items
               /\ \E gone \in SUBSET ExpiredHolds(row, clock) :
                    list.hold_queue = row.hold_queue \ gone
               /\ InHand \notin DOMAIN txn => list.hold_queue = row.hold_queue
<1> DEFINE row == lists[batch.title][batch.row]
           list == batch.list
           seen == TxnRows(batch.title)[batch.row]
<1>1. batch.title \in Titles /\ batch.row \in Slots
  BY DEF ExactInv, Inv, Typed, Addressed
<1>2. /\ row \in ResourceChargeList /\ list \in ResourceChargeList
      /\ ListSound(row, batch.title, clock, mails)
      /\ ListSound(list, batch.title, clock, mails)
  BY <1>1 DEF ExactInv, Inv, Typed, TypeOK, Batch, EveryListSound
<1>3. SameAt(list, seen, clock)
  BY DEF BatchTokenMatches, ExactInv, EverySaveExact, BatchExact, Exact
<1>4. seen = IF InHand \in DOMAIN txn THEN txn[InHand] ELSE row
  BY <1>1, TxnRowsSaved DEF InHand
<1>5. CASE InHand \notin DOMAIN txn
  <2>1. {} \in SUBSET ExpiredHolds(row, clock) /\ row.hold_queue = row.hold_queue \ {}
    OBVIOUS
  <2> QED BY <1>2, <1>3, <1>4, <1>5, <2>1 DEF SameAt
<1>6. CASE InHand \in DOMAIN txn
  <2>0. InHand[1] = batch.title /\ InHand[2] = batch.row
    BY DEF InHand
  <2>1. /\ ClearExpiredCharges(txn[InHand], clock).charged_items
             = ClearExpiredCharges(row, clock).charged_items
        /\ \E until : Served(txn[InHand], row, 0, until, clock)
    BY <1>6, <2>0 DEF ExactInv, EverySaveExact, TxnServed
  <2>2. FirstHolds(PendingHolds(row), 0) = {}
    <3>1. IsFiniteSet(PendingHolds(row))
      BY <1>2, FS_Subset DEF ListSound, PendingHolds
    <3> QED BY <3>1, FirstNone
  <2>3. PICK gone \in SUBSET ExpiredHolds(row, clock) :
               txn[InHand].hold_queue = row.hold_queue \ gone
    BY <2>1, <2>2 DEF Served
  <2> QED BY <1>2, <1>3, <1>4, <1>6, <2>1, <2>3 DEF SameAt
<1> QED BY <1>5, <1>6

LEMMA BatchExpireExact ==
    ASSUME ExactInv, Typed', BatchExpire
    PROVE  EverySaveExact'
<1> DEFINE gone == ExpiredHolds(batch.list, clock)
           row == lists[batch.title][batch.row]
           edit == WithoutExpiredHolds(batch.list, clock)
           list == Saved(edit)
<1>1. /\ UNCHANGED <<clock, lists, req>> /\ InUse /\ batch \in Batch
      /\ batch.pc = "loaded" /\ InHand \notin DOMAIN txn
      /\ batch.title \in Titles /\ batch.row \in Slots
  BY DEF BatchExpire, InUse, ExactInv, Inv, Typed, TypeOK, Addressed, EverySaveExact, BatchOnce
<1>2. OneRow' /\ RequestsExact' /\ \A t \in Titles : Row(t)' = Row(t)
  BY <1>1, RowsAlone
<1>3. /\ batch.row = Row(batch.title)
      /\ Exact(batch.list, TxnRows(batch.title)[batch.row])
      /\ \A k \in batch.todo : k[1] \in Titles /\ k[2] = Row(k[1]) /\ k \notin DOMAIN txn
      /\ InHand \notin batch.todo
  BY <1>1 DEF ExactInv, EverySaveExact, BatchExact, BatchOnce, Batch
<1>4. CASE gone = {}
  <2>1. batch' = [batch EXCEPT !.pc = "expired"] /\ UNCHANGED txn
    BY <1>4 DEF BatchExpire
  <2>2. /\ batch'.title = batch.title /\ batch'.row = batch.row /\ batch'.list = batch.list
        /\ batch'.todo = batch.todo /\ InHand' = InHand /\ batch'.pc = "expired"
    BY <1>1, <2>1 DEF Batch, InHand
  <2>3. TxnRows(batch.title)' = TxnRows(batch.title)
    BY <1>1, <2>1, <2>2 DEF TxnRows
  <2>4. Row(batch.title)' = Row(batch.title)
    BY <1>1, <1>2, <2>2
  <2>5. BatchExact'
    <3> SUFFICES (batch.row = Row(batch.title) /\ Exact(batch.list, TxnRows(batch.title)[batch.row]))'
      BY DEF BatchExact
    <3> QED BY <1>1, <1>3, <2>2, <2>3, <2>4 DEF Exact
  <2>6. BatchOnce'
    BY <1>2, <1>3, <2>1, <2>2 DEF BatchOnce
  <2>7. TxnServed'
    BY <1>1, <2>1, <2>2, TxnStaysServed
  <2> QED BY <1>2, <2>5, <2>6, <2>7 DEF EverySaveExact
<1>5. CASE gone # {} /\ BatchTokenMatches
  <2>1. batch' = [batch EXCEPT !.pc = "expired", !.list = list] /\ WriteRow(list)
    BY <1>5 DEF BatchExpire
  <2>2. /\ batch'.title = batch.title /\ batch'.row = batch.row /\ batch'.list = list
        /\ batch'.todo = batch.todo /\ InHand' = InHand /\ batch'.pc = "expired"
    BY <1>1, <2>1 DEF Batch, InHand
  <2>3. /\ row \in ResourceChargeList /\ batch.list \in ResourceChargeList
        /\ batch.list.hold_queue = row.hold_queue
        /\ ClearExpiredCharges(batch.list, clock).charged_items
             = ClearExpiredCharges(row, clock).charged_items
        /\ IsFiniteSet(row.hold_queue)
    BY <1>1, <1>5, InHandIs DEF ListSound
  <2>4. /\ edit \in ResourceChargeList /\ list \in ResourceChargeList
        /\ list.charged_items = batch.list.charged_items
        /\ list.hold_queue = row.hold_queue \ ExpiredHolds(row, clock)
    BY <2>3, SavedEdit DEF WithoutExpiredHolds, PendingOrActiveHolds, ExpiredHolds,
                           ResourceChargeList, Saved
  <2>5. ClearExpiredCharges(list, clock).charged_items
          = ClearExpiredCharges(row, clock).charged_items
    <3>1. ClearExpiredCharges(list, clock).charged_items
            = ClearExpiredCharges(batch.list, clock).charged_items
      BY <2>4 DEF ClearExpiredCharges, ResourceChargeList
    <3> QED BY <2>3, <3>1
  <2>6. FirstHolds(PendingHolds(row), 0) = {}
    <3>1. IsFiniteSet(PendingHolds(row))
      BY <2>3, FS_Subset DEF PendingHolds
    <3> QED BY <3>1, FirstNone
  <2>7. Served(list, row, 0, 1, clock)
    BY <2>4, <2>6 DEF Served
  <2> HIDE DEF list, edit, row
  <2>8. TxnServed'
    BY <1>1, <2>1, <2>2, <2>5, <2>7, WriteServed DEF row
  <2>9. BatchExact'
    <3>1. TxnRows(batch.title)'[batch'.row] = list
      BY <1>1, <2>1, <2>2 DEF TxnRows, WriteRow
    <3>2. Row(batch.title)' = Row(batch.title)
      BY <1>1, <1>2, <2>2
    <3> SUFFICES (batch.row = Row(batch.title) /\ Exact(batch.list, TxnRows(batch.title)[batch.row]))'
      BY DEF BatchExact
    <3> QED BY <1>3, <2>2, <3>1, <3>2 DEF Exact, SameAt
  <2>10. BatchOnce'
    <3>1. DOMAIN txn' = DOMAIN txn \cup {InHand}
      BY <2>1 DEF WriteRow, InHand
    <3> QED BY <1>2, <1>3, <2>2, <3>1 DEF BatchOnce
  <2> QED BY <1>2, <2>8, <2>9, <2>10 DEF EverySaveExact
<1>6. CASE gone # {} /\ ~BatchTokenMatches
  <2>1. RollBack
    BY <1>6 DEF BatchExpire
  <2> QED BY <1>1, <2>1, RollBackExact
<1> QED BY <1>4, <1>5, <1>6

\* What is activated are the first of those who wait in the row.
LEMMA ActivateServes ==
    ASSUME ExactInv, InUse, BatchTokenMatches, NEW copies \in SUBSET Items,
           ~TooManyActiveHolds(batch.list, copies, clock)
    PROVE  LET row == lists[batch.title][batch.row]
               chosen == HoldsToActivate(batch.list, copies, clock)
               list == Saved(WithActivated(batch.list, chosen, clock))
           IN  /\ ClearExpiredCharges(list, clock).charged_items
                    = ClearExpiredCharges(row, clock).charged_items
               /\ \E n \in Nat : Served(list, row, n, clock + HoldPeriod, clock)
<1> DEFINE row == lists[batch.title][batch.row]
           held == batch.list
           chosen == HoldsToActivate(held, copies, clock)
           edit == WithActivated(held, chosen, clock)
           list == Saved(edit)
           n == Cardinality(AvailableItemIds(held, copies)) - Cardinality(ActiveHolds(held, clock))
<1>1. /\ row \in ResourceChargeList /\ held \in ResourceChargeList /\ clock \in Nat
      /\ OneBorrowerPerCopy(held) /\ IsFiniteSet(held.hold_queue)
      /\ ClearExpiredCharges(held, clock).charged_items
           = ClearExpiredCharges(row, clock).charged_items
  BY InHandIs DEF ListSound, ExactInv, Inv, Typed, TypeOK
<1>2. PICK gone \in SUBSET ExpiredHolds(row, clock) : held.hold_queue = row.hold_queue \ gone
  BY InHandIs
<1>3. PendingHolds(held) = PendingHolds(row)
  BY <1>2 DEF PendingHolds, ExpiredHolds, HoldExpired
<1>4. n \in Nat
  <2>1. IsFiniteSet(AvailableItemIds(held, copies)) /\ IsFiniteSet(ActiveHolds(held, clock))
    BY <1>1, LentAndAvailable, FS_Subset DEF ActiveHolds
  <2>2. /\ Cardinality(AvailableItemIds(held, copies)) \in Nat
        /\ Cardinality(ActiveHolds(held, clock)) \in Nat
    BY <2>1, FS_CardinalityType
  <2>3. ~(Cardinality(AvailableItemIds(held, copies)) < Cardinality(ActiveHolds(held, clock)))
    BY DEF TooManyActiveHolds
  <2> QED BY <2>2, <2>3
<1>5. chosen = FirstHolds(PendingHolds(row), n)
  BY <1>3 DEF HoldsToActivate
<1>6. chosen \subseteq held.hold_queue
  BY DEF HoldsToActivate, FirstHolds, PendingHolds
<1> HIDE DEF n, chosen
<1>7. /\ edit \in ResourceChargeList /\ edit.charged_items = held.charged_items
      /\ edit.hold_queue = (held.hold_queue \ chosen)
           \cup {[h EXCEPT !.expiration_time = clock + HoldPeriod] : h \in chosen}
  <2>1. edit \in ResourceChargeList /\ edit.charged_items = held.charged_items
    BY <1>1, <1>6, ActivationEdit
  <2>2. edit.hold_queue = (held.hold_queue \ chosen)
           \cup {[h EXCEPT !.expiration_time = clock + HoldPeriod] : h \in chosen}
    BY <1>1 DEF WithActivated, ResourceChargeList
  <2> QED BY <2>1, <2>2
<1> HIDE DEF edit
<1>8. /\ list \in ResourceChargeList /\ list.charged_items = held.charged_items
      /\ list.hold_queue = edit.hold_queue
  BY <1>7, SavedEdit DEF Saved, ResourceChargeList
<1>9. ClearExpiredCharges(list, clock).charged_items
        = ClearExpiredCharges(row, clock).charged_items
  <2> HIDE DEF list, edit
  <2>1. ClearExpiredCharges(list, clock).charged_items
          = ClearExpiredCharges(held, clock).charged_items
    BY <1>1, <1>8 DEF ClearExpiredCharges, ResourceChargeList
  <2> QED BY <1>1, <2>1
<1> DEFINE active == {[h EXCEPT !.expiration_time = clock + HoldPeriod] : h \in chosen}
<1>10. list.hold_queue = (row.hold_queue \ (gone \cup chosen)) \cup active
  <2>1. list.hold_queue = (held.hold_queue \ chosen) \cup active
    BY <1>7, <1>8
  <2> HIDE DEF active, list
  <2> QED BY <1>2, <2>1
<1>11. Served(list, row, n, clock + HoldPeriod, clock)
  BY <1>5, <1>10 DEF Served
<1> QED BY <1>4, <1>9, <1>11 DEF edit, chosen

LEMMA BatchActivateExact ==
    ASSUME ExactInv, Typed', BatchActivate
    PROVE  EverySaveExact'
<1> DEFINE copies == items[batch.title]
           chosen == HoldsToActivate(batch.list, copies, clock)
           list == Saved(WithActivated(batch.list, chosen, clock))
           told == Notices("activated", list.hold_queue \ batch.list.hold_queue)
<1>1. /\ UNCHANGED <<clock, lists, req>> /\ InUse /\ batch \in Batch /\ clock \in Nat
      /\ batch.title \in Titles /\ batch.row \in Slots /\ copies \in SUBSET Items
  BY DEF BatchActivate, InUse, ExactInv, Inv, Typed, TypeOK, Addressed
<1>2. OneRow' /\ RequestsExact' /\ \A t \in Titles : Row(t)' = Row(t)
  BY <1>1, RowsAlone
<1>3. /\ \A k \in batch.todo : k[1] \in Titles /\ k[2] = Row(k[1]) /\ k \notin DOMAIN txn
      /\ InHand \notin batch.todo
  BY <1>1 DEF ExactInv, EverySaveExact, BatchOnce, Batch
<1>4. ASSUME batch' = [batch EXCEPT !.pc = "next"], DOMAIN txn' \subseteq DOMAIN txn \cup {InHand}
      PROVE  BatchExact' /\ BatchOnce' /\ ~InUse'
  <2>1. batch'.pc = "next" /\ batch'.todo = batch.todo
    BY <1>1, <1>4 DEF Batch
  <2> QED BY <1>2, <1>3, <1>4, <2>1 DEF BatchExact, BatchOnce, InUse
<1>5. CASE batch' = [batch EXCEPT !.pc = "next"] /\ UNCHANGED txn
  <2>1. TxnServed'
    BY <1>1, <1>4, <1>5, TxnStaysServed
  <2> QED BY <1>2, <1>4, <1>5, <2>1 DEF EverySaveExact
<1>6. CASE RollBack
  BY <1>1, <1>6, RollBackExact
<1>7. CASE /\ ~TooManyActiveHolds(batch.list, copies, clock) /\ BatchTokenMatches
           /\ StoreActivated(list, told)
  <2>1. WriteRow(list) /\ batch' = [batch EXCEPT !.pc = "next"]
    BY <1>7 DEF StoreActivated
  <2>2. DOMAIN txn' \subseteq DOMAIN txn \cup {InHand}
    BY <2>1 DEF WriteRow, InHand
  <2>3. /\ ClearExpiredCharges(list, clock).charged_items
             = ClearExpiredCharges(lists[batch.title][batch.row], clock).charged_items
        /\ \E n \in Nat : Served(list, lists[batch.title][batch.row], n, clock + HoldPeriod, clock)
    BY <1>1, <1>7, ActivateServes
  <2>4. clock + HoldPeriod \in Nat \ {0}
    BY <1>1, PeriodAssumption
  <2> HIDE DEF list
  <2>5. TxnServed'
    BY <1>1, <1>4, <2>1, <2>2, <2>3, <2>4, WriteServed
  <2> QED BY <1>2, <1>4, <2>1, <2>2, <2>5 DEF EverySaveExact
<1> QED BY <1>5, <1>6, <1>7 DEF BatchActivate

\* What a commit does to the rows.
LEMMA CommittedRows ==
    ASSUME ExactInv, BatchCommit
    PROVE  /\ RowsGrow
           /\ OneRow' /\ \A t \in Titles : Row(t)' = Row(t)
           /\ \A t \in Titles :
                \/ List(t)' = List(t)
                \/ /\ <<t, Row(t)>> \in DOMAIN txn
                   /\ List(t)' = txn[<<t, Row(t)>>]
<1>1. \A t \in Titles, s \in Slots :
        lists'[t][s] = IF <<t, s>> \in DOMAIN txn THEN txn[<<t, s>>] ELSE lists[t][s]
  BY DEF BatchCommit, TxnRows
<1>2. \A t \in Titles, s \in Slots : <<t, s>> \in DOMAIN txn =>
        /\ lists[t][s].version > 0 /\ txn[<<t, s>>].version > lists[t][s].version
        /\ txn[<<t, s>>].version > 0
  <2> TAKE t \in Titles, s \in Slots
  <2> HAVE <<t, s>> \in DOMAIN txn
  <2>1. txn[<<t, s>>].version \in Nat /\ lists[t][s].version \in Nat
    BY DEF ExactInv, Inv, Typed, TypeOK, ResourceChargeList
  <2>2. 0 < lists[t][s].version /\ lists[t][s].version < txn[<<t, s>>].version
    BY DEF ExactInv, Inv, TokensTell, TxnKeepsCharges
  <2> QED BY <2>1, <2>2
<1>3. RowsGrow
  BY <1>1, <1>2 DEF RowsGrow
<1>4. OneRow' /\ \A t \in Titles : Row(t)' = Row(t)
  BY <1>1, <1>2, RowsStay DEF ExactInv, EverySaveExact
<1>5. \A t \in Titles : Row(t) \in Slots /\ List(t)' = lists'[t][Row(t)]
  BY <1>4 DEF List, ExactInv, EverySaveExact, OneRow
<1> QED BY <1>1, <1>3, <1>4, <1>5 DEF List

LEMMA BatchCommitExact ==
    ASSUME ExactInv, Typed', BatchCommit
    PROVE  EverySaveExact'
<1>1. /\ UNCHANGED <<clock, req>> /\ DOMAIN txn' = {} /\ ~InUse' /\ batch'.todo = {}
      /\ batch'.pc = "idle"
  BY IdleTypes DEF BatchCommit, IdleBatch, InUse
<1>2. BatchExact' /\ BatchOnce' /\ TxnServed'
  BY <1>1 DEF BatchExact, BatchOnce, TxnServed
<1> QED BY <1>1, <1>2, CommittedRows, RequestsStayExact DEF EverySaveExact

LEMMA TickExact ==
    ASSUME ExactInv, Typed', Tick
    PROVE  EverySaveExact'
<1>1. /\ clock' = clock + 1 /\ clock \in Nat /\ UNCHANGED <<lists, req, batch, txn>>
  BY DEF Tick, ExactInv, Inv, Typed, TypeOK
<1>2. OneRow' /\ \A t \in Titles : Row(t)' = Row(t)
  BY <1>1, RowsStay DEF ExactInv, EverySaveExact
<1>3. \A t \in Titles : List(t)' = List(t) /\ List(t) \in ResourceChargeList
  BY <1>1, <1>2 DEF List, ExactInv, Inv, Typed, TypeOK, EverySaveExact, OneRow
<1>4. ASSUME NEW list \in ResourceChargeList, NEW row \in ResourceChargeList, Exact(list, row)
      PROVE  list.version = row.version => SameAt(list, row, clock + 1)
  BY <1>1, <1>4, SameLater DEF Exact
<1>5. RequestsExact'
  <2> SUFFICES ASSUME NEW w \in Workers, req[w].pc = "loaded"
               PROVE  (req[w].row = Row(req[w].title) /\ Exact(req[w].list, List(req[w].title)))'
    BY <1>1 DEF RequestsExact
  <2>1. /\ req[w].title \in Titles /\ req[w].list \in ResourceChargeList
        /\ req[w].row = Row(req[w].title) /\ Exact(req[w].list, List(req[w].title))
    BY DEF ExactInv, Inv, Typed, TypeOK, Addressed, Request, EverySaveExact, RequestsExact
  <2> QED BY <1>1, <1>2, <1>3, <1>4, <2>1 DEF Exact
<1>6. BatchExact'
  <2> SUFFICES ASSUME InUse
               PROVE  (batch.row = Row(batch.title) /\ Exact(batch.list, TxnRows(batch.title)[batch.row]))'
    BY <1>1 DEF BatchExact, InUse
  <2> DEFINE seen == TxnRows(batch.title)[batch.row]
  <2>1. /\ batch.title \in Titles /\ batch.list \in ResourceChargeList
        /\ seen \in ResourceChargeList
        /\ batch.row = Row(batch.title) /\ Exact(batch.list, seen)
    BY TxnRowsType DEF ExactInv, Inv, Typed, TypeOK, Addressed, Batch, EverySaveExact, BatchExact
  <2>2. seen' = seen
    BY <1>1 DEF TxnRows
  <2> HIDE DEF seen
  <2>3. Exact(batch.list, seen)'
    BY <1>1, <1>4, <2>1, <2>2 DEF Exact
  <2>4. (batch.row = Row(batch.title))'
    BY <1>1, <1>2, <2>1
  <2> QED BY <2>3, <2>4 DEF seen
<1>7. BatchOnce'
  <2>1. \A k \in batch.todo : k[1] \in Titles
    BY DEF ExactInv, Inv, Typed, TypeOK, Batch
  <2> QED BY <1>1, <1>2, <2>1 DEF ExactInv, EverySaveExact, BatchOnce, InUse, InHand
<1>8. TxnServed'
  <2> SUFFICES ASSUME NEW k \in DOMAIN txn
               PROVE  /\ ClearExpiredCharges(txn[k], clock + 1).charged_items
                           = ClearExpiredCharges(lists[k[1]][k[2]], clock + 1).charged_items
                      /\ \E n \in Nat, until \in Nat \ {0} :
                           /\ Served(txn[k], lists[k[1]][k[2]], n, until, clock)'
                           /\ InUse /\ k = InHand => n = 0
    BY <1>1 DEF TxnServed, InUse, InHand
  <2> DEFINE row == lists[k[1]][k[2]]
  <2>1. row \in ResourceChargeList /\ txn[k] \in ResourceChargeList
    BY DEF ExactInv, Inv, Typed, TypeOK
  <2>2. ClearExpiredCharges(txn[k], clock).charged_items
          = ClearExpiredCharges(row, clock).charged_items
    BY DEF ExactInv, EverySaveExact, TxnServed
  <2>3. PICK n \in Nat, until \in Nat \ {0} :
          Served(txn[k], row, n, until, clock) /\ (InUse /\ k = InHand => n = 0)
    BY DEF ExactInv, EverySaveExact, TxnServed
  <2>4. ASSUME NEW base \in ResourceChargeList
        PROVE  ClearExpiredCharges(base, clock + 1).charged_items
                 = {c \in ClearExpiredCharges(base, clock).charged_items :
                      ~ChargeExpired(c, clock + 1)}
    <3>1. \A c \in base.charged_items :
            ChargeExpired(c, clock) => ChargeExpired(c, clock + 1)
      BY <1>1 DEF ResourceChargeList, ChargedItem, ChargeExpired
    <3> QED BY <3>1, LentOf
  <2>5. ExpiredHolds(row, clock) \subseteq ExpiredHolds(row, clock + 1)
    BY <1>1, <2>1 DEF ExpiredHolds, HoldExpired, ResourceChargeList, Hold
  <2>6. PICK gone \in SUBSET ExpiredHolds(row, clock) :
          LET chosen == FirstHolds(PendingHolds(row), n)
          IN  txn[k].hold_queue = (row.hold_queue \ (gone \cup chosen))
                  \cup {[h EXCEPT !.expiration_time = until] : h \in chosen}
    BY <2>3 DEF Served
  <2> HIDE DEF row
  <2>7. gone \in SUBSET ExpiredHolds(row, clock')
    BY <1>1, <2>5
  <2>8. Served(txn[k], row, n, until, clock)'
    <3>1. row' = row
      BY <1>1 DEF row
    <3> QED BY <1>1, <2>6, <2>7, <3>1 DEF Served
  <2> QED BY <2>1, <2>2, <2>3, <2>4, <2>8 DEF row
<1> QED BY <1>2, <1>5, <1>6, <1>7, <1>8 DEF EverySaveExact

LEMMA ExactInit == Borrowed = Titles /\ Init => ExactInv
<1> SUFFICES ASSUME Borrowed = Titles, Init PROVE ExactInv
  OBVIOUS
<1>1. PICK slot \in Slots :
        lists = [t \in Titles |-> [s \in Slots |->
                   IF t \in Borrowed /\ s = slot
                   THEN [UnsavedList EXCEPT !.version = 1] ELSE UnsavedList]]
  BY DEF Init
<1>2. \A t \in Titles, s \in Slots : lists[t][s].version = IF s = slot THEN 1 ELSE 0
  BY <1>1 DEF UnsavedList
<1>3. ASSUME NEW t \in Titles PROVE Row(t) = slot
  <2>1. lists[t][slot].version > 0 /\ \A s \in Slots : lists[t][s].version > 0 => s = slot
    BY <1>2
  <2> QED BY <2>1 DEF Row
<1>4. OneRow
  BY <1>2, <1>3 DEF OneRow
<1>5. RequestsExact /\ BatchExact /\ BatchOnce /\ TxnServed
  BY IdleTypes DEF Init, IdleRequest, IdleBatch, RequestsExact, BatchExact, BatchOnce, TxnServed, InUse
<1>6. Inv /\ EveryListSound
  BY InvInit, SoundInit DEF SoundInv
<1> QED BY <1>4, <1>5, <1>6 DEF ExactInv, EverySaveExact

LEMMA ExactStep == ExactInv /\ [Next]_vars => ExactInv'
<1> SUFFICES ASSUME ExactInv, [Next]_vars PROVE ExactInv'
  OBVIOUS
<1>0. Inv' /\ Typed' /\ EveryListSound'
  BY InvStep, SoundStep DEF ExactInv, Inv, SoundInv
<1> SUFFICES EverySaveExact'
  BY <1>0 DEF ExactInv
<1>1. ASSUME NEW w \in Workers, NEW op \in Ops, NEW p \in Patrons, NEW t \in Titles,
             Begin(w, op, p, t)
      PROVE  EverySaveExact'
  BY <1>0, <1>1, LoadExact DEF Begin
<1>2. ASSUME NEW w \in Workers, Retry(w) PROVE EverySaveExact'
  <2>1. req[w].title \in Titles
    BY <1>2 DEF Retry, ExactInv, Inv, Typed, Addressed
  <2> QED BY <1>0, <1>2, <2>1, LoadExact DEF Retry
<1>3. ASSUME NEW w \in Workers, Act(w) PROVE EverySaveExact'
  BY <1>0, <1>3, ActExact
<1>4. CASE BatchStart
  BY <1>0, <1>4, BatchStartExact
<1>5. CASE BatchLoad
  BY <1>0, <1>5, BatchLoadExact
<1>6. CASE BatchExpire
  BY <1>0, <1>6, BatchExpireExact
<1>7. CASE BatchActivate
  BY <1>0, <1>7, BatchActivateExact
<1>8. CASE BatchCommit
  BY <1>0, <1>8, BatchCommitExact
<1>9. CASE BatchCrash
  BY <1>0, <1>9, RollBackExact DEF BatchCrash
<1>10. CASE Tick
  BY <1>0, <1>10, TickExact
<1>11. ASSUME UNCHANGED <<clock, lists, req, batch, txn>> PROVE EverySaveExact'
  BY <1>0, <1>11, ElsewhereExact
<1>12. ASSUME NEW t \in Titles, NEW copies \in SUBSET Items, ChangeItems(t, copies)
       PROVE  EverySaveExact'
  BY <1>11, <1>12 DEF ChangeItems
<1>13. CASE UNCHANGED vars
  BY <1>11, <1>13 DEF vars
<1> QED BY <1>1, <1>2, <1>3, <1>4, <1>5, <1>6, <1>7, <1>8, <1>9, <1>10, <1>12, <1>13
        DEF Next, BatchStep

\* If every title has its charge list to begin with, whatever is saved was decided by
\* the very row it replaces (CDL::ResourceChargeList's optimistic locking).
THEOREM SavesAreExact == Borrowed = Titles => (Spec => []EverySaveExact)
<1> SUFFICES ASSUME Borrowed = Titles PROVE Spec => []EverySaveExact
  OBVIOUS
<1>1. Init => ExactInv
  BY ExactInit
<1>2. ExactInv /\ [Next]_vars => ExactInv'
  BY ExactStep
<1>3. ExactInv => EverySaveExact
  BY DEF ExactInv
<1> QED BY <1>1, <1>2, <1>3, PTL DEF Spec
-----------------------------------------------------------------------------
(***************************************************************************)
(* Holds                                                                   *)
(***************************************************************************)
LEMMA ActKeepsHolds ==
    ASSUME ExactInv, NEW w \in Workers, NEW list, Decided(w, list), Replaces(w, list)
    PROVE  HoldsKept
<1> DEFINE r == req[w]
           t0 == r.title
           s0 == Row(t0)
<1>1. /\ t0 \in Titles /\ r.list \in ResourceChargeList /\ list \in ResourceChargeList
      /\ r.list.hold_queue = lists[t0][s0].hold_queue
      /\ lists' = [lists EXCEPT ![t0][s0] = Saved(list)]
      /\ lists \in [Titles -> [Slots -> ResourceChargeList]]
  BY DEF Replaces, List, SameAt, ExactInv, Inv, Typed, TypeOK
<1>2. Saved(list).hold_queue = list.hold_queue /\ Saved(list).charged_items = list.charged_items
  BY <1>1, SavedEdit DEF Saved, ResourceChargeList
<1>3. ASSUME NEW h \in r.list.hold_queue, h \notin list.hold_queue
      PROVE  ActiveCharge(list, h.netid)
  <2>1. CASE \E item : list = WithCharge(r.list, r.netid, item, clock)
    <3>1. PICK item : list = WithCharge(r.list, r.netid, item, clock)
      BY <2>1
    <3> DEFINE new == [item_id |-> item, netid |-> r.netid, expiration_time |-> clock + ChargePeriod]
    <3>2. /\ list.hold_queue = {g \in r.list.hold_queue : g.netid # r.netid}
          /\ new \in list.charged_items /\ new.netid = r.netid
      BY <1>1, <3>1 DEF WithCharge, ResourceChargeList
    <3> HIDE DEF new
    <3>3. h.netid = r.netid
      BY <1>3, <3>2
    <3> QED BY <3>2, <3>3 DEF ActiveCharge
  <2>2. CASE list = WithHold(r.list, r.netid) \/ list = WithoutCharges(r.list, r.netid)
    BY <1>1, <1>3, <2>2 DEF WithHold, WithoutCharges, ResourceChargeList
  <2> QED BY <2>1, <2>2 DEF Decided
<1> SUFFICES ASSUME NEW t \in Titles, NEW s \in Slots, NEW h \in lists[t][s].hold_queue,
                    h \notin lists'[t][s].hold_queue
             PROVE  ActiveCharge(lists'[t][s], h.netid)
  BY DEF HoldsKept
<1> HIDE DEF s0
<1>4. t = t0 /\ s = s0 /\ lists'[t][s] = Saved(list)
  BY <1>1
<1> QED BY <1>1, <1>2, <1>3, <1>4 DEF ActiveCharge

\* The cron job takes away what has expired and activates, at their places.
LEMMA ServedKeepsHolds ==
    ASSUME NEW row \in ResourceChargeList, NEW list, NEW n, NEW until \in Nat \ {0},
           Served(list, row, n, until, clock), NEW h \in row.hold_queue
    PROVE  \/ h \in list.hold_queue
           \/ HoldExpired(h, clock)
           \/ ~HoldActive(h) /\ ActivatedIn(h, list)
<1> DEFINE chosen == FirstHolds(PendingHolds(row), n)
           actives == {[g EXCEPT !.expiration_time = until] : g \in chosen}
<1>1. PICK gone \in SUBSET ExpiredHolds(row, clock) :
        list.hold_queue = (row.hold_queue \ (gone \cup chosen)) \cup actives
  BY DEF Served
<1>2. h \in Hold
  BY DEF ResourceChargeList
<1>3. CASE h \in gone
  BY <1>3 DEF ExpiredHolds
<1>4. CASE h \in chosen
  <2>1. ~HoldActive(h)
    BY <1>4 DEF FirstHolds, PendingHolds
  <2> DEFINE g == [h EXCEPT !.expiration_time = until]
  <2>2. g \in list.hold_queue
    BY <1>1, <1>4
  <2>3. g.place = h.place /\ g.netid = h.netid /\ g.expiration_time # Pending
    BY <1>2 DEF Hold, Pending
  <2> HIDE DEF g
  <2> QED BY <2>1, <2>2, <2>3 DEF ActivatedIn, HoldActive
<1>5. CASE h \notin gone /\ h \notin chosen
  BY <1>1, <1>5
<1> QED BY <1>3, <1>4, <1>5

LEMMA StepKeepsHolds == ExactInv /\ [Next]_vars => [HoldsKept]_vars
<1> SUFFICES ASSUME ExactInv, Next PROVE HoldsKept
  BY DEF vars
<1>1. CASE UNCHANGED lists
  BY <1>1 DEF HoldsKept
<1>2. ASSUME NEW w \in Workers, Act(w) PROVE HoldsKept
  BY <1>1, <1>2, ActReplaces, ActKeepsHolds
<1>3. CASE BatchCommit
  <2> SUFFICES ASSUME NEW t \in Titles, NEW s \in Slots, NEW h \in lists[t][s].hold_queue
               PROVE  \/ h \in lists'[t][s].hold_queue
                      \/ HoldExpired(h, clock)
                      \/ ~HoldActive(h) /\ ActivatedIn(h, lists'[t][s])
    BY DEF HoldsKept
  <2>1. lists'[t][s] = IF <<t, s>> \in DOMAIN txn THEN txn[<<t, s>>] ELSE lists[t][s]
    BY <1>3 DEF BatchCommit, TxnRows
  <2>2. lists[t][s] \in ResourceChargeList
    BY DEF ExactInv, Inv, Typed, TypeOK
  <2>3. ASSUME <<t, s>> \in DOMAIN txn
        PROVE  \E n \in Nat, until \in Nat \ {0} :
                 Served(txn[<<t, s>>], lists[t][s], n, until, clock)
    BY <2>3 DEF ExactInv, EverySaveExact, TxnServed
  <2> QED BY <2>1, <2>2, <2>3, ServedKeepsHolds
<1> QED BY <1>1, <1>2, <1>3
        DEF Next, Begin, Retry, Load, BatchStart, BatchStep, BatchLoad, BatchExpire,
            BatchActivate, BatchCrash, Tick, ChangeItems

\* If every title has its charge list to begin with, nobody drops out of a queue: a
\* hold goes when it is activated, when it expires or when its patron borrows
\* (ChargeManager, BulkHoldProcessor).
THEOREM NoHoldLost == Borrowed = Titles => (Spec => HoldsNotLost)
<1> SUFFICES ASSUME Borrowed = Titles PROVE Spec => HoldsNotLost
  OBVIOUS
<1>1. Init => ExactInv
  BY ExactInit
<1>2. ExactInv /\ [Next]_vars => ExactInv'
  BY ExactStep
<1>3. ExactInv /\ [Next]_vars => [HoldsKept]_vars
  BY StepKeepsHolds
<1> QED BY <1>1, <1>2, <1>3, PTL DEF Spec, HoldsNotLost

\* While all copies are set aside for lending, whoever has an active hold has a copy
\* kept back for them (ChargeManager#available_for_charge?, #holds_to_activate).
THEOREM PromisesAreKept ==
    Spec => []((\A t \in Titles : items[t] = Items) => PromisesKept)
<1>1. SoundInv => ((\A t \in Titles : items[t] = Items) => PromisesKept)
  <2> SUFFICES ASSUME SoundInv, NEW t \in Titles, NEW s \in Slots
               PROVE  Cardinality(Running(t, s)) + Cardinality(ActiveHolds(lists[t][s], clock))
                        <= Cardinality(Items)
    BY DEF PromisesKept
  <2>1. lists[t][s] \in ResourceChargeList /\ Fits(lists[t][s], clock)
    BY DEF SoundInv, Typed, TypeOK, EveryListSound, ListSound
  <2>2. Running(t, s) = ClearExpiredCharges(lists[t][s], clock).charged_items
    BY <2>1, LentOf DEF Running
  <2> QED BY <2>1, <2>2 DEF Fits
<1> QED BY <1>1, SoundInit, SoundStep, PTL DEF Spec
-----------------------------------------------------------------------------
(***************************************************************************)
(* The queue of a title as the sequence of patrons that Lending keeps      *)
(***************************************************************************)
\* Turns follow the places.
LEMMA TurnsInOrder ==
    ASSUME NEW holds, Line(holds),
           NEW i \in 1 .. Cardinality(holds), NEW j \in 1 .. Cardinality(holds), i < j
    PROVE  InTurn(holds)[i].place < InTurn(holds)[j].place
<1> DEFINE g == InTurn(holds)[i]
           h == InTurn(holds)[j]
<1>0. Cardinality(holds) \in Nat
  BY FS_CardinalityType DEF Line
<1>1. g \in holds /\ h \in holds /\ Before(g, holds) = i - 1 /\ Before(h, holds) = j - 1
  BY Turns
<1> HIDE DEF g, h
<1>2. g # h
  BY <1>0, <1>1
<1>3. g.place \in Nat /\ h.place \in Nat /\ g.place # h.place
  BY <1>1, <1>2 DEF Line
<1>4. ~(h.place < g.place)
  <2> SUFFICES ASSUME h.place < g.place PROVE FALSE
    OBVIOUS
  <2>1. j - 1 < i - 1
    BY <1>1, RankLess
  <2> QED BY <1>0, <2>1
<1>5. g.place < h.place
  BY <1>3, <1>4
<1> QED BY <1>5 DEF g, h

\* Whoever joins comes last.
LEMMA TurnsJoin ==
    ASSUME NEW holds, Line(holds), NEW new, new.place \in Nat,
           \A h \in holds : h.place < new.place
    PROVE  LET n == Cardinality(holds)
           IN  /\ n \in Nat
               /\ Cardinality(holds \cup {new}) = n + 1
               /\ InTurn(holds \cup {new})
                    = [i \in 1 .. n + 1 |-> IF i <= n THEN InTurn(holds)[i] ELSE new]
<1> DEFINE n == Cardinality(holds)
           all == holds \cup {new}
           q == [i \in 1 .. n + 1 |-> IF i <= n THEN InTurn(holds)[i] ELSE new]
<1>0. n \in Nat
  BY FS_CardinalityType DEF Line
<1>1. \A i \in 1 .. n : InTurn(holds)[i] \in holds
  BY Turns
<1>2. \A h \in holds : \E i \in 1 .. n : InTurn(holds)[i] = h
  <2> TAKE h \in holds
  <2>1. Before(h, holds) + 1 \in 1 .. n /\ InTurn(holds)[Before(h, holds) + 1] = h
    BY <1>0, RankIn, Turns
  <2> QED BY <2>1
<1>3. \A i, j \in 1 .. n : i < j => InTurn(holds)[i].place < InTurn(holds)[j].place
  BY TurnsInOrder
<1>4. \A h \in all : h.place \in Nat
  BY DEF Line
<1> HIDE DEF n
<1>5. /\ n + 1 \in 1 .. n + 1 /\ q[n + 1] = new
      /\ \A i \in 1 .. n : i \in 1 .. n + 1 /\ q[i] = InTurn(holds)[i]
      /\ \A i \in 1 .. n + 1 : i \in 1 .. n \/ i = n + 1
  BY <1>0
<1>6. q \in [1 .. n + 1 -> all]
  BY <1>0, <1>1
<1> HIDE DEF q
<1>7. \A h \in all : \E i \in 1 .. n + 1 : q[i] = h
  BY <1>2, <1>5
<1>8. \A i, j \in 1 .. n + 1 : i < j => q[i].place < q[j].place
  <2> SUFFICES ASSUME NEW i \in 1 .. n + 1, NEW j \in 1 .. n + 1, i < j
               PROVE  q[i].place < q[j].place
    OBVIOUS
  <2>1. i \in 1 .. n
    BY <1>0
  <2> QED BY <1>1, <1>3, <1>5, <2>1
<1> HIDE DEF all
<1>9. Cardinality(all) = n + 1 /\ InTurn(all) = q
  <2>1. PICK k \in Nat : k = n + 1
    BY <1>0
  <2>2. /\ q \in [1 .. k -> all]
        /\ \A h \in all : \E i \in 1 .. k : q[i] = h
        /\ \A i, j \in 1 .. k : i < j => q[i].place < q[j].place
    BY <1>6, <1>7, <1>8, <2>1
  <2>3. Cardinality(all) = k /\ InTurn(all) = q
    BY <1>4, <2>2, TurnsAre
  <2> QED BY <2>1, <2>3
<1> QED BY <1>0, <1>9 DEF n, all, q

\* Whoever leaves lets those behind move up.
LEMMA TurnsLeave ==
    ASSUME NEW holds, Line(holds), NEW k \in 1 .. Cardinality(holds)
    PROVE  LET n == Cardinality(holds)
               left == holds \ {InTurn(holds)[k]}
           IN  /\ Cardinality(left) = n - 1
               /\ InTurn(left)
                    = [i \in 1 .. n - 1 |-> IF i < k THEN InTurn(holds)[i] ELSE InTurn(holds)[i + 1]]
<1> DEFINE n == Cardinality(holds)
           left == holds \ {InTurn(holds)[k]}
           q == [i \in 1 .. n - 1 |-> IF i < k THEN InTurn(holds)[i] ELSE InTurn(holds)[i + 1]]
<1>0. n \in Nat /\ n - 1 \in Nat /\ k \in 1 .. n
  BY FS_CardinalityType DEF Line
<1>1. \A i \in 1 .. n : InTurn(holds)[i] \in holds /\ InTurn(holds)[i].place \in Nat
  BY Turns DEF Line
<1>2. \A h \in holds : \E i \in 1 .. n : InTurn(holds)[i] = h
  <2> TAKE h \in holds
  <2>1. Before(h, holds) + 1 \in 1 .. n /\ InTurn(holds)[Before(h, holds) + 1] = h
    BY <1>0, RankIn, Turns
  <2> QED BY <2>1
<1>3. \A i, j \in 1 .. n : i < j => InTurn(holds)[i].place < InTurn(holds)[j].place
  BY TurnsInOrder
<1>4. \A h \in left : h.place \in Nat
  BY DEF Line
<1> HIDE DEF n
<1>5. \A i \in 1 .. n : i # k => InTurn(holds)[i] # InTurn(holds)[k]
  <2> SUFFICES ASSUME NEW i \in 1 .. n, i # k, InTurn(holds)[i] = InTurn(holds)[k]
               PROVE  FALSE
    OBVIOUS
  <2>1. i < k \/ k < i
    BY <1>0
  <2> QED BY <1>0, <1>1, <1>3, <2>1
<1> DEFINE at(i) == IF i < k THEN i ELSE i + 1
<1>6. \A i \in 1 .. n - 1 : /\ at(i) \in 1 .. n /\ at(i) # k
                            /\ q[i] = InTurn(holds)[at(i)]
  BY <1>0
<1>7. \A i, j \in 1 .. n - 1 : i < j => at(i) < at(j)
  BY <1>0
<1>8. \A i \in 1 .. n : i # k => \E j \in 1 .. n - 1 : at(j) = i
  <2> TAKE i \in 1 .. n
  <2> HAVE i # k
  <2>1. CASE i < k
    <3>1. i \in 1 .. n - 1 /\ at(i) = i
      BY <1>0, <2>1
    <3> QED BY <3>1
  <2>2. CASE i > k
    <3>1. i - 1 \in 1 .. n - 1 /\ at(i - 1) = i
      BY <1>0, <2>2
    <3> QED BY <3>1
  <2> QED BY <1>0, <2>1, <2>2
<1>9. DOMAIN q = 1 .. n - 1 /\ q = [i \in 1 .. n - 1 |-> q[i]]
  OBVIOUS
<1> HIDE DEF q, at
<1>10. q \in [1 .. n - 1 -> left]
  <2>1. \A i \in 1 .. n - 1 : q[i] \in left
    BY <1>0, <1>1, <1>5, <1>6
  <2> QED BY <1>9, <2>1
<1>11. \A h \in left : \E i \in 1 .. n - 1 : q[i] = h
  <2> TAKE h \in left
  <2>1. PICK i \in 1 .. n : InTurn(holds)[i] = h /\ i # k
    BY <1>2
  <2> QED BY <1>6, <1>8, <2>1
<1>12. \A i, j \in 1 .. n - 1 : i < j => q[i].place < q[j].place
  BY <1>3, <1>6, <1>7
<1> HIDE DEF left
<1>13. Cardinality(left) = n - 1 /\ InTurn(left) = q
  BY <1>0, <1>4, <1>10, <1>11, <1>12, TurnsAre
<1> QED BY <1>13 DEF n, left, q

\* The first n are the n with the first turns, and the others move up by as many.
LEMMA TurnsServed ==
    ASSUME NEW holds, Line(holds), NEW n \in Nat,
           NEW m, m = IF n < Cardinality(holds) THEN n ELSE Cardinality(holds),
           NEW left, left = holds \ FirstHolds(holds, n)
    PROVE  /\ m \in 0 .. Cardinality(holds)
           /\ \A i \in 1 .. m : InTurn(holds)[i] \in FirstHolds(holds, n)
           /\ \A h \in FirstHolds(holds, n) : \E i \in 1 .. m : h = InTurn(holds)[i]
           /\ Cardinality(left) = Cardinality(holds) - m
           /\ \A i \in 1 .. Cardinality(holds) - m : InTurn(left)[i] = InTurn(holds)[i + m]
<1> DEFINE all == Cardinality(holds)
           first == FirstHolds(holds, n)
           q == [i \in 1 .. all - m |-> InTurn(holds)[i + m]]
<1>0. all \in Nat
  BY FS_CardinalityType DEF Line
<1>1. /\ \A i \in 1 .. all : InTurn(holds)[i] \in holds /\ InTurn(holds)[i].place \in Nat
      /\ \A i \in 1 .. all : Before(InTurn(holds)[i], holds) = i - 1
  BY Turns DEF Line
<1>2. \A h \in holds : \E i \in 1 .. all : InTurn(holds)[i] = h
  <2> TAKE h \in holds
  <2>1. Before(h, holds) + 1 \in 1 .. all /\ InTurn(holds)[Before(h, holds) + 1] = h
    BY <1>0, RankIn, Turns
  <2> QED BY <2>1
<1>3. \A i, j \in 1 .. all : i < j => InTurn(holds)[i].place < InTurn(holds)[j].place
  BY TurnsInOrder
<1>3a. left = holds \ first /\ m = IF n < all THEN n ELSE all
  OBVIOUS
<1>4. \A h \in left : h.place \in Nat
  BY DEF Line
<1>5. \A h \in holds : h \in first <=> Before(h, holds) < n
  BY DEF FirstHolds, Before
<1>6. first \subseteq holds
  BY DEF FirstHolds
<1> HIDE DEF all, first
<1>7. m \in 0 .. all /\ all - m \in Nat
  BY <1>0, <1>3a
<1>8. \A i \in 1 .. all : InTurn(holds)[i] \in first <=> i <= m
  BY <1>0, <1>1, <1>3a, <1>5
<1>9. /\ \A i \in 1 .. m : InTurn(holds)[i] \in first
      /\ \A h \in first : \E i \in 1 .. m : h = InTurn(holds)[i]
  <2>1. ASSUME NEW h \in first PROVE \E i \in 1 .. m : h = InTurn(holds)[i]
    <3>1. PICK i \in 1 .. all : InTurn(holds)[i] = h
      BY <1>2, <1>6
    <3> QED BY <1>0, <1>7, <1>8, <3>1
  <2>2. \A i \in 1 .. m : InTurn(holds)[i] \in first
    BY <1>0, <1>7, <1>8
  <2> QED BY <2>1, <2>2
<1>10. \A i \in 1 .. all - m : i + m \in 1 .. all /\ i + m > m /\ q[i] = InTurn(holds)[i + m]
  BY <1>0, <1>7
<1>11. q \in [1 .. all - m -> left]
  <2>1. \A i \in 1 .. all - m : q[i] \in left
    BY <1>0, <1>1, <1>3a, <1>7, <1>8, <1>10
  <2> QED BY <2>1
<1>12. \A h \in left : \E i \in 1 .. all - m : q[i] = h
  <2> TAKE h \in left
  <2>1. PICK i \in 1 .. all : InTurn(holds)[i] = h
    BY <1>2, <1>3a
  <2>2. ~(i <= m)
    BY <1>3a, <1>8, <2>1
  <2>3. i - m \in 1 .. all - m /\ (i - m) + m = i
    BY <1>0, <1>7, <2>2
  <2> QED BY <1>10, <2>1, <2>3
<1>13. \A i, j \in 1 .. all - m : i < j => q[i].place < q[j].place
  <2> SUFFICES ASSUME NEW i \in 1 .. all - m, NEW j \in 1 .. all - m, i < j
               PROVE  q[i].place < q[j].place
    OBVIOUS
  <2>1. i + m < j + m
    BY <1>0, <1>7
  <2> QED BY <1>3, <1>10, <2>1
<1> HIDE DEF q
<1>14. Cardinality(left) = all - m /\ InTurn(left) = q
  <2>1. PICK k \in Nat : k = all - m
    BY <1>7
  <2>2. /\ q \in [1 .. k -> left]
        /\ \A h \in left : \E i \in 1 .. k : q[i] = h
        /\ \A i, j \in 1 .. k : i < j => q[i].place < q[j].place
    BY <1>11, <1>12, <1>13, <2>1
  <2>3. Cardinality(left) = k /\ InTurn(left) = q
    BY <1>4, <2>2, TurnsAre
  <2> QED BY <2>1, <2>3
<1>15. \A i \in 1 .. all - m : InTurn(left)[i] = InTurn(holds)[i + m]
  BY <1>10, <1>14
<1> QED BY <1>7, <1>9, <1>14, <1>15 DEF all, first

\* Each patron who waits has one hold in the queue: a queue of holds is a queue of
\* patrons.
LEMMA PatronsInTurn ==
    ASSUME NEW list \in ResourceChargeList, NEW t, NEW now, NEW told,
           ListSound(list, t, now, told)
    PROVE  LET holds == PendingHolds(list)
               n == Cardinality(holds)
           IN  /\ Line(holds) /\ n \in Nat
               /\ Waiting(list) \in Seq(Patrons) /\ Len(Waiting(list)) = n
               /\ \A i \in 1 .. n : /\ InTurn(holds)[i] \in holds
                                    /\ Waiting(list)[i] = InTurn(holds)[i].netid
               /\ ToSet(Waiting(list)) = {h.netid : h \in holds}
               /\ \A g, h \in holds : g.netid = h.netid => g = h
<1> DEFINE holds == PendingHolds(list)
           n == Cardinality(holds)
           q == Waiting(list)
<1>1. /\ holds \subseteq list.hold_queue /\ list.hold_queue \subseteq Hold
      /\ holds \subseteq PendingOrActiveHolds(list, now)
  BY DEF PendingHolds, ResourceChargeList, PendingOrActiveHolds, ExpiredHolds, HoldExpired
<1>2. Line(holds)
  BY <1>1, FS_Subset DEF Line, ListSound, Ordered, Hold
<1>3. n \in Nat
  BY <1>2, FS_CardinalityType DEF Line
<1>4. \A i \in 1 .. n : InTurn(holds)[i] \in holds
  BY <1>2, Turns
<1>5. q = [i \in 1 .. n |-> InTurn(holds)[i].netid]
  BY DEF Waiting
<1>6. \A g, h \in holds : g.netid = h.netid => g = h
  BY <1>1 DEF ListSound, OneHoldEach
<1>7. \A h \in holds : \E i \in 1 .. n : InTurn(holds)[i] = h
  <2> TAKE h \in holds
  <2>1. Before(h, holds) + 1 \in 1 .. n /\ InTurn(holds)[Before(h, holds) + 1] = h
    BY <1>2, <1>3, RankIn, Turns
  <2> QED BY <2>1
<1>8. \A h \in holds : h.netid \in Patrons
  BY <1>1 DEF Hold
<1> HIDE DEF holds, n, q
<1>9. /\ q \in Seq(Patrons) /\ Len(q) = n /\ DOMAIN q = 1 .. n
      /\ \A i \in 1 .. n : q[i] = InTurn(holds)[i].netid
  BY <1>3, <1>4, <1>5, <1>8
<1>10. ToSet(q) = {h.netid : h \in holds}
  BY <1>4, <1>7, <1>9 DEF ToSet
<1> QED BY <1>2, <1>3, <1>4, <1>6, <1>9, <1>10 DEF holds, n, q

\* A loan for each running charge, an offer for each active hold.
LEMMA LoansAndOffers ==
    ASSUME NEW list \in ResourceChargeList, NEW t, NEW now, NEW told,
           ListSound(list, t, now, told)
    PROVE  /\ IsFiniteSet(Loans(list, now)) /\ IsFiniteSet(Offers(list, now))
           /\ Cardinality(Loans(list, now))
                = Cardinality(ClearExpiredCharges(list, now).charged_items)
           /\ Cardinality(Offers(list, now)) = Cardinality(ActiveHolds(list, now))
<1> DEFINE lent == ClearExpiredCharges(list, now).charged_items
           active == ActiveHolds(list, now)
<1>1. /\ lent \subseteq list.charged_items /\ IsFiniteSet(lent)
      /\ active \subseteq list.hold_queue /\ IsFiniteSet(active)
  BY LentOf, FS_Subset DEF ListSound, ActiveHolds
<1>2. \A c, d \in lent : c.item_id = d.item_id => c = d
  BY <1>1 DEF ListSound, OneBorrowerPerCopy
<1>3. \A g, h \in active : g.netid = h.netid => g = h
  BY DEF ListSound, OneHoldEach, ActiveHolds, PendingOrActiveHolds, ExpiredHolds
<1>4. Loans(list, now) = {[copy |-> c.item_id, patron |-> c.netid] : c \in lent}
  BY DEF Loans
<1>5. Offers(list, now) = {h.netid : h \in active}
  BY DEF Offers
<1> HIDE DEF lent, active
<1>6. ExistsBijection(lent, Loans(list, now))
  <2> DEFINE f == [c \in lent |-> [copy |-> c.item_id, patron |-> c.netid]]
  <2>1. f \in Bijection(lent, Loans(list, now))
    <3>1. f \in [lent -> Loans(list, now)]
      BY <1>4
    <3>2. \A c, d \in lent : f[c] = f[d] => c = d
      <4> TAKE c \in lent, d \in lent
      <4> HAVE f[c] = f[d]
      <4>1. f[c].copy = c.item_id /\ f[d].copy = d.item_id
        OBVIOUS
      <4> HIDE DEF f
      <4>2. c.item_id = d.item_id
        BY <4>1
      <4> QED BY <1>2, <4>2
    <3>3. \A x \in Loans(list, now) : \E c \in lent : f[c] = x
      BY <1>4
    <3> HIDE DEF f
    <3> QED BY <3>1, <3>2, <3>3 DEF Bijection, Injection, Surjection, IsInjective
  <2> QED BY <2>1 DEF ExistsBijection
<1>7. ExistsBijection(active, Offers(list, now))
  <2> DEFINE f == [h \in active |-> h.netid]
  <2>1. f \in Bijection(active, Offers(list, now))
    BY <1>3, <1>5 DEF Bijection, Injection, Surjection, IsInjective
  <2> QED BY <2>1 DEF ExistsBijection
<1>8. /\ IsFiniteSet(Loans(list, now)) /\ Cardinality(Loans(list, now)) = Cardinality(lent)
      /\ IsFiniteSet(Offers(list, now)) /\ Cardinality(Offers(list, now)) = Cardinality(active)
  BY <1>1, <1>6, <1>7, FS_Bijection
<1> QED BY <1>8 DEF lent, active

\* A list in memory that says what the row says promises the same.
LEMMA SamePromise ==
    ASSUME NEW list, NEW row, NEW now, SameAt(list, row, now)
    PROVE  /\ Loans(list, now) = Loans(row, now)
           /\ Offers(list, now) = Offers(row, now)
           /\ Waiting(list) = Waiting(row)
<1>1. PendingHolds(list) = PendingHolds(row) /\ ActiveHolds(list, now) = ActiveHolds(row, now)
  BY DEF SameAt, PendingHolds, ActiveHolds
<1> QED BY <1>1 DEF SameAt, Loans, Offers, Waiting

\* A save changes none of what is promised but by what it saves.
LEMMA SavedPromise ==
    ASSUME NEW list \in ResourceChargeList, NEW now
    PROVE  /\ Loans(Saved(list), now) = Loans(list, now)
           /\ Offers(Saved(list), now) = Offers(list, now)
           /\ Waiting(Saved(list)) = Waiting(list)
<1>1. Saved(list) \in ResourceChargeList /\ Saved(list).charged_items = list.charged_items
  BY SavedEdit
<1>2. Saved(list).hold_queue = list.hold_queue
  BY DEF Saved, ResourceChargeList
<1>3. ClearExpiredCharges(Saved(list), now).charged_items
        = ClearExpiredCharges(list, now).charged_items
  BY <1>1, LentOf
<1>4. SameAt(Saved(list), list, now)
  BY <1>2, <1>3 DEF SameAt
<1> QED BY <1>4, SamePromise

\* create_hold: a patron with no hold joins the queue, last.
Joins(list, after, p, now) ==
    /\ Loans(after, now) = Loans(list, now)
    /\ Offers(after, now) = Offers(list, now)
    /\ p \notin Offers(list, now)
    /\ p \notin ToSet(Waiting(list))
    /\ Waiting(after) = Append(Waiting(list), p)

LEMMA JoinPromise ==
    ASSUME NEW list \in ResourceChargeList, NEW t, NEW now \in Nat, NEW told,
           ListSound(list, t, now, told),
           NEW p \in Patrons, ~HoldFor(list, p, now)
    PROVE  Joins(list, WithHold(list, p), p, now)
<1> DEFINE new == [netid |-> p, expiration_time |-> Pending, place |-> list.version]
           after == WithHold(list, p)
           holds == PendingHolds(list)
           n == Cardinality(holds)
<1>1. /\ after \in ResourceChargeList /\ after.charged_items = list.charged_items
      /\ after.hold_queue = list.hold_queue \cup {new}
  BY ListEdits, EditsKeep, ItemsAssumption DEF WithHold, ResourceChargeList
<1>2. /\ new.netid = p /\ ~HoldActive(new)
      /\ new.place = list.version /\ new.place \in Nat
  BY DEF HoldActive, ResourceChargeList
<1>3. Loans(after, now) = Loans(list, now)
  BY <1>1, LentOf DEF Loans
<1>4. ActiveHolds(after, now) = ActiveHolds(list, now)
  BY <1>1, <1>2 DEF ActiveHolds
<1>5. PendingHolds(after) = holds \cup {new}
  BY <1>1, <1>2 DEF PendingHolds
<1>6. /\ holds \subseteq PendingOrActiveHolds(list, now)
      /\ ActiveHolds(list, now) \subseteq PendingOrActiveHolds(list, now)
      /\ holds \subseteq list.hold_queue
  BY DEF PendingHolds, ActiveHolds, PendingOrActiveHolds, ExpiredHolds, HoldExpired
<1>7. \A h \in PendingOrActiveHolds(list, now) : h.netid # p
  BY DEF HoldFor
<1>8. \A h \in holds : h.place < new.place
  BY <1>2, <1>6 DEF ListSound, Ordered
<1>9. /\ Line(holds) /\ n \in Nat
      /\ Waiting(list) \in Seq(Patrons) /\ Len(Waiting(list)) = n
      /\ \A i \in 1 .. n : Waiting(list)[i] = InTurn(holds)[i].netid
      /\ ToSet(Waiting(list)) = {h.netid : h \in holds}
  BY PatronsInTurn
<1>10. /\ p \notin ToSet(Waiting(list)) /\ p \notin Offers(list, now)
  BY <1>6, <1>7, <1>9 DEF Offers
<1> HIDE DEF new, after, holds, n
<1>11. /\ Cardinality(holds \cup {new}) = n + 1
       /\ InTurn(holds \cup {new})
            = [i \in 1 .. n + 1 |-> IF i <= n THEN InTurn(holds)[i] ELSE new]
  BY <1>2, <1>8, <1>9, TurnsJoin DEF n
<1>12. Waiting(after) = [i \in 1 .. n + 1 |-> InTurn(holds \cup {new})[i].netid]
  BY <1>5, <1>11 DEF Waiting
<1>13. \A i \in 1 .. n + 1 :
         InTurn(holds \cup {new})[i].netid = IF i <= n THEN Waiting(list)[i] ELSE p
  BY <1>2, <1>9, <1>11
<1>14. Waiting(after) = Append(Waiting(list), p)
  <2> DEFINE q == Append(Waiting(list), p)
  <2>1. /\ q \in Seq(Patrons) /\ Len(q) = n + 1
        /\ \A i \in 1 .. n + 1 : q[i] = IF i <= n THEN Waiting(list)[i] ELSE p
    BY <1>9
  <2> HIDE DEF q
  <2>2. q = [i \in 1 .. n + 1 |-> q[i]]
    BY <1>9, <2>1
  <2>3. q = [i \in 1 .. n + 1 |-> InTurn(holds \cup {new})[i].netid]
    BY <1>13, <2>1, <2>2
  <2> QED BY <1>12, <2>3 DEF q
<1> QED BY <1>3, <1>4, <1>10, <1>14 DEF after, Offers, Joins

\* Whoever leaves the queue of holds leaves the queue of patrons.
LEMMA LeavePromise ==
    ASSUME NEW list \in ResourceChargeList, NEW t, NEW now, NEW told,
           ListSound(list, t, now, told), NEW p,
           NEW after, PendingHolds(after) = {h \in PendingHolds(list) : h.netid # p}
    PROVE  \/ \E i \in 1 .. Len(Waiting(list)) :
                Waiting(list)[i] = p /\ Waiting(after) = RemoveAt(Waiting(list), i)
           \/ p \notin ToSet(Waiting(list)) /\ Waiting(after) = Waiting(list)
<1> DEFINE holds == PendingHolds(list)
           n == Cardinality(holds)
           q == Waiting(list)
<1>1. /\ Line(holds) /\ n \in Nat
      /\ q \in Seq(Patrons) /\ Len(q) = n
      /\ \A i \in 1 .. n : InTurn(holds)[i] \in holds /\ q[i] = InTurn(holds)[i].netid
      /\ ToSet(q) = {h.netid : h \in holds}
      /\ \A g, h \in holds : g.netid = h.netid => g = h
  BY PatronsInTurn
<1>2. CASE p \notin ToSet(q)
  <2>1. PendingHolds(after) = holds
    BY <1>1, <1>2
  <2>2. Waiting(after) = q
    BY <2>1 DEF Waiting
  <2> QED BY <1>2, <2>2
<1>3. CASE p \in ToSet(q)
  <2>1. PICK k \in 1 .. n : q[k] = p
    BY <1>1, <1>3 DEF ToSet
  <2> DEFINE left == holds \ {InTurn(holds)[k]}
  <2>2. PendingHolds(after) = left
    BY <1>1, <2>1
  <2> HIDE DEF holds, n
  <2>3. /\ Cardinality(left) = n - 1
        /\ InTurn(left) = [i \in 1 .. n - 1 |-> IF i < k THEN InTurn(holds)[i]
                                                         ELSE InTurn(holds)[i + 1]]
    BY <1>1, TurnsLeave DEF n
  <2> HIDE DEF left
  <2>4. Waiting(after) = [i \in 1 .. n - 1 |-> InTurn(left)[i].netid]
    BY <2>2, <2>3 DEF Waiting
  <2>5. \A i \in 1 .. n - 1 : InTurn(left)[i].netid = IF i < k THEN q[i] ELSE q[i + 1]
    BY <1>1, <2>3
  <2> HIDE DEF q
  <2>6. /\ RemoveAt(q, k) \in Seq(Patrons) /\ Len(RemoveAt(q, k)) = n - 1
        /\ \A i \in 1 .. n - 1 : RemoveAt(q, k)[i] = IF i < k THEN q[i] ELSE q[i + 1]
    <3>1. q \in Seq(Patrons) /\ Len(q) = n
      BY <1>1
    <3>2. k \in 1 .. Len(q)
      BY <3>1
    <3>3. /\ RemoveAt(q, k) \in Seq(Patrons) /\ Len(RemoveAt(q, k)) = Len(q) - 1
          /\ \A i \in 1 .. Len(q) - 1 : RemoveAt(q, k)[i] = IF i < k THEN q[i] ELSE q[i + 1]
      BY <3>1, <3>2, RemovedAtIs
    <3> QED BY <3>1, <3>3
  <2>7. Waiting(after) = RemoveAt(q, k)
    BY <2>4, <2>5, <2>6
  <2> QED BY <1>1, <2>1, <2>7 DEF q, n
<1> QED BY <1>2, <1>3

\* create_charge: a patron who may borrow takes a copy nobody has, and what was kept
\* back for them or they waited for is theirs.
ChecksOut(list, after, p, item, now) ==
    LET loans == Loans(list, now)
        offers == Offers(list, now)
        waiting == Waiting(list)
    IN  /\ item \in Items /\ \A l \in loans : l.copy # item /\ l.patron # p
        /\ Loans(after, now) = loans \cup {[copy |-> item, patron |-> p]}
        /\ Offers(after, now) = offers \ {p}
        /\ \/ p \in offers
           \/ Cardinality(loans) + Cardinality(offers) + Len(waiting) < Cardinality(Items)
        /\ \/ \E i \in 1 .. Len(waiting) :
                 waiting[i] = p /\ Waiting(after) = RemoveAt(waiting, i)
           \/ p \notin ToSet(waiting) /\ Waiting(after) = waiting

LEMMA CheckOutPromise ==
    ASSUME NEW list \in ResourceChargeList, NEW t, NEW now \in Nat, NEW told,
           ListSound(list, t, now, told),
           NEW p \in Patrons, ~ActiveCharge(list, p),
           NEW copies \in SUBSET Items, AvailableForCharge(list, p, copies, now),
           NEW item \in AvailableItemIds(list, copies)
    PROVE  ChecksOut(list, WithCharge(list, p, item, now), p, item, now)
<1> DEFINE new == [item_id |-> item, netid |-> p, expiration_time |-> now + ChargePeriod]
           after == WithCharge(list, p, item, now)
           lent == ClearExpiredCharges(list, now).charged_items
           active == ActiveHolds(list, now)
           holds == PendingHolds(list)
           promised == PendingOrActiveHolds(list, now)
<1>1. item \in Items /\ \A c \in list.charged_items : c.item_id # item /\ c.netid # p
  BY DEF AvailableItemIds, ActiveCharge
<1>2. /\ after \in ResourceChargeList /\ after.charged_items = list.charged_items \cup {new}
      /\ after.hold_queue = {h \in list.hold_queue : h.netid # p}
  BY <1>1, ListEdits DEF WithCharge, ResourceChargeList
<1>3. lent = {c \in list.charged_items : ~ChargeExpired(c, now)}
  BY LentOf
<1>4. /\ item \in Items
      /\ \A l \in Loans(list, now) : l.copy # item /\ l.patron # p
  BY <1>1, <1>3 DEF Loans
<1>5. /\ new.item_id = item /\ new.netid = p /\ ~ChargeExpired(new, now)
  BY PeriodAssumption DEF ChargeExpired
<1>6. ClearExpiredCharges(after, now).charged_items = lent \cup {new}
  <2> HIDE DEF new, after, lent
  <2> QED BY <1>2, <1>3, <1>5, LentOf
<1>7. Loans(after, now) = Loans(list, now) \cup {[copy |-> item, patron |-> p]}
  <2> HIDE DEF new, lent, after
  <2>1. Loans(after, now) = {[copy |-> c.item_id, patron |-> c.netid] : c \in lent \cup {new}}
    BY <1>6 DEF Loans
  <2>2. Loans(list, now) = {[copy |-> c.item_id, patron |-> c.netid] : c \in lent}
    BY DEF Loans, lent
  <2> QED BY <1>5, <2>1, <2>2
<1>8. Offers(after, now) = Offers(list, now) \ {p}
  <2>1. ActiveHolds(after, now) = {h \in active : h.netid # p}
    BY <1>2 DEF ActiveHolds
  <2> HIDE DEF active, after
  <2> QED BY <2>1 DEF Offers, active
<1>9. PendingHolds(after) = {h \in holds : h.netid # p}
  BY <1>2 DEF PendingHolds
<1>10. \/ \E i \in 1 .. Len(Waiting(list)) :
             Waiting(list)[i] = p /\ Waiting(after) = RemoveAt(Waiting(list), i)
       \/ p \notin ToSet(Waiting(list)) /\ Waiting(after) = Waiting(list)
  BY <1>9, LeavePromise
<1>11. \/ p \in Offers(list, now)
       \/ Cardinality(Loans(list, now)) + Cardinality(Offers(list, now)) + Len(Waiting(list))
            < Cardinality(Items)
  <2>1. CASE HasActiveHold(list, p, now)
    BY <2>1 DEF HasActiveHold, Offers
  <2>2. CASE Cardinality(list.charged_items) + Cardinality(promised) < Cardinality(copies)
    <3>1. /\ active \subseteq list.hold_queue /\ holds \subseteq list.hold_queue
          /\ active \cap holds = {} /\ promised = active \cup holds
      BY DEF ActiveHolds, PendingHolds, PendingOrActiveHolds, ExpiredHolds, HoldExpired
    <3>2. lent \subseteq list.charged_items
      BY <1>3
    <3>3. /\ Cardinality(Loans(list, now)) = Cardinality(lent)
          /\ Cardinality(Offers(list, now)) = Cardinality(active)
          /\ Len(Waiting(list)) = Cardinality(holds)
      BY LoansAndOffers, PatronsInTurn
    <3> HIDE DEF lent, active, holds, promised
    <3>4. /\ IsFiniteSet(active) /\ IsFiniteSet(holds)
          /\ IsFiniteSet(lent) /\ Cardinality(lent) <= Cardinality(list.charged_items)
          /\ IsFiniteSet(copies) /\ Cardinality(copies) <= Cardinality(Items)
      BY <3>1, <3>2, FS_Subset, ItemsAssumption DEF ListSound
    <3>5. /\ Cardinality(lent) \in Nat /\ Cardinality(active) \in Nat
          /\ Cardinality(holds) \in Nat /\ Cardinality(list.charged_items) \in Nat
          /\ Cardinality(copies) \in Nat /\ Cardinality(Items) \in Nat
      BY <3>4, ItemsAssumption, FS_CardinalityType DEF ListSound
    <3>6. Cardinality(promised) = Cardinality(active) + Cardinality(holds)
      <4>1. Cardinality(active \cap holds) = 0
        BY <3>1, FS_EmptySet
      <4>2. Cardinality(active \cup holds)
              = Cardinality(active) + Cardinality(holds) - Cardinality(active \cap holds)
        BY <3>4, FS_Union
      <4> QED BY <3>1, <3>5, <4>1, <4>2
    <3>7. Cardinality(lent) + Cardinality(active) + Cardinality(holds) < Cardinality(Items)
      BY <2>2, <3>4, <3>5, <3>6
    <3> QED BY <3>3, <3>7
  <2> QED BY <2>1, <2>2 DEF AvailableForCharge
<1> QED BY <1>4, <1>7, <1>8, <1>10, <1>11 DEF ChecksOut

\* The cron job's save: the first who wait get an offer, the others move up, and
\* nobody else gets one.
LEMMA ServedPromise ==
    ASSUME NEW row \in ResourceChargeList, NEW list \in ResourceChargeList,
           NEW t, NEW told, clock \in Nat,
           ListSound(row, t, clock, told), ListSound(list, t, clock, told),
           NEW n \in Nat, NEW until \in Nat \ {0}, Served(list, row, n, until, clock),
           ClearExpiredCharges(list, clock).charged_items
             = ClearExpiredCharges(row, clock).charged_items
    PROVE  LET waiting == Waiting(row)
           IN  \E m \in 0 .. Len(waiting) :
                 /\ Offers(list, clock) \in {Offers(row, clock) \cup {waiting[i] : i \in 1 .. m},
                                             Offers(row, clock)}
                 /\ Waiting(list) = SubSeq(waiting, m + 1, Len(waiting))
                 /\ Loans(list, clock) = Loans(row, clock)
                 /\ Cardinality(Loans(list, clock)) + Cardinality(Offers(list, clock))
                      <= Cardinality(Items)
<1> DEFINE holds == PendingHolds(row)
           chosen == FirstHolds(holds, n)
           turned == {[h EXCEPT !.expiration_time = until] : h \in chosen}
           all == Cardinality(holds)
           m == IF n < all THEN n ELSE all
           left == holds \ chosen
           q == Waiting(row)
<1>1. PICK gone \in SUBSET ExpiredHolds(row, clock) :
        list.hold_queue = (row.hold_queue \ (gone \cup chosen)) \cup turned
  BY DEF Served
<1>2. /\ chosen \subseteq holds /\ holds \subseteq Hold
      /\ holds \subseteq row.hold_queue
      /\ \A h \in holds : h.expiration_time = 0
  BY DEF FirstHolds, PendingHolds, HoldActive, Pending, ResourceChargeList
<1>3. \A g \in turned : /\ g.expiration_time = until
                        /\ \E h \in chosen : g.netid = h.netid
  BY <1>2 DEF Hold
<1>4. \A h \in chosen : \E g \in turned : g.netid = h.netid
  <2> TAKE h \in chosen
  <2> DEFINE g == [h EXCEPT !.expiration_time = until]
  <2>1. g \in turned /\ g.netid = h.netid
    BY <1>2 DEF Hold
  <2> QED BY <2>1
<1>5. /\ Line(holds) /\ all \in Nat
      /\ q \in Seq(Patrons) /\ Len(q) = all
      /\ \A i \in 1 .. all : InTurn(holds)[i] \in holds /\ q[i] = InTurn(holds)[i].netid
  BY PatronsInTurn
<1> HIDE DEF m
<1>6. /\ m \in 0 .. all
      /\ \A i \in 1 .. m : InTurn(holds)[i] \in chosen
      /\ \A h \in chosen : \E i \in 1 .. m : h = InTurn(holds)[i]
      /\ Cardinality(left) = all - m
      /\ \A i \in 1 .. all - m : InTurn(left)[i] = InTurn(holds)[i + m]
  <2>1. m = IF n < Cardinality(holds) THEN n ELSE Cardinality(holds)
    BY DEF m
  <2>2. left = holds \ FirstHolds(holds, n)
    OBVIOUS
  <2>3. Line(holds)
    BY <1>5
  <2> HIDE DEF holds, left
  <2>4. /\ m \in 0 .. Cardinality(holds)
        /\ \A i \in 1 .. m : InTurn(holds)[i] \in FirstHolds(holds, n)
        /\ \A h \in FirstHolds(holds, n) : \E i \in 1 .. m : h = InTurn(holds)[i]
        /\ Cardinality(left) = Cardinality(holds) - m
    BY <2>1, <2>2, <2>3, TurnsServed
  <2>5. \A i \in 1 .. Cardinality(holds) - m : InTurn(left)[i] = InTurn(holds)[i + m]
    BY <2>1, <2>2, <2>3, TurnsServed
  <2> QED BY <2>4, <2>5
<1>7. PendingHolds(list) = left
  <2> HIDE DEF chosen, turned
  <2> QED BY <1>1, <1>2, <1>3 DEF PendingHolds, ExpiredHolds, HoldExpired, HoldActive, Pending
<1>8. ActiveHolds(list, clock)
        = ActiveHolds(row, clock) \cup (IF until > clock THEN turned ELSE {})
  <2> HIDE DEF turned, chosen
  <2>1. \A h \in holds : h \notin ActiveHolds(row, clock)
    BY <1>2 DEF ActiveHolds, HoldActive, Pending
  <2>2. ActiveHolds(row, clock) \cap gone = {}
    BY <1>1 DEF ActiveHolds, ExpiredHolds
  <2>3. \A g \in turned : g \in ActiveHolds(list, clock) <=> until > clock
    BY <1>1, <1>3 DEF ActiveHolds, HoldActive, HoldExpired, Pending
  <2>4. \A h \in row.hold_queue : h \notin chosen =>
          (h \in ActiveHolds(list, clock) <=> h \in ActiveHolds(row, clock))
    BY <1>1, <2>2 DEF ActiveHolds, ExpiredHolds
  <2>5. \A h \in ActiveHolds(list, clock) : h \in turned \/ h \in row.hold_queue \ chosen
    BY <1>1 DEF ActiveHolds
  <2>6. \A h \in ActiveHolds(row, clock) : h \in row.hold_queue /\ h \notin chosen
    BY <1>2, <2>1 DEF ActiveHolds
  <2> QED BY <2>3, <2>4, <2>5, <2>6
<1>9. {q[i] : i \in 1 .. m} = {h.netid : h \in chosen}
  <2> HIDE DEF chosen, q, holds, all
  <2>1. \A i \in 1 .. m : i \in 1 .. all
    BY <1>5, <1>6
  <2> QED BY <1>5, <1>6, <2>1
<1>10. Offers(list, clock) \in {Offers(row, clock) \cup {q[i] : i \in 1 .. m}, Offers(row, clock)}
  <2>1. {g.netid : g \in turned} = {h.netid : h \in chosen}
    <3> HIDE DEF turned
    <3> QED BY <1>3, <1>4
  <2> HIDE DEF turned, chosen, q
  <2>2. CASE until > clock
    <3>1. Offers(list, clock) = Offers(row, clock) \cup {g.netid : g \in turned}
      BY <1>8, <2>2 DEF Offers
    <3> QED BY <1>9, <2>1, <3>1
  <2>3. CASE ~(until > clock)
    BY <1>8, <2>3 DEF Offers
  <2> QED BY <2>2, <2>3
<1>11. Waiting(list) = SubSeq(q, m + 1, Len(q))
  <2> HIDE DEF chosen, q, holds, all, left
  <2>1. Waiting(list) = [i \in 1 .. all - m |-> InTurn(left)[i].netid]
    BY <1>6, <1>7 DEF Waiting
  <2>2. \A i \in 1 .. all - m : i + m \in 1 .. all /\ InTurn(left)[i].netid = q[i + m]
    BY <1>5, <1>6
  <2> DEFINE r == SubSeq(q, m + 1, Len(q))
  <2>3. r = [i \in 1 .. all - m |-> q[i + m]]
    <3>1. /\ r \in Seq(Patrons) /\ Len(r) = all - m
          /\ \A i \in 1 .. all - m : r[i] = q[i + m]
      BY <1>5, <1>6
    <3> HIDE DEF r
    <3> QED BY <3>1
  <2> HIDE DEF r
  <2>4. r = [i \in 1 .. all - m |-> InTurn(left)[i].netid]
    BY <2>2, <2>3
  <2> QED BY <2>1, <2>4 DEF r
<1>12. Loans(list, clock) = Loans(row, clock)
  BY DEF Loans
<1>13. Cardinality(Loans(list, clock)) + Cardinality(Offers(list, clock)) <= Cardinality(Items)
  BY LoansAndOffers DEF ListSound, Fits
<1> HIDE DEF q
<1>14. m \in 0 .. Len(q)
  BY <1>5, <1>6
<1>15. \E k \in 0 .. Len(q) :
         /\ Offers(list, clock) \in {Offers(row, clock) \cup {q[i] : i \in 1 .. k},
                                     Offers(row, clock)}
         /\ Waiting(list) = SubSeq(q, k + 1, Len(q))
         /\ Loans(list, clock) = Loans(row, clock)
         /\ Cardinality(Loans(list, clock)) + Cardinality(Offers(list, clock))
              <= Cardinality(Items)
  BY <1>10, <1>11, <1>12, <1>13, <1>14
<1> QED BY <1>15 DEF q
-----------------------------------------------------------------------------
(***************************************************************************)
(* Each step is one of Lending, or invisible there                         *)
(***************************************************************************)
LEMMA SameCardinality == \A S : Promised!Cardinality(S) = Cardinality(S)
BY DEF Promised!Cardinality, Cardinality

\* Nobody is given anything.
LEMMA Lapses ==
    ASSUME NEW t \in Titles,
           Loans(List(t), clock)' \subseteq Loans(List(t), clock),
           Offers(List(t), clock)' \subseteq Offers(List(t), clock),
           Waiting(List(t))' = Waiting(List(t))
    PROVE  Promised!Step(t)
<1>1. Promised!Lapse(t)
  BY DEF Promised!Lapse
<1> QED BY <1>1 DEF Promised!Step

\* While a list stays as it is, time can only take away what it promises.
LEMMA TimePasses ==
    ASSUME NEW t \in Titles, List(t) \in ResourceChargeList, List(t)' = List(t),
           clock \in Nat, clock' \in Nat, clock <= clock'
    PROVE  Promised!Step(t)
<1> DEFINE list == List(t)
<1>1. \A c \in list.charged_items : ChargeExpired(c, clock) => ChargeExpired(c, clock')
  BY DEF ChargeExpired, ResourceChargeList, ChargedItem
<1>2. \A h \in list.hold_queue : HoldExpired(h, clock) => HoldExpired(h, clock')
  BY DEF HoldExpired, ResourceChargeList, Hold
<1>3. Loans(list, clock') \subseteq Loans(list, clock)
  <2>1. ClearExpiredCharges(list, clock').charged_items
          \subseteq ClearExpiredCharges(list, clock).charged_items
    BY <1>1, LentOf
  <2> QED BY <2>1 DEF Loans
<1>4. Offers(list, clock') \subseteq Offers(list, clock)
  BY <1>2 DEF Offers, ActiveHolds
<1>5. /\ Loans(List(t), clock)' = Loans(list, clock')
      /\ Offers(List(t), clock)' = Offers(list, clock')
      /\ Waiting(List(t))' = Waiting(list)
  OBVIOUS
<1> QED BY <1>3, <1>4, <1>5, Lapses

LEMMA ListsSound ==
    ASSUME ExactInv, NEW t \in Titles
    PROVE  /\ clock \in Nat /\ List(t) \in ResourceChargeList
           /\ ListSound(List(t), t, clock, mails)
BY DEF ExactInv, Inv, Typed, TypeOK, EveryListSound, EverySaveExact, OneRow, List

\* What a request saves lends a copy, lets the patron join the queue, or gives a
\* copy back.
LEMMA ActMaps ==
    ASSUME ExactInv, NEW w \in Workers, NEW list,
           Decided(w, list), Replaces(w, list), UNCHANGED clock,
           NEW t \in Titles, t = req[w].title, NEW p \in Patrons, p = req[w].netid
    PROVE  Promised!Step(t)
<1> DEFINE r == req[w]
           copies == items[t]
<1>1. /\ r.list \in ResourceChargeList
      /\ list \in ResourceChargeList /\ copies \in SUBSET Items /\ clock \in Nat
      /\ ListSound(r.list, t, clock, mails) /\ SameAt(r.list, List(t), clock)
  BY DEF Replaces, ExactInv, Inv, Typed, TypeOK, EveryListSound
<1>2. /\ Loans(r.list, clock) = Loans(List(t), clock)
      /\ Offers(r.list, clock) = Offers(List(t), clock)
      /\ Waiting(r.list) = Waiting(List(t))
  BY <1>1, SamePromise
<1>3. List(t)' = Saved(list)
  BY <1>1, ReplacedRows
<1>4. /\ Loans(List(t), clock)' = Loans(list, clock)
      /\ Offers(List(t), clock)' = Offers(list, clock)
      /\ Waiting(List(t))' = Waiting(list)
  BY <1>1, <1>3, SavedPromise
<1>5. CASE /\ ~ActiveCharge(r.list, p)
           /\ AvailableForCharge(r.list, p, copies, clock)
           /\ \E item \in AvailableItemIds(r.list, copies) :
                list = WithCharge(r.list, p, item, clock)
  <2>1. PICK item \in AvailableItemIds(r.list, copies) : list = WithCharge(r.list, p, item, clock)
    BY <1>5
  <2>2. ChecksOut(r.list, list, p, item, clock)
    BY <1>1, <1>5, <2>1, CheckOutPromise
  <2>3. item \in Promised!FreeCopies(t) /\ p \notin Promised!Borrowers(t)
    BY <1>1, <1>2, <2>2 DEF ChecksOut, Promised!FreeCopies, Promised!Borrowers
  <2>4. Promised!CheckOut(t, p)
    BY <1>1, <1>2, <1>4, <2>2, <2>3, SameCardinality
       DEF ChecksOut, Promised!CheckOut, Promised!RemoveAt, RemoveAt, Promised!ToSet, ToSet
  <2> QED BY <1>1, <2>4 DEF Promised!Step
<1>6. CASE ~HoldFor(r.list, p, clock) /\ list = WithHold(r.list, p)
  <2>1. Joins(r.list, list, p, clock)
    BY <1>1, <1>6, JoinPromise
  <2>2. Promised!Join(t, p)
    BY <1>1, <1>2, <1>4, <2>1 DEF Joins, Promised!Join, Promised!ToSet, ToSet
  <2> QED BY <1>1, <2>2 DEF Promised!Step
<1>7. CASE list = WithoutCharges(r.list, p)
  <2>1. /\ list.charged_items \subseteq r.list.charged_items
        /\ list.hold_queue = r.list.hold_queue
    BY <1>1, <1>7 DEF WithoutCharges, ResourceChargeList
  <2>2. ClearExpiredCharges(list, clock).charged_items
          \subseteq ClearExpiredCharges(r.list, clock).charged_items
    BY <1>1, <2>1, LentOf
  <2>3. /\ Loans(list, clock) \subseteq Loans(r.list, clock)
        /\ Offers(list, clock) = Offers(r.list, clock)
        /\ Waiting(list) = Waiting(r.list)
    BY <2>1, <2>2 DEF Loans, Offers, ActiveHolds, Waiting, PendingHolds
  <2> QED BY <1>1, <1>2, <1>4, <2>3, Lapses
<1> QED BY <1>5, <1>6, <1>7 DEF Decided

\* What the cron job commits for a title offers its copies to the first who wait.
LEMMA CommitMaps ==
    ASSUME ExactInv, BatchCommit, NEW t \in Titles
    PROVE  Promised!Step(t)
<1>1. UNCHANGED clock
  BY DEF BatchCommit
<1>2. /\ clock \in Nat /\ List(t) \in ResourceChargeList
      /\ ListSound(List(t), t, clock, mails)
  BY ListsSound
<1>3. CASE List(t)' = List(t)
  BY <1>1, <1>2, <1>3, TimePasses
<1>4. CASE <<t, Row(t)>> \in DOMAIN txn /\ List(t)' = txn[<<t, Row(t)>>]
  <2> DEFINE list == txn[<<t, Row(t)>>]
             q == Waiting(List(t))
  <2>1. list \in ResourceChargeList /\ ListSound(list, t, clock, mails)
    BY <1>4 DEF ExactInv, Inv, Typed, TypeOK, EveryListSound
  <2>2. /\ ClearExpiredCharges(list, clock).charged_items
             = ClearExpiredCharges(List(t), clock).charged_items
        /\ \E n \in Nat, until \in Nat \ {0} : Served(list, List(t), n, until, clock)
    BY <1>4 DEF ExactInv, EverySaveExact, TxnServed, List
  <2>3. PICK n \in Nat, until \in Nat \ {0} : Served(list, List(t), n, until, clock)
    BY <2>2
  <2> HIDE DEF list
  <2>4. \E m \in 0 .. Len(q) :
          /\ Offers(list, clock) \in {Offers(List(t), clock) \cup {q[i] : i \in 1 .. m},
                                      Offers(List(t), clock)}
          /\ Waiting(list) = SubSeq(q, m + 1, Len(q))
          /\ Loans(list, clock) = Loans(List(t), clock)
          /\ Cardinality(Loans(list, clock)) + Cardinality(Offers(list, clock))
               <= Cardinality(Items)
    BY <1>2, <2>1, <2>2, <2>3, ServedPromise
  <2>5. PICK m \in 0 .. Len(q) :
          /\ Offers(list, clock) \in {Offers(List(t), clock) \cup {q[i] : i \in 1 .. m},
                                      Offers(List(t), clock)}
          /\ Waiting(list) = SubSeq(q, m + 1, Len(q))
          /\ Loans(list, clock) = Loans(List(t), clock)
          /\ Cardinality(Loans(list, clock)) + Cardinality(Offers(list, clock))
               <= Cardinality(Items)
    BY <2>4
  <2>6. /\ Loans(List(t), clock)' = Loans(list, clock)
        /\ Offers(List(t), clock)' = Offers(list, clock)
        /\ Waiting(List(t))' = Waiting(list)
    BY <1>1, <1>4 DEF list
  <2>7. CASE m = 0
    <3>1. q \in Seq(Patrons)
      BY <1>2, PatronsInTurn
    <3>2. SubSeq(q, 1, Len(q)) = q
      <4> HIDE DEF q
      <4> QED BY <3>1
    <3>3. Waiting(list) = q
      BY <2>5, <2>7, <3>2
    <3>4. Offers(list, clock) = Offers(List(t), clock)
      <4>1. {q[i] : i \in 1 .. m} = {}
        BY <2>7
      <4> HIDE DEF q
      <4> QED BY <2>5, <4>1
    <3> QED BY <2>5, <2>6, <3>3, <3>4, Lapses
  <2>8. CASE m # 0
    <3>1. m \in 1 .. Len(q)
      BY <2>8
    <3>2. Promised!Offer(t, m)
      BY <2>5, <2>6, <3>1, SameCardinality DEF Promised!Offer
    <3> QED BY <3>1, <3>2 DEF Promised!Step
  <2> QED BY <2>7, <2>8
<1> QED BY <1>3, <1>4, CommittedRows

LEMMA StepMaps == ExactInv /\ [Next]_vars => [Promised!Next]_(Promised!vars)
<1> SUFFICES ASSUME ExactInv, [Next]_vars
             PROVE  Promised!Next \/ UNCHANGED Promised!vars
  OBVIOUS
<1>1. CASE UNCHANGED <<clock, lists>>
  <2>1. UNCHANGED Promised!vars
    BY <1>1 DEF Promised!vars, List, Row
  <2> QED BY <2>1
<1>2. ASSUME NEW w \in Workers, Act(w)
      PROVE  Promised!Next \/ UNCHANGED Promised!vars
  <2>1. UNCHANGED clock /\ (UNCHANGED lists \/ \E list : Decided(w, list) /\ Replaces(w, list))
    BY <1>2, ActReplaces
  <2>2. CASE UNCHANGED lists
    BY <1>1, <2>1, <2>2
  <2>3. ASSUME NEW list, Decided(w, list), Replaces(w, list), NEW t \in Titles
        PROVE  Promised!Step(t)
    <3>1. CASE t = req[w].title
      <4>1. req[w].netid \in Patrons
        BY <1>2 DEF Act, ExactInv, Inv, Typed, Addressed
      <4> QED BY <2>1, <2>3, <3>1, <4>1, ActMaps
    <3>2. CASE t # req[w].title
      <4>1. List(t)' = List(t)
        BY <2>3, <3>2, ReplacedRows
      <4> QED BY <2>1, <4>1, ListsSound, TimePasses
    <3> QED BY <3>1, <3>2
  <2> QED BY <2>1, <2>2, <2>3 DEF Promised!Next
<1>3. CASE BatchCommit
  BY <1>3, CommitMaps DEF Promised!Next
<1>4. CASE Tick
  <2>1. clock' = clock + 1 /\ UNCHANGED lists
    BY <1>4 DEF Tick
  <2>2. \A t \in Titles : List(t)' = List(t)
    BY <2>1 DEF List, Row
  <2> QED BY <2>1, <2>2, ListsSound, TimePasses DEF Promised!Next
<1> QED BY <1>1, <1>2, <1>3, <1>4
        DEF Next, vars, Begin, Retry, Load, BatchStart, BatchStep, BatchLoad, BatchExpire,
            BatchActivate, BatchCrash, ChangeItems

LEMMA InitMaps == ExactInv /\ Init => Promised!Init
<1> SUFFICES ASSUME ExactInv, Init, NEW t \in Titles
             PROVE  /\ Loans(List(t), clock) = {} /\ Offers(List(t), clock) = {}
                    /\ Waiting(List(t)) = <<>>
  BY DEF Promised!Init
<1>1. List(t).charged_items = {} /\ List(t).hold_queue = {} /\ List(t) \in ResourceChargeList
  <2>1. Row(t) \in Slots
    BY DEF ExactInv, EverySaveExact, OneRow
  <2>2. \A s \in Slots : lists[t][s].charged_items = {} /\ lists[t][s].hold_queue = {}
    BY DEF Init, UnsavedList
  <2> QED BY <2>1, <2>2, ListsSound DEF List
<1>2. Loans(List(t), clock) = {}
  BY <1>1, LentOf DEF Loans
<1>3. Offers(List(t), clock) = {}
  BY <1>1 DEF Offers, ActiveHolds
<1>4. PendingHolds(List(t)) = {}
  BY <1>1 DEF PendingHolds
<1>5. Waiting(List(t)) = <<>>
  <2>1. Cardinality(PendingHolds(List(t))) = 0
    BY <1>4, FS_EmptySet
  <2>2. Waiting(List(t)) \in Seq(Patrons) /\ Len(Waiting(List(t))) = 0
    BY <2>1, ListsSound, PatronsInTurn
  <2> QED BY <2>2
<1> QED BY <1>2, <1>3, <1>5

\* If every title has its charge list to begin with, lending with its database, its
\* concurrent requests, its stale copies and its cron job is lending as Lending
\* describes it: whatever is stored came about by patrons borrowing, giving back,
\* joining the queue and being served first come first served.
THEOREM LendingImplemented == Borrowed = Titles => (Spec => ImplementsLending)
<1> SUFFICES ASSUME Borrowed = Titles PROVE Spec => ImplementsLending
  OBVIOUS
<1>1. Init => ExactInv
  BY ExactInit
<1>2. ExactInv /\ [Next]_vars => ExactInv'
  BY ExactStep
<1>3. ExactInv /\ Init => Promised!Init
  BY InitMaps
<1>4. ExactInv /\ [Next]_vars => [Promised!Next]_(Promised!vars)
  BY StepMaps
<1> QED BY <1>1, <1>2, <1>3, <1>4, PTL DEF Spec, ImplementsLending, Promised!Spec
=============================================================================
