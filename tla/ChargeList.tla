----------------------------- MODULE ChargeList -----------------------------
(***************************************************************************)
(* One title's CDL::ResourceChargeList as a value, and what                *)
(* CDL::ChargeManager computes from it: who has which copy, who waits, who *)
(* may borrow.  Nothing here has state; ControlledDigitalLending applies   *)
(* these operators to the list a request has in memory.                    *)
(*                                                                         *)
(* The hold queue is an ordered array in the code.  Here it is a set of    *)
(* holds with a `place': the order of the array is the order of the places. *)
(* A save appends at most one hold and each save counts the list's version *)
(* up, so the version a hold was appended to serves as its place.          *)
(***************************************************************************)
EXTENDS Integers, FiniteSets

CONSTANTS
    Patrons,       \* netids that can sign in
    Items,         \* ids of all physical copies there are
    NoItem,        \* item_id nil: what `first' gives of no available copy
    ChargePeriod,  \* 3.hours, in ticks
    HoldPeriod     \* 1.hour, in ticks

ASSUME PeriodAssumption == /\ ChargePeriod \in Nat \ {0}
                           /\ HoldPeriod \in Nat \ {0}

\* A library has so many copies and no more; nil is none of them
ASSUME ItemsAssumption == IsFiniteSet(Items) /\ NoItem \notin Items

\* expiration_time of a hold nobody has activated (nil in the code)
Pending == 0

ChargedItem == [item_id : Items \cup {NoItem}, netid : Patrons, expiration_time : Nat]

Hold == [netid : Patrons, expiration_time : Nat, place : Nat]

\* version is the optimistic lock token; 0 means the list was never saved
ResourceChargeList ==
    [version : Nat, charged_items : SUBSET ChargedItem, hold_queue : SUBSET Hold]

UnsavedList == [version |-> 0, charged_items |-> {}, hold_queue |-> {}]
-----------------------------------------------------------------------------
(***************************************************************************)
(* Charges                                                                 *)
(***************************************************************************)
ChargeExpired(c, now) == now > c.expiration_time

\* Slip: charges are never cleared
ClearExpiredChargesForgotten(list, now) == list

ClearExpiredCharges(list, now) ==
    [list EXCEPT !.charged_items = {c \in @ : ~ChargeExpired(c, now)}]

ActiveCharge(list, p) == \E c \in list.charged_items : c.netid = p

AvailableItemIds(list, copies) ==
    copies \ {c.item_id : c \in list.charged_items}

\* available_item_ids.first: bibdata promises no order, so any of them, or nil
FirstAvailable(list, copies) ==
    IF AvailableItemIds(list, copies) = {} THEN {NoItem}
    ELSE AvailableItemIds(list, copies)
-----------------------------------------------------------------------------
(***************************************************************************)
(* Holds                                                                   *)
(***************************************************************************)
HoldActive(h) == h.expiration_time # Pending

\* Slip: an active hold stays active
HoldNeverExpires(h, now) == FALSE

HoldExpired(h, now) == HoldActive(h) /\ h.expiration_time <= now

ExpiredHolds(list, now) == {h \in list.hold_queue : HoldExpired(h, now)}

PendingHolds(list) == {h \in list.hold_queue : ~HoldActive(h)}

ActiveHolds(list, now) ==
    {h \in list.hold_queue : HoldActive(h) /\ ~HoldExpired(h, now)}

PendingOrActiveHolds(list, now) == list.hold_queue \ ExpiredHolds(list, now)

HasActiveHold(list, p, now) == \E h \in ActiveHolds(list, now) : h.netid = p

\* Slip: only active holds count, as in active_hold?
HoldForActiveOnly(list, p, now) == HasActiveHold(list, p, now)

HoldFor(list, p, now) == \E h \in PendingOrActiveHolds(list, now) : h.netid = p

\* Slip: Array#last
LastHolds(holds, n) ==
    {h \in holds : Cardinality({g \in holds : g.place > h.place}) < n}

\* Array#first: the n holds with the lowest places (none when n = 0)
FirstHolds(holds, n) ==
    {h \in holds : Cardinality({g \in holds : g.place < h.place}) < n}
-----------------------------------------------------------------------------
(***************************************************************************)
(* What ChargeManager decides                                              *)
(***************************************************************************)
AvailableChargeSlot(list, copies) ==
    Cardinality(list.charged_items) < Cardinality(copies)

\* Slip: holds do not keep copies back
AvailableIgnoringHolds(list, p, copies, now) ==
    /\ copies # {}
    /\ AvailableChargeSlot(list, copies)

AvailableForCharge(list, p, copies, now) ==
    /\ copies # {}
    /\ \/ AvailableChargeSlot(list, copies) /\ HasActiveHold(list, p, now)
       \/ Cardinality(list.charged_items)
              + Cardinality(PendingOrActiveHolds(list, now)) < Cardinality(copies)

WithCharge(list, p, item, now) ==
    [list EXCEPT
        !.charged_items = @ \cup {[item_id |-> item, netid |-> p,
                                   expiration_time |-> now + ChargePeriod]},
        !.hold_queue = {h \in @ : h.netid # p}]

WithoutCharges(list, p) ==
    [list EXCEPT !.charged_items = {c \in @ : c.netid # p}]

WithHold(list, p) ==
    [list EXCEPT !.hold_queue = @ \cup
        {[netid |-> p, expiration_time |-> Pending, place |-> list.version]}]

WithoutExpiredHolds(list, now) ==
    [list EXCEPT !.hold_queue = PendingOrActiveHolds(list, now)]

\* pending_holds.first(n) raises ArgumentError when n is negative
TooManyActiveHolds(list, copies, now) ==
    Cardinality(AvailableItemIds(list, copies)) < Cardinality(ActiveHolds(list, now))

HoldsToActivate(list, copies, now) ==
    FirstHolds(PendingHolds(list),
               Cardinality(AvailableItemIds(list, copies))
                   - Cardinality(ActiveHolds(list, now)))

WithActivated(list, activated, now) ==
    [list EXCEPT !.hold_queue = (@ \ activated) \cup
        {[h EXCEPT !.expiration_time = now + HoldPeriod] : h \in activated}]
=============================================================================
