-------------------------- MODULE LendingRefinement --------------------------
(***************************************************************************)
(* ControlledDigitalLending implements Lending when every title already    *)
(* has its one charge list (Borrowed = Titles): a request's or the cron    *)
(* job's save, guarded by the lock token, is one atomic step of Lending.   *)
(*                                                                         *)
(* The mapping reads the committed rows at the present time: a loan is a   *)
(* charge that has not expired, an offer an active hold that has not       *)
(* expired, and the pending holds wait in the order of their places.       *)
(***************************************************************************)
EXTENDS ControlledDigitalLending, SequencesExt

Row(t) == CHOOSE s \in Slots : lists[t][s].version > 0

List(t) == lists[t][Row(t)]

Loans(list, now) ==
    {[copy |-> c.item_id, patron |-> c.netid] :
        c \in ClearExpiredCharges(list, now).charged_items}

Offers(list, now) == {h.netid : h \in ActiveHolds(list, now)}

\* How many of holds are served before h
Before(h, holds) == Cardinality({g \in holds : g.place < h.place})

InTurn(holds) ==
    [i \in 1 .. Cardinality(holds) |-> CHOOSE h \in holds : Before(h, holds) = i - 1]

Waiting(list) ==
    [i \in 1 .. Cardinality(PendingHolds(list)) |-> InTurn(PendingHolds(list))[i].netid]

Promised == INSTANCE Lending WITH
    Copies <- Items,
    loans <- [t \in Titles |-> Loans(List(t), clock)],
    offers <- [t \in Titles |-> Offers(List(t), clock)],
    waiting <- [t \in Titles |-> Waiting(List(t))]

\* Every step of the running system is a step of Lending, or invisible there:
\* nobody is served out of turn, no save undoes another one, and no copy is
\* lent that is kept back for someone else.
ImplementsLending == Promised!Spec
-----------------------------------------------------------------------------
(***************************************************************************)
(* What the proofs of HoldsNotLost and ImplementsLending rest on           *)
(***************************************************************************)
\* A title has one row, and whoever has loaded a list has loaded that one
OneRow == \A t \in Titles :
    /\ Row(t) \in Slots /\ lists[t][Row(t)].version > 0
    /\ \A s \in Slots : lists[t][s].version > 0 => s = Row(t)

SameAt(list, row, now) ==
    /\ list.hold_queue = row.hold_queue
    /\ ClearExpiredCharges(list, now).charged_items
         = ClearExpiredCharges(row, now).charged_items

\* A list in memory with the token of its row says what the row says
Exact(list, row) == list.version = row.version => SameAt(list, row, clock)

RequestsExact == \A w \in Workers : req[w].pc = "loaded" =>
    req[w].row = Row(req[w].title) /\ Exact(req[w].list, List(req[w].title))

InHand == <<batch.title, batch.row>>

BatchExact == InUse =>
    /\ batch.row = Row(batch.title)
    /\ Exact(batch.list, TxnRows(batch.title)[batch.row])

\* A run of the cron job comes to each row once
BatchOnce ==
    /\ \A k \in batch.todo : k[2] = Row(k[1]) /\ k \notin DOMAIN txn
    /\ InUse => InHand \notin batch.todo
    /\ batch.pc = "loaded" => InHand \notin DOMAIN txn
    /\ batch.pc = "idle" => DOMAIN txn = {}

\* What the cron job makes of a row: some holds that have expired are gone, and
\* the first n of those that wait are active until the same hour
Served(list, row, n, until, now) ==
    \E gone \in SUBSET ExpiredHolds(row, now) :
        LET chosen == FirstHolds(PendingHolds(row), n)
        IN  list.hold_queue = (row.hold_queue \ (gone \cup chosen))
                \cup {[h EXCEPT !.expiration_time = until] : h \in chosen}

TxnServed == \A k \in DOMAIN txn :
    /\ ClearExpiredCharges(txn[k], clock).charged_items
         = ClearExpiredCharges(lists[k[1]][k[2]], clock).charged_items
    /\ \E n \in Nat, until \in Nat \ {0} :
         /\ Served(txn[k], lists[k[1]][k[2]], n, until, clock)
         /\ InUse /\ k = InHand => n = 0

\* Row by row, token by token, the run of the cron job and every request work on
\* what is stored.
EverySaveExact == /\ OneRow
                  /\ RequestsExact
                  /\ BatchExact
                  /\ BatchOnce
                  /\ TxnServed
=============================================================================
