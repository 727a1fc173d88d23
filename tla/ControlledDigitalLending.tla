---------------------- MODULE ControlledDigitalLending ----------------------
(***************************************************************************)
(* Controlled digital lending as it runs: web requests of patrons          *)
(* (CDL::CDLController) and the cron job that serves the hold queues       *)
(* (CDL::BulkHoldProcessor) read and write the charge lists of the titles  *)
(* in the database, each through a ChargeManager of its own.               *)
(*                                                                         *)
(* A request loads the list in one step and decides and saves in another:  *)
(* other requests, the cron job and the clock move in between, and only    *)
(* the optimistic lock token tells.  A request whose token is stale starts *)
(* over.  The cron job runs in one database transaction: its writes are    *)
(* locked and unseen by others until it commits, and one error takes all   *)
(* of them back, but not the mail it has already queued.                   *)
(***************************************************************************)
EXTENDS ChargeList

CONSTANTS
    Titles,         \* resources that can be lent
    Borrowed,       \* titles that have a saved charge list to begin with
    Slots,          \* room for the charge lists saved for one title
    NewRow,         \* the `row' of a list that was built, not found
    Workers,        \* web server threads
    NoOne,          \* no patron, no title: an idle worker or an idle job
    MaxAttempts,    \* tries of one request: retry_stale(times: 5) makes 4
    MaxRequests,    \* bound: requests begun
    MaxItemChanges, \* bound: changes of the copies set aside for a title
    MaxCrashes      \* bound: crashes of the cron job

ASSUME LendingAssumption == /\ Borrowed \subseteq Titles
                            /\ NewRow \notin Slots
                            /\ NoOne \notin Patrons \cup Titles
                            /\ MaxAttempts \in Nat \ {0}

VARIABLES
    clock,
    items,    \* title -> copies EligibleItemService reports (bibdata, external)
    lists,    \* title -> slot -> committed ResourceChargeList row
    req,      \* worker -> the request it serves
    batch,    \* the run of BulkHoldProcessor.process!
    txn,      \* rows the run has written and not committed
    mails,    \* hold mails queued for delivery
    spent     \* what is used up of each bound

vars == <<clock, items, lists, req, batch, txn, mails, spent>>

Ops == {"charge", "hold", "return"}

Replies == {"none", "redirected", "unavailable", "already_reserved", "thanked"}

Mail == [kind : {"activated", "expired"}, title : Titles, netid : Patrons,
         expiration_time : Nat]

Request == [pc : {"idle", "loaded", "stale"}, op : Ops \cup {NoOne},
            netid : Patrons \cup {NoOne}, title : Titles \cup {NoOne},
            attempt : Nat, row : Slots \cup {NewRow}, list : ResourceChargeList,
            reply : Replies]

IdleRequest == [pc |-> "idle", op |-> NoOne, netid |-> NoOne, title |-> NoOne,
                attempt |-> 0, row |-> NewRow, list |-> UnsavedList,
                reply |-> "none"]

Batch == [pc : {"idle", "next", "loaded", "expired"},
          todo : SUBSET (Titles \X Slots), title : Titles \cup {NoOne},
          row : Slots \cup {NewRow}, list : ResourceChargeList]

IdleBatch == [pc |-> "idle", todo |-> {}, title |-> NoOne, row |-> NewRow,
              list |-> UnsavedList]

NoWrites == [k \in {} |-> UnsavedList]

TypeOK ==
    /\ clock \in Nat
    /\ items \in [Titles -> SUBSET Items]
    /\ lists \in [Titles -> [Slots -> ResourceChargeList]]
    /\ req \in [Workers -> Request]
    /\ batch \in Batch
    /\ DOMAIN txn \subseteq Titles \X Slots
    /\ \A k \in DOMAIN txn : txn[k] \in ResourceChargeList
    /\ mails \subseteq Mail
    /\ spent \in [requests : Nat, items : Nat, crashes : Nat]

Init ==
    /\ clock = 1
    /\ items = [t \in Titles |-> Items]
    /\ \E slot \in Slots :
         lists = [t \in Titles |-> [s \in Slots |->
                    IF t \in Borrowed /\ s = slot
                    THEN [UnsavedList EXCEPT !.version = 1] ELSE UnsavedList]]
    /\ req = [w \in Workers |-> IdleRequest]
    /\ batch = IdleBatch
    /\ txn = NoWrites
    /\ mails = {}
    /\ spent = [requests |-> 0, items |-> 0, crashes |-> 0]
-----------------------------------------------------------------------------
(***************************************************************************)
(* Reading and saving a charge list                                        *)
(***************************************************************************)
Saved(list) == [list EXCEPT !.version = @ + 1]

\* Wayfinder#resource_charge_list: the first row of a query without an order
FirstRow(rows, row) ==
    IF \A s \in Slots : rows[s].version = 0
    THEN row = NewRow
    ELSE row \in Slots /\ rows[row].version > 0

Loaded(rows, row) ==
    ClearExpiredCharges(IF row = NewRow THEN UnsavedList ELSE rows[row], clock)

\* The rows of title t as the cron job's transaction sees them
TxnRows(t) ==
    [s \in Slots |-> IF <<t, s>> \in DOMAIN txn THEN txn[<<t, s>>] ELSE lists[t][s]]
-----------------------------------------------------------------------------
(***************************************************************************)
(* Web requests                                                            *)
(***************************************************************************)
Load(w, op, p, t, attempt) ==
    \E row \in Slots \cup {NewRow} :
        /\ FirstRow(lists[t], row)
        /\ req' = [req EXCEPT ![w] =
             [pc |-> "loaded", op |-> op, netid |-> p, title |-> t,
              attempt |-> attempt, row |-> row, list |-> Loaded(lists[t], row),
              reply |-> "none"]]
        /\ UNCHANGED <<clock, items, lists, batch, txn, mails>>

\* A signed-in patron posts a form; the worker builds a ChargeManager
Begin(w, op, p, t) ==
    /\ req[w].pc = "idle"
    /\ spent.requests < MaxRequests
    /\ spent' = [spent EXCEPT !.requests = @ + 1]
    /\ Load(w, op, p, t, 1)

\* retry_stale: the block runs again, with a new ChargeManager
Retry(w) ==
    /\ req[w].pc = "stale"
    /\ Load(w, req[w].op, req[w].netid, req[w].title, req[w].attempt + 1)
    /\ UNCHANGED spent

Answer(w, reply) == req' = [req EXCEPT ![w] = [IdleRequest EXCEPT !.reply = reply]]

AnswerOnly(w, reply) == Answer(w, reply) /\ UNCHANGED lists

SaveNew(w, list, reply) ==
    /\ req[w].row = NewRow
    /\ \E s \in Slots :
         /\ lists[req[w].title][s].version = 0
         /\ lists' = [lists EXCEPT ![req[w].title][s] = Saved(list)]
    /\ Answer(w, reply)

\* Slip: the list is saved without optimistic locking
SaveUnlocked(w, list, reply) ==
    LET r == req[w] IN
    /\ r.row # NewRow
    /\ <<r.title, r.row>> \notin DOMAIN txn
    /\ lists' = [lists EXCEPT ![r.title][r.row] = Saved(list)]
    /\ Answer(w, reply)

\* The row lock of the cron job's transaction holds up a save that would match
SaveFresh(w, list, reply) ==
    LET r == req[w] IN
    /\ r.row # NewRow
    /\ lists[r.title][r.row].version = r.list.version
    /\ <<r.title, r.row>> \notin DOMAIN txn
    /\ lists' = [lists EXCEPT ![r.title][r.row] = Saved(list)]
    /\ Answer(w, reply)

\* StaleObjectError; after the last attempt the method goes on as if saved
SaveStale(w, reply) ==
    LET r == req[w] IN
    /\ r.row # NewRow
    /\ lists[r.title][r.row].version # r.list.version
    /\ \/ /\ r.attempt < MaxAttempts
          /\ req' = [req EXCEPT ![w] = [@ EXCEPT !.pc = "stale", !.row = NewRow,
                                                 !.list = UnsavedList]]
       \/ /\ r.attempt = MaxAttempts
          /\ Answer(w, reply)
    /\ UNCHANGED lists

Save(w, list, reply) == \/ SaveNew(w, list, reply)
                        \/ SaveFresh(w, list, reply)
                        \/ SaveStale(w, reply)

\* Slip: an existing charge is not looked for
CreateChargeAnyway(w) ==
    LET r == req[w]
        copies == items[r.title]
    IN  IF ~AvailableForCharge(r.list, r.netid, copies, clock)
        THEN AnswerOnly(w, "unavailable")
        ELSE \E item \in FirstAvailable(r.list, copies) :
                Save(w, WithCharge(r.list, r.netid, item, clock), "redirected")

CreateCharge(w) ==
    LET r == req[w]
        copies == items[r.title]
    IN  IF ActiveCharge(r.list, r.netid) THEN AnswerOnly(w, "redirected")
        ELSE IF ~AvailableForCharge(r.list, r.netid, copies, clock)
             THEN AnswerOnly(w, "unavailable")
             ELSE \E item \in FirstAvailable(r.list, copies) :
                     Save(w, WithCharge(r.list, r.netid, item, clock), "redirected")

CreateHold(w) ==
    LET r == req[w]
        copies == items[r.title]
    IN  IF HoldFor(r.list, r.netid, clock) THEN AnswerOnly(w, "already_reserved")
        ELSE IF AvailableForCharge(r.list, r.netid, copies, clock)
             THEN CreateCharge(w)
             ELSE Save(w, WithHold(r.list, r.netid), "redirected")

Return(w) ==
    LET r == req[w]
    IN  IF ~ActiveCharge(r.list, r.netid) THEN AnswerOnly(w, "redirected")
        ELSE Save(w, WithoutCharges(r.list, r.netid), "thanked")

Act(w) ==
    /\ req[w].pc = "loaded"
    /\ \/ req[w].op = "charge" /\ CreateCharge(w)
       \/ req[w].op = "hold"   /\ CreateHold(w)
       \/ req[w].op = "return" /\ Return(w)
    /\ UNCHANGED <<clock, items, batch, txn, mails, spent>>
-----------------------------------------------------------------------------
(***************************************************************************)
(* The cron job                                                            *)
(***************************************************************************)
HeldLists == {k \in Titles \X Slots : lists[k[1]][k[2]].hold_queue # {}}

BatchStart ==
    /\ batch.pc = "idle"
    /\ batch' = [IdleBatch EXCEPT !.pc = "next", !.todo = HeldLists]
    /\ UNCHANGED <<clock, items, lists, req, txn, mails, spent>>

BatchLoad ==
    /\ batch.pc = "next"
    /\ \E k \in batch.todo, row \in Slots :
         /\ FirstRow(TxnRows(k[1]), row)
         /\ batch' = [batch EXCEPT !.pc = "loaded", !.todo = @ \ {k},
                         !.title = k[1], !.row = row,
                         !.list = Loaded(TxnRows(k[1]), row)]
    /\ UNCHANGED <<clock, items, lists, req, txn, mails, spent>>

Notices(kind, holds) ==
    {[kind |-> kind, title |-> batch.title, netid |-> h.netid,
      expiration_time |-> h.expiration_time] : h \in holds}

\* Slip: the cron job saves whatever it read
BatchTokenIgnored == TRUE

BatchTokenMatches == TxnRows(batch.title)[batch.row].version = batch.list.version

WriteRow(list) ==
    txn' = [k \in DOMAIN txn \cup {<<batch.title, batch.row>>} |->
              IF k = <<batch.title, batch.row>> THEN list ELSE txn[k]]

RollBack == batch' = IdleBatch /\ txn' = NoWrites

\* expire_holds!: the notices go out first, then the list is saved
BatchExpire ==
    LET gone == ExpiredHolds(batch.list, clock)
        list == Saved(WithoutExpiredHolds(batch.list, clock))
        told == Notices("expired", gone)
    IN  /\ batch.pc = "loaded"
        /\ IF gone = {}
           THEN batch' = [batch EXCEPT !.pc = "expired"] /\ UNCHANGED <<txn, mails>>
           ELSE /\ mails' = mails \cup told
                /\ IF BatchTokenMatches
                   THEN /\ WriteRow(list)
                        /\ batch' = [batch EXCEPT !.pc = "expired", !.list = list]
                   ELSE RollBack
        /\ UNCHANGED <<clock, items, lists, req, spent>>

\* Slip: the notices are left to the commit, and nothing is done there
StoreActivatedSilently(list, told) ==
    /\ WriteRow(list)
    /\ batch' = [batch EXCEPT !.pc = "next"]
    /\ UNCHANGED mails

StoreActivated(list, told) ==
    /\ WriteRow(list)
    /\ batch' = [batch EXCEPT !.pc = "next"]
    /\ mails' = mails \cup told

NothingToActivate(copies) ==
    \/ ~AvailableChargeSlot(batch.list, copies)
    \/ PendingOrActiveHolds(batch.list, clock) = {}

\* activate_holds!: the list is saved first, then the notices go out
BatchActivate ==
    LET copies == items[batch.title]
        chosen == HoldsToActivate(batch.list, copies, clock)
        list == Saved(WithActivated(batch.list, chosen, clock))
        told == Notices("activated", list.hold_queue \ batch.list.hold_queue)
    IN  /\ batch.pc = "expired"
        /\ IF NothingToActivate(copies)
           THEN batch' = [batch EXCEPT !.pc = "next"] /\ UNCHANGED <<txn, mails>>
           ELSE IF TooManyActiveHolds(batch.list, copies, clock)
           THEN RollBack /\ UNCHANGED mails
           ELSE IF chosen = {}
           THEN batch' = [batch EXCEPT !.pc = "next"] /\ UNCHANGED <<txn, mails>>
           ELSE IF ~BatchTokenMatches
           THEN RollBack /\ UNCHANGED mails
           ELSE StoreActivated(list, told)
        /\ UNCHANGED <<clock, items, lists, req, spent>>

BatchCommit ==
    /\ batch.pc = "next"
    /\ batch.todo = {}
    /\ lists' = [t \in Titles |-> TxnRows(t)]
    /\ batch' = IdleBatch
    /\ txn' = NoWrites
    /\ UNCHANGED <<clock, items, req, mails, spent>>

BatchCrash ==
    /\ batch.pc # "idle"
    /\ spent.crashes < MaxCrashes
    /\ spent' = [spent EXCEPT !.crashes = @ + 1]
    /\ RollBack
    /\ UNCHANGED <<clock, items, lists, req, mails>>

BatchStep == BatchLoad \/ BatchExpire \/ BatchActivate \/ BatchCommit
-----------------------------------------------------------------------------
(***************************************************************************)
(* Time, the catalog, and the whole                                        *)
(***************************************************************************)
Deadlines ==
    UNION {{c.expiration_time : c \in lists[k[1]][k[2]].charged_items}
           \cup {h.expiration_time : h \in lists[k[1]][k[2]].hold_queue}
             : k \in Titles \X Slots}

\* Time moves while it can still change what some stored charge or hold means
Tick ==
    /\ \E d \in Deadlines : clock <= d
    /\ clock' = clock + 1
    /\ UNCHANGED <<items, lists, req, batch, txn, mails, spent>>

\* Staff set copies of t aside for lending, or put them back on the shelf
ChangeItems(t, copies) ==
    /\ copies # items[t]
    /\ spent.items < MaxItemChanges
    /\ spent' = [spent EXCEPT !.items = @ + 1]
    /\ items' = [items EXCEPT ![t] = copies]
    /\ UNCHANGED <<clock, lists, req, batch, txn, mails>>

Next ==
    \/ \E w \in Workers :
         \/ \E op \in Ops, p \in Patrons, t \in Titles : Begin(w, op, p, t)
         \/ Retry(w)
         \/ Act(w)
    \/ BatchStart \/ BatchStep \/ BatchCrash
    \/ Tick
    \/ \E t \in Titles, copies \in SUBSET Items : ChangeItems(t, copies)

Spec == Init /\ [][Next]_vars

\* cron starts the job again and again, a started job goes on, time passes;
\* no patron need ever act, and a request may stay unfinished for ever
FairSpec == Spec /\ WF_vars(BatchStart) /\ WF_vars(BatchStep) /\ WF_vars(Tick)
-----------------------------------------------------------------------------
(***************************************************************************)
(* Safety                                                                  *)
(***************************************************************************)
\* No charge list lends one copy to two patrons or twice to one, not even in
\* the memory of a request or in the cron job's uncommitted rows; and a charge
\* names a copy, though create_charge takes the first available one unseen, which
\* is nil if there is none.
OneBorrowerPerCopy(list) ==
    /\ \A c \in list.charged_items : c.item_id # NoItem
    /\ \A c, d \in list.charged_items : c.item_id = d.item_id \/ c.netid = d.netid => c = d

CopiesLentOnce ==
    /\ \A t \in Titles, s \in Slots : OneBorrowerPerCopy(lists[t][s])
    /\ \A w \in Workers : OneBorrowerPerCopy(req[w].list)
    /\ \A k \in DOMAIN txn : OneBorrowerPerCopy(txn[k])

Running(t, s) == {c \in lists[t][s].charged_items : ~ChargeExpired(c, clock)}

\* An active hold is a promise: its patron can borrow at once, because every
\* active hold and every running charge has a copy of its own
\* (ChargeManager#available_for_charge? and #holds_to_activate).
PromisesKept ==
    \A t \in Titles, s \in Slots :
        Cardinality(Running(t, s)) + Cardinality(ActiveHolds(lists[t][s], clock))
            <= Cardinality(items[t])

OneHoldEach(list, now) ==
    \A g, h \in PendingOrActiveHolds(list, now) : g.netid = h.netid => g = h

\* A patron waits at most once in a queue (ChargeManager#create_hold).
OneLiveHoldPerPatron ==
    \A t \in Titles, s \in Slots : OneHoldEach(lists[t][s], clock)

Announced(list, t, told) ==
    \A h \in list.hold_queue :
        HoldActive(h) => [kind |-> "activated", title |-> t, netid |-> h.netid,
                          expiration_time |-> h.expiration_time] \in told

\* Whoever has an active hold was sent the mail that says so, for that hour:
\* the hold does not run out on a patron who was never told.
ActiveHoldsAnnounced ==
    \A t \in Titles, s \in Slots : Announced(lists[t][s], t, mails)

-----------------------------------------------------------------------------
(***************************************************************************)
(* What a step may never do                                                *)
(***************************************************************************)
Returning(p, t) == \E w \in Workers :
    /\ req[w].pc = "loaded" /\ req[w].op = "return"
    /\ req[w].netid = p /\ req[w].title = t
    /\ req'[w].reply = "thanked"

ChargesKept ==
    \A t \in Titles, s \in Slots : \A c \in lists[t][s].charged_items :
        \/ c \in lists'[t][s].charged_items
        \/ ChargeExpired(c, clock)
        \/ Returning(c.netid, t)

\* A patron keeps a charge until it expires or they return it: no save of
\* another request or of the cron job, from an older copy of the list, undoes
\* it (CDL::ResourceChargeList's optimistic locking).
ChargesNotLost == [][ChargesKept]_vars

ActivatedIn(h, list) == \E g \in list.hold_queue :
    g.place = h.place /\ g.netid = h.netid /\ HoldActive(g)

HoldsKept ==
    \A t \in Titles, s \in Slots : \A h \in lists[t][s].hold_queue :
        \/ h \in lists'[t][s].hold_queue
        \/ HoldExpired(h, clock)
        \/ ~HoldActive(h) /\ ActivatedIn(h, lists'[t][s])
        \/ ActiveCharge(lists'[t][s], h.netid)

\* A patron keeps their hold, at its place, until it turns active, expires, or
\* they borrow the title.
HoldsNotLost == [][HoldsKept]_vars

\* docs/technical/cdl.md: "only a single user can access it digitally at any
\* given time", and n users when n copies are set aside.
NoMoreLoansThanCopies ==
    \A t \in Titles :
        Cardinality(UNION {{<<s, c>> : c \in Running(t, s)} : s \in Slots})
            <= Cardinality(items[t])
-----------------------------------------------------------------------------
(***************************************************************************)
(* Why no save undoes another one: the inductive strengthening behind      *)
(* ChargesNotLost (LendingProofs)                                          *)
(***************************************************************************)
InUse == batch.pc \in {"loaded", "expired"}

\* What is being worked on is known
Addressed ==
    /\ \A w \in Workers : req[w].pc # "idle" =>
         req[w].op \in Ops /\ req[w].netid \in Patrons /\ req[w].title \in Titles
    /\ InUse => batch.title \in Titles /\ batch.row \in Slots

\* A list made from base has lost none of its running charges
KeepsCharges(list, base) ==
    \A c \in base.charged_items : c \in list.charged_items \/ ChargeExpired(c, clock)

UnsavedRowsEmpty ==
    \A t \in Titles, s \in Slots : lists[t][s].version = 0 => lists[t][s] = UnsavedList

\* A token is never ahead of its row; if it is that of the row, the list in
\* memory has every running charge of the row
TokenTells(list, row) ==
    /\ list.version <= row.version
    /\ list.version = row.version => KeepsCharges(list, row)

RequestTokensTell ==
    \A w \in Workers : req[w].pc = "loaded" /\ req[w].row # NewRow =>
        TokenTells(req[w].list, lists[req[w].title][req[w].row])

BatchTokenTells ==
    InUse => /\ batch.list.version > 0
             /\ TokenTells(batch.list, TxnRows(batch.title)[batch.row])

TxnKeepsCharges ==
    \A k \in DOMAIN txn : /\ 0 < lists[k[1]][k[2]].version
                          /\ lists[k[1]][k[2]].version < txn[k].version
                          /\ KeepsCharges(txn[k], lists[k[1]][k[2]])

\* The lock token does its work: whoever may still save has lost no charge.
TokensTell == /\ Addressed
              /\ UnsavedRowsEmpty
              /\ RequestTokensTell
              /\ BatchTokenTells
              /\ TxnKeepsCharges

\* Each save appends one hold at most: the places tell them apart
Ordered(list) ==
    /\ \A h \in list.hold_queue : h.place < list.version
    /\ \A g, h \in list.hold_queue : g.place = h.place => g = h

\* No more is lent and promised than there are copies
Fits(list, now) ==
    Cardinality(ClearExpiredCharges(list, now).charged_items)
        + Cardinality(ActiveHolds(list, now)) <= Cardinality(Items)

\* What each copy of a list keeps, wherever it is: lent once, held once, in turn,
\* told, and no more than there is.
ListSound(list, t, now, told) ==
    /\ IsFiniteSet(list.charged_items) /\ IsFiniteSet(list.hold_queue)
    /\ OneBorrowerPerCopy(list)
    /\ OneHoldEach(list, now)
    /\ Announced(list, t, told)
    /\ Ordered(list)
    /\ Fits(list, now)

\* So does every row, every list in the memory of a request or of the cron job,
\* and every row the cron job wrote: any of them may be the base of a save.
EveryListSound ==
    /\ \A t \in Titles, s \in Slots : ListSound(lists[t][s], t, clock, mails)
    /\ \A w \in Workers : ListSound(req[w].list, req[w].title, clock, mails)
    /\ \A k \in DOMAIN txn : ListSound(txn[k], k[1], clock, mails)
    /\ ListSound(batch.list, batch.title, clock, mails)
-----------------------------------------------------------------------------
(***************************************************************************)
(* Progress                                                                *)
(***************************************************************************)
Waits(p, t) == \E s \in Slots : \E h \in PendingHolds(lists[t][s]) : h.netid = p

\* Whoever waits is served, unless no copy is left of the title: copies come
\* back by themselves, and the cron job reaches every queue however often it
\* has to start again.
WaitingPatronsServed ==
    \A p \in Patrons, t \in Titles : Waits(p, t) ~> ~Waits(p, t) \/ items[t] = {}

\* Runs of the cron job keep getting through, whatever made some of them fail.
BatchesGetThrough == []<><<BatchCommit>>_vars
=============================================================================
