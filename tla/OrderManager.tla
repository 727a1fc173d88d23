---------------------------- MODULE OrderManager ----------------------------
(***************************************************************************)
(* The order manager: one page of the browser in which a user puts the     *)
(* members of a resource in order and labels them (OrderManager.vue, its   *)
(* Gallery, Toolbar, Controls and forms, the stores `resource' and         *)
(* `gallery', saveStateGql of the Vuex actions), and the part of the       *)
(* server that takes its GraphQL mutations one by one.                     *)
(*                                                                         *)
(* The cards of the gallery are objects.  The forms of the side panel act  *)
(* 300 ms after the last key, on what is selected then, and put a copy in  *)
(* the place of the card; selection and clipboard go on naming the old     *)
(* object.  `heap' holds the objects, all else refers to them by number.   *)
(* The label stands for the two things a form changes, caption and viewing *)
(* hint; the thumbnail for the four properties of the resource itself.     *)
(*                                                                         *)
(* `mishap' is history: one of the things has happened after which the     *)
(* page and the server may disagree without the page knowing.              *)
(***************************************************************************)
EXTENDS Integers, FiniteSets, Sequences, SequencesExt

CONSTANTS
    Members,       \* the members when the page is opened
    Others,        \* members that somebody else may add
    Labels,
    Nothing,       \* no thumbnail; nothing typed
    Resource,      \* the mutation of the resource, among those of its members
    MaxObjects,    \* bound: objects
    MaxSelected,   \* bound: length of a selection
    MaxSaves       \* bound: saves

ASSUME OrderAssumption == /\ IsFiniteSet(Members)
                          /\ Members \cap Others = {}
                          /\ Nothing \notin Members \cup Others \cup Labels
                          /\ Resource \notin Members
                          /\ MaxSelected \in Nat /\ MaxObjects \in Nat

VARIABLES
    heap,          \* the cards that were ever made: [id, label]
    items,         \* gallery.items
    selected,      \* gallery.selected
    cut,           \* gallery.cut
    changeList,    \* gallery.changeList
    ogOrder,       \* gallery.ogItems, of which only the ids are read
    thumbnail,     \* resource.thumbnail
    ogThumbnail,   \* resource.ogState.thumbnail
    typed,         \* what singleForm holds and the gallery does not
    placed,        \* singleForm, once it is an object of the gallery, or 0
    pending,       \* the debounced updates that wait: "single", "multi"
    saveState,     \* resource.saveState
    requested,     \* a request is on its way
    sent,          \* what it brings
    todo,          \* its mutations that the server has not yet run
    applies,       \* timers that will commit APPLY_STATE
    order,         \* the server's member_ids
    label,         \* the server's labels
    thumb,         \* the server's thumbnail
    saves,         \* saves so far
    mishap

cardVars   == <<heap, items, cut>>
formVars   == <<selected, typed, placed, pending>>
changeVars == <<changeList, ogOrder, thumbnail, ogThumbnail>>
saveVars   == <<saveState, requested, sent, todo, applies, saves>>
serverVars == <<order, label, thumb>>
vars == <<cardVars, formVars, changeVars, saveVars, serverVars, mishap>>

Objects == 1 .. Len(heap)

Ids(s) == [i \in 1 .. Len(s) |-> heap[s[i]].id]

Cards == [id : Members, label : Labels]

Thumbnails == Members \cup {Nothing}

Messages == [order : Seq(Members), labels : UNION {[S -> Labels] : S \in SUBSET Members}, thumbnail : Thumbnails]

TypeOK == /\ heap \in Seq(Cards)
          /\ items \in Seq(Objects) /\ selected \in Seq(Objects) /\ cut \in Seq(Objects)
          /\ changeList \subseteq Members
          /\ ogOrder \in Seq(Members)
          /\ thumbnail \in Thumbnails /\ ogThumbnail \in Thumbnails
          /\ typed \in Labels \cup {Nothing}
          /\ placed \in Objects \cup {0}
          /\ pending \subseteq {"single", "multi"}
          /\ saveState \in {"NOT_SAVED", "SAVING", "SAVED", "ERROR"}
          /\ requested \in BOOLEAN
          /\ sent \in Messages
          /\ todo \subseteq Members \cup {Resource}
          /\ applies \in Nat /\ saves \in Nat
          /\ order \in Seq(Members \cup Others)
          /\ label \in [Members -> Labels]
          /\ thumb \in Thumbnails
          /\ mishap \in BOOLEAN

\* SET_RESOURCE, with the members as the server had them
Init == /\ order \in SetToSeqs(Members)
        /\ label \in [Members -> Labels]
        /\ thumb \in Thumbnails
        /\ heap = [i \in 1 .. Len(order) |-> [id |-> order[i], label |-> label[order[i]]]]
        /\ items = [i \in 1 .. Len(order) |-> i]
        /\ selected = <<>> /\ cut = <<>> /\ changeList = {} /\ ogOrder = order
        /\ thumbnail = thumb /\ ogThumbnail = thumb
        /\ typed = Nothing /\ placed = 0 /\ pending = {}
        /\ saveState = "NOT_SAVED" /\ requested = FALSE /\ todo = {} /\ applies = 0 /\ saves = 0
        /\ sent = [order |-> order, labels |-> label, thumbnail |-> thumb]
        /\ mishap = FALSE

\* What is changed now is not in the request, and counts as saved with it.
Late == requested \/ applies > 0

\* While it saves the loader covers the gallery and its toolbar, but not the
\* side panel.
GalleryFree == saveState # "SAVING"

---------------------------------------------------------------------------
(* Selecting: a selection makes a new form, also one of the same cards *)

Select(s) == /\ GalleryFree
             /\ Len(s) <= MaxSelected
             /\ selected' = s /\ typed' = Nothing /\ placed' = 0
             /\ mishap' = (mishap \/ pending # {})
             /\ UNCHANGED <<cardVars, changeVars, pending, saveVars, serverVars>>

Enabled(o) == o \notin ToSet(cut)

\* getItemIndexById, counted from one
IndexById(id) == CHOOSE i \in 1 .. Len(items) :
                    heap[items[i]].id = id /\ \A j \in 1 .. i - 1 : heap[items[j]].id # id

Between(i, j) == IF i <= j THEN SubSeq(items, i, j) ELSE SubSeq(items, j, i)

\* Gallery.select
Click(o) == Enabled(o) /\ Select(<<o>>)

MetaClick(o) == Enabled(o) /\ Select(Append(selected, o))

ShiftClick(o) == /\ Enabled(o) /\ Len(selected) = 1
                 /\ Select(Between(IndexById(heap[selected[1]].id), IndexById(heap[o].id)))

EveryOther(s, from) == [i \in 1 .. (Len(s) - from + 2) \div 2 |-> s[2 * i - 2 + from]]

\* selectAll, selectNone, selectAlternate, selectInverse
SelectMenu == \E s \in {items, <<>>, EveryOther(items, 1), EveryOther(items, 2)} : Select(s)

---------------------------------------------------------------------------
(* Moving *)

\* cutSelected
CutSelected == /\ GalleryFree /\ cut = <<>> /\ selected # <<>>
               /\ cut' = selected
               /\ selected' = <<>> /\ typed' = Nothing /\ placed' = 0
               /\ mishap' = (mishap \/ pending # {})
               /\ UNCHANGED <<heap, items, changeVars, pending, saveVars, serverVars>>

\* splice(at, 0, ...s)
Spliced(t, at, s) ==
    LET n == IF at > Len(t) THEN Len(t) ELSE IF at >= 0 THEN at ELSE IF Len(t) + at > 0 THEN Len(t) + at ELSE 0
    IN  SubSeq(t, 1, n) \o s \o SubSeq(t, n + 1, Len(t))

\* filter(o => !c.includes(o))
Without(s, c) == LET rest[n \in 0 .. Len(s)] == IF n = 0 THEN <<>>
                                                ELSE IF s[n] \in ToSet(c) THEN rest[n - 1]
                                                ELSE Append(rest[n - 1], s[n])
                 IN  rest[Len(s)]

Uncut == Without(items, cut)

\* The clipboard names cards of the gallery, each once.
CutIsThere == IsInjective(cut) /\ ToSet(cut) \subseteq ToSet(items)

\* Slip: the cut cards are not taken from where they were.
PasteCopied(modifier) ==
    /\ GalleryFree /\ cut # <<>> /\ selected # <<>>
    /\ items' = Spliced(items, IndexById(heap[Last(selected)].id) - 1 + modifier, cut)
    /\ cut' = <<>> /\ selected' = <<>> /\ typed' = Nothing /\ placed' = 0
    /\ mishap' = (mishap \/ pending # {} \/ Late \/ ~CutIsThere)
    /\ UNCHANGED <<heap, changeVars, pending, saveVars, serverVars>>

\* Slip: what was cut is forgotten.
PasteNothing(modifier) ==
    /\ GalleryFree /\ cut # <<>> /\ selected # <<>>
    /\ items' = Uncut
    /\ cut' = <<>> /\ selected' = <<>> /\ typed' = Nothing /\ placed' = 0
    /\ mishap' = (mishap \/ pending # {} \/ Late \/ ~CutIsThere)
    /\ UNCHANGED <<heap, changeVars, pending, saveVars, serverVars>>

\* paste.  The place is counted in the gallery as it was, with the cut cards.
Paste(modifier) ==
    /\ GalleryFree /\ cut # <<>> /\ selected # <<>>
    /\ items' = Spliced(Uncut, IndexById(heap[Last(selected)].id) - 1 + modifier, cut)
    /\ cut' = <<>> /\ selected' = <<>> /\ typed' = Nothing /\ placed' = 0
    /\ mishap' = (mishap \/ pending # {} \/ Late \/ ~CutIsThere)
    /\ UNCHANGED <<heap, changeVars, pending, saveVars, serverVars>>

\* VueDraggable: SORT_ITEMS
DragCard(i, j) ==
    /\ GalleryFree /\ i # j
    /\ items' = InsertAt(RemoveAt(items, i), j, items[i])
    /\ mishap' = (mishap \/ Late)
    /\ UNCHANGED <<heap, cut, formVars, changeVars, saveVars, serverVars>>

---------------------------------------------------------------------------
(* The forms *)

\* updateLabel, updateViewHint: singleForm is changed at once, and that may be
\* the card itself.
TypeLabel(l) ==
    /\ Len(selected) = 1
    /\ pending' = pending \cup {"single"}
    /\ IF placed = 0 THEN typed' = l /\ UNCHANGED heap
                     ELSE heap' = [heap EXCEPT ![placed].label = l] /\ UNCHANGED typed
    /\ mishap' = (mishap \/ Late)
    /\ UNCHANGED <<items, cut, selected, placed, changeVars, saveVars, serverVars>>

FormObject(s) == [id |-> heap[s].id, label |-> IF typed = Nothing THEN heap[s].label ELSE typed]

\* Slip: the id is not put on the changeList.
UpdateSingleUnlisted ==
    /\ "single" \in pending /\ pending' = pending \ {"single"}
    /\ selected # <<>> /\ placed = 0 /\ Len(heap) < MaxObjects
    /\ heap' = Append(heap, FormObject(selected[1]))
    /\ items' = [items EXCEPT ![IndexById(heap[selected[1]].id)] = Len(heap')]
    /\ placed' = IF Len(selected) = 1 THEN Len(heap') ELSE 0
    /\ typed' = Nothing
    /\ mishap' = (mishap \/ Late)
    /\ UNCHANGED <<cut, selected, changeVars, saveVars, serverVars>>

\* updateSingle, 300 ms later
UpdateSingle ==
    /\ "single" \in pending /\ pending' = pending \ {"single"}
    /\ \/ /\ selected = <<>>            \* selected[0] is undefined
          /\ UNCHANGED <<heap, items, placed, typed, changeList, mishap>>
       \/ /\ selected # <<>> /\ placed = 0 /\ Len(heap) < MaxObjects
          /\ heap' = Append(heap, FormObject(selected[1]))
          /\ items' = [items EXCEPT ![IndexById(heap[selected[1]].id)] = Len(heap')]
          /\ placed' = IF Len(selected) = 1 THEN Len(heap') ELSE 0
          /\ typed' = Nothing
          /\ changeList' = changeList \cup {heap[selected[1]].id}
          /\ mishap' = (mishap \/ Late)
       \/ /\ selected # <<>> /\ placed # 0
          /\ items' = [items EXCEPT ![IndexById(heap[selected[1]].id)] = placed]
          /\ changeList' = changeList \cup {heap[selected[1]].id}
          /\ mishap' = (mishap \/ Late)
          /\ UNCHANGED <<heap, placed, typed>>
    /\ UNCHANGED <<cut, selected, ogOrder, thumbnail, ogThumbnail, saveVars, serverVars>>

\* The form of several cards is changed.
TypeNumbering == /\ Len(selected) > 1 /\ "multi" \notin pending
                 /\ pending' = pending \cup {"multi"}
                 /\ UNCHANGED <<cardVars, selected, typed, placed, changeVars, saveVars, serverVars, mishap>>

\* updateMultiLabels, 300 ms later, of the cards that are selected then.  What
\* the generator gives is any labelling.
UpdateMultiLabels(new) ==
    LET ids  == ToSet(Ids(selected))
        hits == {items[IndexById(id)] : id \in ids}
    IN  /\ "multi" \in pending /\ pending' = pending \ {"multi"}
        /\ heap' = [o \in Objects |-> IF o \in hits THEN [heap[o] EXCEPT !.label = new[heap[o].id]] ELSE heap[o]]
        /\ changeList' = changeList \cup ids
        /\ IF selected # <<>> /\ selected[1] \in hits THEN typed' = Nothing /\ placed' = 0
                                                      ELSE UNCHANGED <<typed, placed>>
        /\ mishap' = (mishap \/ (Late /\ ids # {}))
        /\ UNCHANGED <<items, cut, selected, ogOrder, thumbnail, ogThumbnail, saveVars, serverVars>>

\* updateThumbnail
UpdateThumbnail(x) ==
    /\ Len(selected) = 1 /\ x \in {heap[selected[1]].id, Nothing} /\ x # thumbnail
    /\ thumbnail' = x
    /\ UNCHANGED <<cardVars, formVars, changeList, ogOrder, ogThumbnail, saveVars, serverVars, mishap>>

---------------------------------------------------------------------------
(* Saving *)

OrderChanged == ogOrder # Ids(items)

\* The button is off without it.
StateChanged == ogThumbnail # thumbnail \/ changeList # {} \/ OrderChanged

Shown(id) == heap[items[IndexById(id)]].label

\* save and saveStateGql.  Bound: one request at a time.
Save == /\ saveState # "SAVING" /\ StateChanged
        /\ ~requested /\ saves < MaxSaves /\ saves' = saves + 1
        /\ saveState' = "SAVING" /\ requested' = TRUE
        /\ sent' = [order |-> Ids(items), labels |-> [id \in changeList |-> Shown(id)], thumbnail |-> thumbnail]
        /\ todo' = changeList \cup {Resource}
        /\ UNCHANGED <<cardVars, formVars, changeVars, applies, serverVars, mishap>>

\* valid_member_ids?
Reorders(new) == Len(new) = Len(order) /\ \A m \in Members \cup Others :
                    Cardinality({i \in DOMAIN new : new[i] = m}) = Cardinality({i \in DOMAIN order : order[i] = m})

\* Slip: member_ids of any kind are taken.
UpdateResourceUnchecked ==
    /\ Resource \in todo /\ todo' = todo \ {Resource}
    /\ order' = sent.order
    /\ thumb' = IF sent.thumbnail = Nothing THEN thumb ELSE sent.thumbnail
    /\ UNCHANGED <<cardVars, formVars, changeVars, saveState, requested, sent, applies, saves, label, mishap>>

\* The first mutation.  What is nil is not an attribute to change (compact).
UpdateResource ==
    /\ Resource \in todo /\ todo' = todo \ {Resource}
    /\ Reorders(sent.order)
    /\ order' = sent.order
    /\ thumb' = IF sent.thumbnail = Nothing THEN thumb ELSE sent.thumbnail
    /\ UNCHANGED <<cardVars, formVars, changeVars, saveState, requested, sent, applies, saves, label, mishap>>

\* A mutation for each changed member follows.
UpdateMember(id) ==
    /\ Resource \notin todo /\ id \in todo /\ todo' = todo \ {id}
    /\ label' = [label EXCEPT ![id] = sent.labels[id]]
    /\ UNCHANGED <<cardVars, formVars, changeVars, saveState, requested, sent, applies, saves, order, thumb, mishap>>

\* Refused: not permitted, not valid, or not the members the resource has.
\* The errors are part of an answer that counts as a success.
\* A label that is blank is not an attribute to change either.
Refuse(x) ==
    /\ x \in todo /\ (x # Resource => Resource \notin todo)
    /\ todo' = todo \ {x}
    /\ mishap' = TRUE
    /\ UNCHANGED <<cardVars, formVars, changeVars, saveState, requested, sent, applies, saves, serverVars>>

\* Slip: APPLY_STATE at once.
AnswerApplied == /\ requested /\ todo = {}
                 /\ requested' = FALSE /\ saveState' = "SAVED"
                 /\ ogOrder' = sent.order /\ changeList' = {}
                 /\ UNCHANGED <<cardVars, formVars, thumbnail, ogThumbnail, sent, todo, applies, saves, serverVars, mishap>>

\* the promise is fulfilled
Answer == /\ requested /\ todo = {}
          /\ requested' = FALSE /\ saveState' = "SAVED" /\ applies' = applies + 1
          /\ UNCHANGED <<cardVars, formVars, changeVars, sent, todo, saves, serverVars, mishap>>

\* The promise is rejected: the network or the server fails, before or after
\* some of the mutations.
Fail == /\ requested
        /\ requested' = FALSE /\ todo' = {} /\ saveState' = "ERROR"
        /\ mishap' = (mishap \/ Resource \notin todo)
        /\ UNCHANGED <<cardVars, formVars, changeVars, sent, applies, saves, serverVars>>

\* APPLY_STATE, three seconds after an answer
ApplyState == /\ applies > 0 /\ applies' = applies - 1
              /\ ogOrder' = Ids(items) /\ changeList' = {} /\ saveState' = "NOT_SAVED"
              /\ UNCHANGED <<cardVars, formVars, thumbnail, ogThumbnail, requested, sent, todo, saves, serverVars, mishap>>

\* Somebody else ingests or removes a member.
OthersEdit ==
    /\ \/ \E m \in Others \ ToSet(order) : order' = Append(order, m)
       \/ \E i \in 1 .. Len(order) : order' = RemoveAt(order, i)
    /\ UNCHANGED <<cardVars, formVars, changeVars, saveVars, label, thumb, mishap>>

---------------------------------------------------------------------------

Selecting == \/ \E o \in ToSet(items) : Click(o) \/ MetaClick(o) \/ ShiftClick(o)
             \/ SelectMenu

Moving == \/ CutSelected
          \/ \E modifier \in {-1, 1} : Paste(modifier)
          \/ \E i, j \in 1 .. Len(items) : DragCard(i, j)

Labelling == \/ \E l \in Labels : TypeLabel(l)
             \/ UpdateSingle
             \/ TypeNumbering
             \/ \E new \in [Members -> Labels] : UpdateMultiLabels(new)
             \/ \E x \in Thumbnails : UpdateThumbnail(x)

Serving == \/ UpdateResource
           \/ \E id \in Members : UpdateMember(id)
           \/ \E x \in Members \cup {Resource} : Refuse(x)
           \/ Answer
           \/ Fail

Next == Selecting \/ Moving \/ Labelling \/ Save \/ Serving \/ ApplyState \/ OthersEdit

Spec == Init /\ [][Next]_vars

\* A request ends, and a timer fires.
FairSpec == Spec /\ WF_vars(Serving) /\ WF_vars(ApplyState)

---------------------------------------------------------------------------
(* Properties *)

\* The page never loses a member, whatever is cut, pasted, dragged and copied
\* in which order.
NoMemberLost == ToSet(Ids(items)) = Members

\* As long as the clipboard is not pasted with an object that a form has
\* replaced, or with one twice, no member is in the gallery twice.
MembersOnce == mishap \/ IsInjective(Ids(items))

Before(s, m, n) == \E i, j \in 1 .. Len(s) : i < j /\ s[i] = m /\ s[j] = n

SameOrder(s, t) == \A m, n \in ToSet(s) \cap ToSet(t) : Before(s, m, n) <=> Before(t, m, n)

\* Whenever the button is off, with nothing under way, the page shows what the
\* server has, of the members that both know: every label and every order can
\* be saved.
UnsavedIsSaveable ==
    \/ mishap \/ StateChanged \/ Late \/ pending # {}
    \/ /\ \A id \in Members : Shown(id) = label[id]
       /\ SameOrder(order, Ids(items))

\* Saving only orders: a page that does not know the members of today neither
\* drops nor doubles one of them.
SavesReorder == [][Serving => ToSet(order') = ToSet(order) /\ Len(order') = Len(order)]_vars

\* The loader goes away, and so does the alert.
SavesEnd == (saveState = "SAVING" ~> saveState # "SAVING") /\ (saveState = "SAVED" ~> saveState # "SAVED")
=============================================================================
