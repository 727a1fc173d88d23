--------------------------- MODULE StructManager ---------------------------
(***************************************************************************)
(* The structure manager: one page of the browser in which a user arranges *)
(* the files of a resource in a tree of folders (StructManager.vue, its    *)
(* Tree, StructGallery and StructManagerToolbar, the stores `tree' and     *)
(* `gallery', and saveStructureAJAX of the Vuex actions).                  *)
(*                                                                         *)
(* A file is a card of the gallery as long as it has no place in the tree. *)
(* Cards and nodes are cut and pasted, dragged and deleted; the tree is    *)
(* sent to the server when the user saves.  Handlers run to completion one *)
(* after the other; what is between them is the user, the clipboard they   *)
(* share, the one-second delay before the request, and the server.        *)
(*                                                                         *)
(* `mishap' is history: one of the things has happened that the code lets  *)
(* the user do and that cost a file or show it twice.  Cards or a node are *)
(* pasted into a file, a node into what is below it, or cards that are     *)
(* stale; a deletion that found files is called off; a cut card is dragged *)
(* into the tree.                                                          *)
(***************************************************************************)
EXTENDS Integers, FiniteSets, Sequences, SequencesExt

CONSTANTS
    Files,        \* the members of the resource
    Folders,      \* ids that generateId may give to folders
    Root,         \* the id of the tree, which is that of the resource
    Nothing,      \* nothing is selected, or cut
    Stored,       \* the structures the server may hold when the page is opened
    MaxCopies,    \* bound: cards of one file
    MaxSaves      \* bound: saves

Nodes == {Root} \cup Folders \cup Files

Trees == [Nodes -> Seq(Nodes)]

Below(t, n) == ToSet(t[n])

Placed(t) == UNION {Below(t, n) : n \in Nodes}

\* n and what is below it, however deep
Under(t, n) ==
    LET closed == {S \in SUBSET Nodes : n \in S /\ \A m \in S : Below(t, m) \subseteq S}
    IN  {x \in Nodes : \A S \in closed : x \in S}

\* A node has one place, files are leaves, and what is nowhere has nothing
\* below it.
WellFormed(t) ==
    /\ t \in Trees
    /\ \A n \in Nodes : IsInjective(t[n]) /\ Root \notin Below(t, n)
    /\ \A m, n \in Nodes : m # n => Below(t, m) \cap Below(t, n) = {}
    /\ \A f \in Files : t[f] = <<>>
    /\ Placed(t) \cup {Root} = Under(t, Root)
    /\ \A n \in Nodes \ ({Root} \cup Placed(t)) : t[n] = <<>>

\* normalizeForLoad: files sink to the bottom of their folder.
FilesLast(s) == SelectSeq(s, LAMBDA n : n \in Folders) \o SelectSeq(s, LAMBDA n : n \in Files)

NormalizeForLoad(t) == [n \in Nodes |-> FilesLast(t[n])]

ASSUME StructAssumption == /\ IsFiniteSet(Files)
                           /\ Files \cap Folders = {}
                           /\ Root \notin Files \cup Folders
                           /\ Nothing \notin Nodes
                           /\ MaxCopies \in Nat

\* What the server holds has been saved by this page or by an ingest: no
\* file is in it twice, and sorting it moves nothing to another folder.
ASSUME StoredAssumption == \A t \in Stored : WellFormed(t) /\ WellFormed(NormalizeForLoad(t))

VARIABLES
    folders,      \* node -> the nodes right below it, in order (tree.structure)
    selected,     \* tree.selected
    cutNode,      \* tree.cut
    modified,     \* tree.modified
    saveState,    \* tree.saveState
    items,        \* gallery.items: file -> its cards
    chosen,       \* gallery.selected: file -> cards of it that are selected
    cut,          \* gallery.cut: file -> cards of it that are cut
    stale,        \* the cut cards are no longer the objects of gallery.items
    endNodes,     \* end_nodes: files found by a deletion, not yet in the gallery
    request,      \* where the request of a save is
    sent,         \* the structure it brings
    stored,       \* the structure the server holds
    saves,        \* saves so far
    mishap

treeVars    == <<folders, selected, cutNode, modified>>
galleryVars == <<items, chosen, cut, stale, endNodes>>
saveVars    == <<saveState, request, sent, stored, saves>>
vars == <<treeVars, galleryVars, saveVars, mishap>>

NoCards == [f \in Files |-> 0]

Cards == [Files -> Nat]

Empty == [n \in Nodes |-> <<>>]

TypeOK == /\ folders \in Trees
          /\ selected \in Nodes \cup {Nothing}
          /\ cutNode \in Folders \cup Files \cup {Nothing}
          /\ modified \in BOOLEAN
          /\ saveState \in {"NOT_SAVED", "SAVING", "SAVED", "ERROR"}
          /\ items \in Cards /\ chosen \in Cards /\ cut \in Cards /\ endNodes \in Cards
          /\ stale \in BOOLEAN
          /\ request \in {"none", "delayed", "sent", "done", "refused"}
          /\ sent \in Trees /\ stored \in Trees
          /\ saves \in Nat
          /\ mishap \in BOOLEAN

\* filterGallery: the cards are the members that the structure does not place.
Init == /\ stored \in Stored
        /\ folders = NormalizeForLoad(stored)
        /\ items = [f \in Files |-> IF f \in Placed(folders) THEN 0 ELSE 1]
        /\ selected = Nothing /\ cutNode = Nothing /\ modified = FALSE
        /\ chosen = NoCards /\ cut = NoCards /\ stale = FALSE /\ endNodes = NoCards
        /\ saveState = "NOT_SAVED" /\ request = "none" /\ sent = Empty /\ saves = 0
        /\ mishap = FALSE

---------------------------------------------------------------------------
(* The tree *)

RemoveNode(t, x) == [n \in Nodes |-> RemoveFirst(t[n], x)]

\* what S had below it is no longer part of the tree
Prune(t, S) == [n \in Nodes |-> IF n \in S THEN <<>> ELSE t[n]]

\* removeNestedObjectById: x goes, and all that is below it
DeleteNode(t, x) == Prune(RemoveNode(t, x), Under(t, x))

FilesBelow(t, x) == (Under(t, x) \ {x}) \cap Files

\* removeNestedObjectById, and the removed object spliced into another folder.
MoveNode(t, x, p, i) == LET rest == RemoveNode(t, x)
                        IN  [rest EXCEPT ![p] = InsertAt(rest[p], i, x)]

\* Slip: cleanNestedArrayForSave does not call itself.
CleanTop(t) == [n \in Nodes |-> IF n = Root THEN t[n] ELSE <<>>]

\* renamePropertiesForSave, cleanNestedArrayForSave: of a file the proxy is
\* kept and not its nodes.  Tree.vue does not show them either (v-if).
Clean(t) == LET open  == [n \in Nodes |-> IF n \in Files THEN <<>> ELSE t[n]]
                shown == Under(open, Root)
            IN  [n \in Nodes |-> IF n \in shown THEN open[n] ELSE <<>>]

Shown == {Root} \cup Placed(Clean(folders))

InTree == Placed(folders)

(* The gallery *)

CardsOf(S) == [f \in Files |-> IF f \in S THEN 1 ELSE 0]

Plus(a, b)  == [f \in Files |-> a[f] + b[f]]
Minus(a, b) == [f \in Files |-> IF a[f] > b[f] THEN a[f] - b[f] ELSE 0]

FilesOf(a) == {f \in Files : a[f] > 0}

\* isDisabled compares objects: a cut card that is no longer the object of the
\* gallery does not look cut.
Enabled(f) == IF stale THEN items[f] ELSE items[f] - cut[f]

\* gallery.items.filter(val => !cut.includes(val))
Uncut == IF stale THEN items ELSE Minus(items, cut)

ClearClipboard == /\ cut' = NoCards /\ stale' = FALSE
                  /\ cutNode' = Nothing

\* While it saves an overlay takes the mouse; the keys still work.
MouseFree == saveState # "SAVING"

---------------------------------------------------------------------------
(* Selecting and cutting *)

\* StructGallery.select: a click, or one with meta or shift held.
SelectCards(c) ==
    /\ MouseFree
    /\ c # chosen /\ c # NoCards /\ \A f \in Files : c[f] <= Enabled(f)
    /\ chosen' = c /\ selected' = Nothing
    /\ UNCHANGED <<folders, cutNode, modified, items, cut, stale, endNodes, saveVars, mishap>>

\* Slip: the gallery is not deselected.
SelectNodeBesides(n) ==
    /\ MouseFree /\ n # selected
    /\ selected' = n
    /\ UNCHANGED <<folders, cutNode, modified, galleryVars, saveVars, mishap>>

\* select, of a node that is shown or of the root node
SelectNode(n) ==
    /\ MouseFree /\ n # selected
    /\ selected' = n /\ chosen' = NoCards
    /\ UNCHANGED <<folders, cutNode, modified, items, cut, stale, endNodes, saveVars, mishap>>

Deselect ==
    /\ MouseFree
    /\ chosen # NoCards \/ selected # Nothing
    /\ chosen' = NoCards /\ selected' = Nothing
    /\ UNCHANGED <<folders, cutNode, modified, items, cut, stale, endNodes, saveVars, mishap>>

\* Slip: no selectNoneGallery after the cut.
CutCardsSelected == /\ chosen # NoCards
                    /\ cut' = chosen /\ stale' = FALSE
                    /\ UNCHANGED <<selected, cutNode, chosen>>

CutCards == /\ chosen # NoCards
            /\ cut' = chosen /\ stale' = FALSE /\ chosen' = NoCards
            /\ UNCHANGED <<selected, cutNode>>

CutNode == /\ chosen = NoCards /\ selected \notin {Nothing, Root}
           /\ cutNode' = selected /\ selected' = Nothing
           /\ UNCHANGED <<cut, stale, chosen>>

\* cutSelected.  What the other part of the clipboard holds stays there.
CutSelected == /\ CutCards \/ CutNode
               /\ UNCHANGED <<folders, modified, items, endNodes, saveVars, mishap>>

\* clearClipboard
UndoCut == /\ cut # NoCards \/ cutNode # Nothing
           /\ ClearClipboard
           /\ UNCHANGED <<folders, selected, modified, items, chosen, endNodes, saveVars, mishap>>

---------------------------------------------------------------------------
(* Folders *)

\* generateId
FreshId(new) == new \in Folders \ (InTree \cup {cutNode})

\* createFolder: in the selected folder, or else at the top
CreateFolder(new) ==
    LET parent == IF selected = Nothing THEN Root ELSE selected
    IN  /\ FreshId(new) /\ parent \notin Files
        /\ folders' = [folders EXCEPT ![parent] = Cons(new, @)]
        /\ modified' = TRUE
        /\ UNCHANGED <<selected, cutNode, galleryVars, saveVars, mishap>>

\* concat of the cut cards, in the order they were cut in, and the clipboard
\* is cleared.
AddFiles(t, target, arrangement) ==
    /\ arrangement \in SetToSeqs(FilesOf(cut))
    /\ folders' = [t EXCEPT ![target] = @ \o arrangement]
    /\ items' = Uncut
    /\ modified' = TRUE /\ chosen' = NoCards /\ ClearClipboard
    /\ mishap' = (mishap \/ target \in Files \/ stale)
    /\ UNCHANGED <<endNodes, saveVars>>

\* The model follows a card into the tree once.
Pastable == FilesOf(cut) \cap InTree = {} /\ \A f \in Files : cut[f] <= 1

\* paste with cards on the clipboard, pasteGalleryItem
PasteCards(arrangement) ==
    /\ selected \notin {Nothing, Root} /\ cut # NoCards /\ Pastable
    /\ AddFiles(folders, selected, arrangement)
    /\ UNCHANGED selected

\* groupSelectedIntoFolder: cutSelected, createFolder at the top and
\* pasteGalleryItem into the new folder, in one tick after the other.  With a
\* node selected it is the node that is cut; what is pasted is always cards,
\* and the clipboard is cleared with the node on it.
GroupSelected(new, arrangement) ==
    LET now == IF chosen # NoCards THEN chosen ELSE cut
        old == chosen = NoCards /\ stale
    IN  /\ FreshId(new)
        /\ FilesOf(now) \cap InTree = {} /\ \A f \in Files : now[f] <= 1
        /\ arrangement \in SetToSeqs(FilesOf(now))
        /\ folders' = [folders EXCEPT ![Root] = Cons(new, @), ![new] = arrangement]
        /\ items' = IF old THEN items ELSE Minus(items, now)
        /\ selected' = new /\ modified' = TRUE /\ chosen' = NoCards /\ ClearClipboard
        /\ mishap' = (mishap \/ (old /\ now # NoCards))
        /\ UNCHANGED <<endNodes, saveVars>>

\* paste with a node on the clipboard, pasteTreeItem.  The target is looked up
\* before the node is taken out: a target inside it goes with it.
PasteNode ==
    LET target == selected
        at     == IF cutNode \in Files THEN Len(RemoveNode(folders, cutNode)[target]) + 1 ELSE 1
    IN  /\ selected # Nothing /\ cut = NoCards
        /\ cutNode \in InTree
        /\ folders' = IF target \in Under(folders, cutNode)
                      THEN DeleteNode(folders, cutNode)
                      ELSE MoveNode(folders, cutNode, target, at)
        /\ mishap' = (mishap \/ target \in Files \cup Under(folders, cutNode))
        /\ modified' = TRUE /\ selected' = Nothing /\ ClearClipboard
        /\ UNCHANGED <<items, chosen, endNodes, saveVars>>

---------------------------------------------------------------------------
(* Dragging *)

\* onStart selects and cuts the card that is dragged, the list of the gallery
\* loses it (v-model), and dropGalleryItem appends it to the folder.
DropCard(f, target) ==
    /\ MouseFree
    /\ Enabled(f) > 0 /\ f \notin InTree
    /\ folders' = [folders EXCEPT ![target] = Append(@, f)]
    /\ items' = [items EXCEPT ![f] = @ - 1]
    /\ selected' = Nothing /\ modified' = TRUE /\ chosen' = NoCards /\ ClearClipboard
    /\ UNCHANGED <<endNodes, saveVars, mishap>>

\* A card that looks cut cannot be selected: the chosen cards are cut and
\* dropped in its place, and it has left the gallery for nowhere.
DropCutCard(f, target, arrangement) ==
    /\ MouseFree
    /\ items[f] > 0 /\ cut[f] > 0 /\ ~stale
    /\ FilesOf(chosen) \cap InTree = {} /\ \A g \in Files : chosen[g] <= 1
    /\ arrangement \in SetToSeqs(FilesOf(chosen))
    /\ folders' = [folders EXCEPT ![target] = @ \o arrangement]
    /\ items' = Minus([items EXCEPT ![f] = @ - 1], chosen)
    /\ selected' = Nothing /\ modified' = TRUE /\ chosen' = NoCards /\ ClearClipboard
    /\ mishap' = TRUE
    /\ UNCHANGED <<endNodes, saveVars>>

\* StructGallery.onEnd with from = to: dropped where it was.  The node that is
\* cut stays so.
DropCardBack ==
    /\ MouseFree
    /\ FilesOf(items) # {}
    /\ chosen' = NoCards /\ cut' = NoCards /\ stale' = FALSE /\ selected' = Nothing
    /\ UNCHANGED <<folders, cutNode, modified, items, endNodes, saveVars, mishap>>

\* dragTreeItemHandler and dropTreeItem
DropNode(x, target, i) ==
    /\ MouseFree
    /\ i \in 1 .. Len(RemoveNode(folders, x)[target]) + 1
    /\ folders' = MoveNode(folders, x, target, i)
    /\ modified' = TRUE /\ selected' = Nothing /\ ClearClipboard
    /\ UNCHANGED <<items, chosen, endNodes, saveVars, mishap>>

---------------------------------------------------------------------------
(* Deleting, ordering, naming *)

\* Slip: the files of the removed folder are not given back to the gallery.
RemoveFolderWhole(x, found) ==
    /\ folders' = DeleteNode(folders, x)
    /\ selected' = Nothing /\ modified' = TRUE
    /\ UNCHANGED <<items, endNodes, stale>>

\* commitRemoveFolder, addGalleryItems: what end_nodes holds becomes new cards,
\* and all cards become new objects.
RemoveFolder(x, found) ==
    /\ folders' = DeleteNode(folders, x)
    /\ items' = Plus(items, found) /\ endNodes' = NoCards
    /\ stale' = (stale \/ (found # NoCards /\ cut # NoCards))
    /\ selected' = Nothing /\ modified' = TRUE

\* deleteFolder.  findAllFilesInStructure adds to end_nodes, and the user is
\* asked afterwards; one who says no leaves end_nodes as it is.
DeleteFolder(confirmed) ==
    LET x     == selected
        whole == folders[x] # <<>>
        found == Plus(endNodes, CardsOf(IF whole THEN FilesBelow(folders, x) ELSE {x} \cap Files))
    IN  /\ x \notin {Nothing, Root}
        /\ ~confirmed => whole
        /\ \A f \in Files : items[f] + found[f] <= MaxCopies
        /\ \/ confirmed /\ RemoveFolder(x, found)
           \/ /\ ~confirmed /\ endNodes' = found
              /\ UNCHANGED <<folders, items, stale, selected, modified>>
        /\ mishap' = (mishap \/ (~confirmed /\ found # NoCards))
        /\ UNCHANGED <<cutNode, chosen, cut, saveVars>>

Swapped(s, i) == [s EXCEPT ![i] = s[i + 1], ![i + 1] = s[i]]

\* moveItemById of the selected folder, by one place.  The buttons also set
\* tree.modified where nothing can move.
Reorder(next) ==
    /\ selected \in Folders
    /\ folders' = next /\ modified' = TRUE
    /\ UNCHANGED <<selected, cutNode, galleryVars, saveVars, mishap>>

MoveUp ==
    \/ \E p \in Nodes : \E i \in 1 .. Len(folders[p]) - 1 :
          /\ folders[p][i + 1] = selected
          /\ Reorder([folders EXCEPT ![p] = Swapped(@, i)])
    \/ \E p \in Nodes : folders[p] # <<>> /\ Head(folders[p]) = selected /\ Reorder(folders)

IsNextItemAFile(p, i) == folders[p][i + 1] \in Files

\* Files stay below the folders.
MoveDown ==
    \/ \E p \in Nodes : \E i \in 1 .. Len(folders[p]) - 1 :
          /\ folders[p][i] = selected
          /\ Reorder(IF IsNextItemAFile(p, i) THEN folders
                     ELSE [folders EXCEPT ![p] = Swapped(@, i)])
    \/ \E p \in Nodes : folders[p] # <<>> /\ Last(folders[p]) = selected /\ Reorder(folders)

\* saveLabel
SaveLabel == /\ modified' = TRUE
             /\ UNCHANGED <<folders, selected, cutNode, galleryVars, saveVars, mishap>>

---------------------------------------------------------------------------
(* Saving *)

\* saveHandler, and the first part of saveStructureAJAX: what is sent is the
\* tree of this moment.
Save == /\ modified /\ saveState # "SAVING"
        /\ saves < MaxSaves /\ saves' = saves + 1
        /\ saveState' = "SAVING" /\ request' = "delayed" /\ sent' = Clean(folders)
        /\ UNCHANGED <<treeVars, galleryVars, stored, mishap>>

\* the second of delay is over: xhr.send
SendRequest == /\ request = "delayed" /\ request' = "sent"
               /\ UNCHANGED <<treeVars, galleryVars, saveState, sent, stored, saves, mishap>>

\* the PUT is taken, or refused, or does not arrive
ServerStores == /\ request = "sent" /\ request' = "done" /\ stored' = sent
                /\ UNCHANGED <<treeVars, galleryVars, saveState, sent, saves, mishap>>

ServerRefuses == /\ request = "sent" /\ request' = "refused"
                 /\ UNCHANGED <<treeVars, galleryVars, saveState, sent, stored, saves, mishap>>

\* onreadystatechange.  tree.modified stays TRUE: APPLY_TREE_STATE is defined
\* and nothing commits it.
Completed(status) == /\ saveState' = status /\ request' = "none"
                     /\ UNCHANGED <<treeVars, galleryVars, sent, stored, saves, mishap>>

\* Slip: readyState 4 is taken for success.
AnswerUnread == request \in {"done", "refused"} /\ Completed("SAVED")

\* Slip: nothing is done about a status that is not 200 or 201.
AnswerGood == request = "done" /\ Completed("SAVED")

Answer == \/ request = "done" /\ Completed("SAVED")
          \/ request = "refused" /\ Completed("ERROR")

\* the connection breaks after the server has stored the structure
AnswerLost == request = "done" /\ Completed("ERROR")

---------------------------------------------------------------------------

Selecting == \/ \E c \in [Files -> 0 .. MaxCopies] : SelectCards(c)
             \/ \E n \in Shown : SelectNode(n)
             \/ Deselect
             \/ CutSelected
             \/ UndoCut

Pasting == \/ \E a \in SetToSeqs(FilesOf(cut)) : PasteCards(a)
           \/ PasteNode
           \/ \E new \in Folders, a \in UNION {SetToSeqs(S) : S \in SUBSET Files} : GroupSelected(new, a)

Containers == Shown \ Files

DragNode == LET targets == Containers
            IN  \E x \in InTree \cap Shown : \E n \in targets \ Under(folders, x) :
                   \E i \in 1 .. Len(folders[n]) + 1 : DropNode(x, n, i)

Dragging == \/ \E n \in Containers, f \in Files : DropCard(f, n)
            \/ \E n \in Containers, f \in Files, a \in SetToSeqs(FilesOf(chosen)) : DropCutCard(f, n, a)
            \/ DropCardBack
            \/ DragNode

Editing == \/ \E new \in Folders : CreateFolder(new)
           \/ \E confirmed \in BOOLEAN : DeleteFolder(confirmed)
           \/ MoveUp
           \/ MoveDown
           \/ SaveLabel

Saving == Save \/ SendRequest \/ ServerStores \/ ServerRefuses \/ Answer \/ AnswerLost

Next == Selecting \/ Pasting \/ Dragging \/ Editing \/ Saving

Spec == Init /\ [][Next]_vars

\* The timer fires, and a request that was sent is answered or fails.
Fairness == /\ WF_vars(SendRequest)
            /\ WF_vars(ServerStores \/ ServerRefuses)
            /\ WF_vars(Answer \/ AnswerLost)

FairSpec == Spec /\ Fairness

---------------------------------------------------------------------------
(* Properties *)

Positions(t, f) == {n \in Under(t, Root) : f \in Below(t, n)}

\* As long as nothing on the list of `mishap' has happened every file of the
\* resource is shown exactly once: as a card, or at one place of the tree that
\* can be reached from its root.
EveryFileOnce ==
    mishap \/ /\ WellFormed(folders)
              /\ \A f \in Files : items[f] + Cardinality(Positions(folders, f)) = 1

\* "tree and gallery items cannot be selected simultaneously": the shortcuts
\* would not know which of the two is meant.
SelectionExclusive == selected # Nothing => chosen = NoCards

\* What is cut or chosen can be found again: the chosen cards are cards that
\* are there and not cut, and cut cards that are not stale are there.
ChosenAreThere ==
    mishap \/ \A f \in Files : /\ chosen[f] + (IF stale THEN 0 ELSE cut[f]) <= items[f]

\* "Your work has been saved!" is said of the structure the server has.
SavedIsStored == saveState = "SAVED" => stored = sent

\* A save sends the whole tree that the page shows: of no file or folder the
\* clean-up for the request loses what is below it.
SavedWhole == [][Save => mishap \/ sent' = folders]_vars

\* A save ends: the overlay goes away.
SavesEnd == saveState = "SAVING" ~> saveState # "SAVING"
=============================================================================
