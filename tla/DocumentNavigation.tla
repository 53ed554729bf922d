------------------------- MODULE DocumentNavigation -------------------------
(***************************************************************************)
(* The tree of a workspace's saved documents (workspace-sidebar.tsx) and   *)
(* its tabs (document-tabs.tsx): what the mouse drags, where it is dropped *)
(* and what the handlers of workspace-workbench.tsx make of it.            *)
(*                                                                         *)
(* Schema connections and drafts have lists of their own and cannot be     *)
(* dragged.  Where the pointer is over is one step; distances are left     *)
(* out.                                                                    *)
(***************************************************************************)
EXTENDS Integers, FiniteSets, Sequences, SequencesExt, Functions

CONSTANTS
    Documents,   \* identifiers of saved documents
    Folders,     \* identifiers of folders
    None,
    MaxEdits     \* bound: what the user does

Items == Documents \cup Folders
PanelTabs == <<"cookies", "variables", "settings">>

VARIABLES
    items,      \* what exists, in the order it was made
    folderId,   \* item -> the folder it is in, or None
    order,      \* sidebarItemOrder
    hidden,     \* documents the search does not match
    selected,   \* documents selected with Shift
    drag,       \* what is dragged, and the row it is over
    tabs,       \* openDocumentIds
    panels,     \* open tabs of the workspace itself
    active,     \* the tab that is shown
    preview,    \* previewDocumentId
    hold,       \* the tab that is dragged, and the places of the tabs then
    edits

vars == <<items, folderId, order, hidden, selected, drag, tabs, panels, active, preview, hold,
          edits>>
tree == <<items, folderId, order>>
tabBar == <<tabs, panels, active, preview, hold>>

NoDrag == [id |-> None, ids |-> {}, over |-> None, side |-> "before"]
NoHold == [id |-> None, from |-> 0, to |-> 0, places |-> <<>>, moved |-> FALSE]

Of(kind) == SelectSeq(items, LAMBDA i : i \in kind)
Exists(i) == i \in Range(items)
Place(id, seq) == CHOOSE n \in DOMAIN seq : seq[n] = id
Edit == edits < MaxEdits /\ edits' = edits + 1

-----------------------------------------------------------------------------
(* The tree.                                                               *)

\* The folders an item is in.
Above(i) ==
    LET up[n \in 0..Cardinality(Folders)] ==
            IF n = 0 THEN {i} ELSE {folderId[j] : j \in up[n - 1] \cap DOMAIN folderId}
    IN UNION {up[n] : n \in 1..Cardinality(Folders)} \ {None}
IsFolderDescendant(i, ancestor) == ancestor \in Above(i)

DocumentsIn(f) == SelectSeq(Of(Documents), LAMBDA d : folderId[d] = f /\ d \notin hidden)
Children(f) == SelectSeq(Of(Folders), LAMBDA g : folderId[g] = f)
HasVisibleContent(f) ==
    \E d \in Range(Of(Documents)) : d \notin hidden /\ IsFolderDescendant(d, f)

\* Items the user has ordered, then the others, folders first.
Ordered(candidates) ==
    SelectSeq(order, LAMBDA i : i \in Range(candidates))
    \o SelectSeq(candidates, LAMBDA i : i \notin Range(order))

\* The rows of a folder; at the root a search leaves out folders without a match.
Rows(f) ==
    LET shown == IF f = None
                 THEN SelectSeq(Children(f), LAMBDA g : hidden = {} \/ HasVisibleContent(g))
                 ELSE Children(f)
    IN Ordered(shown \o DocumentsIn(f))

Shown(i) == \A j \in {i} \cup Above(i) : j \in Range(Rows(folderId[j]))

Moved(ids, f) == [i \in DOMAIN folderId |-> IF i \in ids THEN f ELSE folderId[i]]

\* Mutant: a folder is moved wherever it is dropped.
MoveFolderAnywhere(g, f) == Moved({g}, f)

\* moveFolder: not into itself or what it holds.
MoveFolder(g, f) ==
    IF f = g \/ (f # None /\ IsFolderDescendant(f, g)) THEN folderId ELSE Moved({g}, f)

\* Every item of the tree gets a place.
Placed ==
    LET known == SelectSeq(order, LAMBDA i : Exists(i))
    IN known \o SelectSeq(Of(Documents) \o Of(Folders), LAMBDA i : i \notin Range(known))

\* Mutant: the place of the row is looked up before the dragged item is taken out.
InsertedByPlace(i, target, side) ==
    LET others == SelectSeq(Placed, LAMBDA j : j # i)
        place == Place(target, Placed) + (IF side = "after" THEN 1 ELSE 0)
    IN InsertAt(others, IF place > Len(others) THEN Len(others) + 1 ELSE place, i)

\* reorderSidebarItem: the dragged item gets its place next to the row.
Inserted(i, target, side) ==
    LET others == SelectSeq(Placed, LAMBDA j : j # i)
    IN InsertAt(others, Place(target, others) + (IF side = "after" THEN 1 ELSE 0), i)

-----------------------------------------------------------------------------

Create(i, f) ==
    /\ Edit /\ ~Exists(i) /\ f \in Range(Of(Folders)) \cup {None}
    /\ items' = Append(items, i)
    /\ folderId' = [j \in DOMAIN folderId \cup {i} |-> IF j = i THEN f ELSE folderId[j]]
    /\ UNCHANGED <<order, hidden, selected, drag, tabBar>>

Removed(i) == SelectSeq(items, LAMBDA j : j # i)

\* Mutant: what a removed folder held goes to the root with its documents only.
LeftBehind(f) ==
    [i \in DOMAIN folderId \ {f} |->
        IF folderId[i] = f /\ i \in Documents THEN folderId[f] ELSE folderId[i]]

\* deleteFolder: what it held goes where it was.
Reparented(f) ==
    [i \in DOMAIN folderId \ {f} |-> IF folderId[i] = f THEN folderId[f] ELSE folderId[i]]

DeleteFolder(f) ==
    /\ Edit /\ f \in Range(Of(Folders)) /\ drag = NoDrag
    /\ items' = Removed(f) /\ folderId' = Reparented(f)
    /\ UNCHANGED <<order, hidden, selected, drag, tabBar>>

MoveFromMenu(i, f) ==
    /\ Edit /\ Exists(i) /\ drag = NoDrag
    /\ f \in Range(Of(Folders)) \cup {None} /\ f # folderId[i]
    /\ folderId' = IF i \in Documents THEN Moved({i}, f) ELSE MoveFolder(i, f)
    /\ UNCHANGED <<items, order, hidden, selected, drag, tabBar>>

Search(S) ==
    /\ Edit /\ drag = NoDrag /\ S \subseteq Documents /\ S # hidden
    /\ hidden' = S
    /\ UNCHANGED <<tree, selected, drag, tabBar>>

\* Shift adds a document to the selection or takes it out.
Select(d) ==
    /\ Edit /\ drag = NoDrag /\ d \in Range(Of(Documents)) \ hidden
    /\ selected' = IF d \in selected THEN selected \ {d} ELSE selected \cup {d}
    /\ UNCHANGED <<tree, hidden, drag, tabBar>>

DragStart(i) ==
    /\ Edit /\ drag = NoDrag /\ hold = NoHold /\ Exists(i) /\ Shown(i)
    /\ drag' = [NoDrag EXCEPT !.id = i,
                   !.ids = IF i \in Folders THEN {}
                           ELSE IF i \in selected THEN selected ELSE {i}]
    /\ UNCHANGED <<tree, hidden, selected, tabBar>>

\* A folder's row, or the upper or lower half of a document's.
DragOver(row, side) ==
    /\ drag.id # None /\ Exists(row) /\ Shown(row)
    /\ drag' = [drag EXCEPT !.over = row, !.side = side]
    /\ drag' # drag
    /\ UNCHANGED <<tree, hidden, selected, tabBar, edits>>

DropInFolder(f) ==
    /\ folderId' = IF drag.id \in Documents THEN Moved(drag.ids, f)
                   ELSE MoveFolder(drag.id, f)
    /\ selected' = IF drag.id \in Documents THEN {} ELSE selected
    /\ UNCHANGED order

DropOnRow(d) ==
    IF drag.id \in Folders /\ IsFolderDescendant(d, drag.id)
    THEN UNCHANGED <<folderId, order, selected>>
    ELSE /\ folderId' = Moved({drag.id}, folderId[d])
         /\ order' = Inserted(drag.id, d, drag.side)
         /\ UNCHANGED selected

\* A document dropped on itself is dropped on the folder around it.
Drop ==
    /\ drag.id # None /\ drag.over # None
    /\ \/ drag.over \in Folders /\ DropInFolder(drag.over)
       \/ drag.over \in Documents \ {drag.id} /\ DropOnRow(drag.over)
       \/ /\ drag.over = drag.id /\ drag.id \in Documents
          /\ IF folderId[drag.id] = None THEN UNCHANGED <<folderId, order, selected>>
             ELSE DropInFolder(folderId[drag.id])
    /\ drag' = NoDrag
    /\ UNCHANGED <<items, hidden, tabBar, edits>>

DragEnd ==
    /\ drag.id # None
    /\ drag' = NoDrag
    /\ UNCHANGED <<tree, hidden, selected, tabBar, edits>>

-----------------------------------------------------------------------------
(* Tabs.                                                                   *)

AllTabs(documents, open) == documents \o SelectSeq(PanelTabs, LAMBDA p : p \in open)

\* closeDocument, activateRemainingTab: the next document, the first, or a panel.
Remaining(documents, open, next) ==
    IF next \in Range(AllTabs(documents, open)) THEN next
    ELSE IF AllTabs(documents, open) = <<>> THEN None ELSE AllTabs(documents, open)[1]
Neighbour(id, documents) ==
    IF active # id THEN active
    ELSE IF documents = <<>> THEN None
    ELSE documents[IF Place(id, tabs) > Len(documents) THEN Len(documents) ELSE Place(id, tabs)]
Without(id) == SelectSeq(tabs, LAMBDA t : t # id)

CloseTab(id) ==
    /\ Edit /\ id \in Range(tabs)
    /\ tabs' = Without(id)
    /\ preview' = IF preview = id THEN None ELSE preview
    /\ active' = Remaining(Without(id), panels, Neighbour(id, Without(id)))
    /\ UNCHANGED <<tree, hidden, selected, drag, panels, hold>>

\* deleteDocument: its tab goes with it; the selection keeps its name.
DeleteDocument(d) ==
    /\ Edit /\ d \in Range(Of(Documents)) /\ drag = NoDrag
    /\ items' = Removed(d)
    /\ folderId' = [i \in DOMAIN folderId \ {d} |-> folderId[i]]
    /\ tabs' = Without(d)
    /\ preview' = IF preview = d THEN None ELSE preview
    /\ active' = IF d \in Range(tabs) THEN Remaining(Without(d), panels, Neighbour(d, Without(d)))
                 ELSE active
    /\ UNCHANGED <<order, hidden, selected, drag, panels, hold>>

\* previewDocument: in place of the document that is only looked at.
OpenRow(d) ==
    /\ Edit /\ drag = NoDrag /\ d \in Range(Of(Documents)) \ hidden
    /\ selected' = {} /\ active' = d
    /\ IF d \in Range(tabs) THEN UNCHANGED <<tabs, preview>>
       ELSE /\ preview' = d
            /\ tabs' = IF preview \in Range(tabs)
                       THEN [tabs EXCEPT ![Place(preview, tabs)] = d] ELSE Append(tabs, d)
    /\ UNCHANGED <<tree, hidden, drag, panels, hold>>

Pin(d) ==
    /\ Edit /\ preview = d /\ d # None
    /\ preview' = None
    /\ UNCHANGED <<tree, hidden, selected, drag, tabs, panels, active, hold>>

OpenPanel(p) ==
    /\ Edit /\ active # p
    /\ panels' = panels \cup {p} /\ active' = p
    /\ UNCHANGED <<tree, hidden, selected, drag, tabs, preview, hold>>
ClosePanel(p) ==
    /\ Edit /\ p \in panels
    /\ panels' = panels \ {p}
    /\ active' = Remaining(tabs, panels \ {p}, active)
    /\ UNCHANGED <<tree, hidden, selected, drag, tabs, preview, hold>>

\* The arrow keys, Home and End go through all tabs, around the end.
GoTo(n) ==
    LET all == AllTabs(tabs, panels) IN
    /\ Edit /\ active \in Range(all)
    /\ active' \in {all[1], all[Len(all)],
                    all[((Place(active, all) + n - 1) % Len(all)) + 1]}
    /\ UNCHANGED <<tree, hidden, selected, drag, tabs, panels, preview, hold>>

\* Mutant: the place of the target is looked up after the tab is taken out.
Spliced(source, target) ==
    LET others == Without(source) IN InsertAt(others, Place(target, others), source)

\* The tab takes the place of the target.
ReorderOpenDocuments(source, target) ==
    InsertAt(Without(source), Place(target, tabs), source)
Reorder(source, target) ==
    IF source = target \/ {source, target} \ Range(tabs) # {}
    THEN UNCHANGED <<tabs, preview>>
    ELSE /\ tabs' = ReorderOpenDocuments(source, target)
         /\ preview' = IF preview = source THEN None ELSE preview

\* Alt, Shift and an arrow move a tab by one place.
MoveByKey(id, right) ==
    /\ Edit /\ id \in Range(tabs)
    /\ LET n == Place(id, tabs)
           to == IF right THEN (IF n = Len(tabs) THEN n ELSE n + 1)
                 ELSE (IF n = 1 THEN n ELSE n - 1)
       IN Reorder(id, tabs[to])
    /\ UNCHANGED <<tree, hidden, selected, drag, panels, active, hold>>

PointerDown(id) ==
    /\ Edit /\ hold = NoHold /\ drag = NoDrag /\ id \in Range(tabs)
    /\ hold' = [id |-> id, from |-> Place(id, tabs), to |-> Place(id, tabs), places |-> tabs,
                moved |-> FALSE]
    /\ UNCHANGED <<tree, hidden, selected, drag, tabs, panels, active, preview>>

\* moveTab: the first movement pins the tab.
PointerMove(n) ==
    /\ hold # NoHold /\ n \in DOMAIN hold.places
    /\ hold' = [hold EXCEPT !.to = n, !.moved = TRUE]
    /\ hold' # hold
    /\ preview' = IF ~hold.moved /\ preview = hold.id THEN None ELSE preview
    /\ UNCHANGED <<tree, hidden, selected, drag, tabs, panels, active, edits>>

PointerUp ==
    /\ hold # NoHold
    /\ hold' = NoHold
    /\ IF hold.moved /\ hold.to # hold.from THEN Reorder(hold.id, hold.places[hold.to])
       ELSE UNCHANGED <<tabs, preview>>
    /\ UNCHANGED <<tree, hidden, selected, drag, panels, active, edits>>
PointerCancel ==
    /\ hold # NoHold
    /\ hold' = NoHold
    /\ UNCHANGED <<tree, hidden, selected, drag, tabs, panels, active, preview, edits>>

-----------------------------------------------------------------------------

\* A workspace as it was left, with any tree; documents are selected or not, and
\* everything has a tab or nothing has.
Init ==
    /\ items \in {<<>>, SetToSeq(Documents) \o SetToSeq(Folders)}
    /\ folderId \in [Range(items) -> Folders \cup {None}]
    /\ \A i \in Range(items) : ~IsFolderDescendant(i, i)
    /\ order = <<>> /\ hidden = {} /\ selected \in {{}, Range(Of(Documents))} /\ drag = NoDrag
    /\ tabs \in {<<>>, Of(Documents)}
    /\ panels = {} /\ active = (IF tabs = <<>> THEN None ELSE tabs[1])
    /\ preview = None /\ hold = NoHold /\ edits = 0

Next ==
    \/ \E i \in Items, f \in Folders \cup {None} : Create(i, f) \/ MoveFromMenu(i, f)
    \/ \E f \in Folders : DeleteFolder(f)
    \/ \E d \in Documents :
        Select(d) \/ DeleteDocument(d) \/ OpenRow(d) \/ Pin(d) \/ CloseTab(d) \/ PointerDown(d)
    \/ \E S \in SUBSET Documents : Search(S)
    \/ \E i \in Items : DragStart(i) \/ \E side \in {"before", "after"} : DragOver(i, side)
    \/ Drop \/ DragEnd
    \/ \E p \in Range(PanelTabs) : OpenPanel(p) \/ ClosePanel(p)
    \/ \E n \in {-1, 1} : GoTo(n)
    \/ \E d \in Documents, right \in BOOLEAN : MoveByKey(d, right)
    \/ \E n \in 1..Len(hold.places) : PointerMove(n)
    \/ PointerUp \/ PointerCancel

-----------------------------------------------------------------------------

TypeOK ==
    /\ DOMAIN folderId = Range(items) /\ IsInjective(items)
    /\ IsInjective(order) /\ Range(order) \subseteq Items
    /\ IsInjective(tabs) /\ Range(tabs) \subseteq Range(items)
    /\ active \in Range(AllTabs(tabs, panels)) \cup {None}
    /\ preview \in Range(tabs) \cup {None}
    /\ drag.ids \subseteq Documents

\* Folders are in folders that exist and never in themselves, and every saved
\* document that matches the search has exactly one row, under rows of its folders.
TreeShowsAll ==
    /\ \A i \in Range(items) : folderId[i] # None =>
        /\ folderId[i] \in Range(Of(Folders))
        /\ ~IsFolderDescendant(i, i)
    /\ \A d \in Range(Of(Documents)) \ hidden :
        \A i \in {d} \cup Above(d) :
            Cardinality({n \in DOMAIN Rows(folderId[i]) : Rows(folderId[i])[n] = i}) = 1

\* What is dropped on a document's row has its row where the line was, and the
\* other items of its kind keep their order (a folder without a match that comes to
\* the root has no row while a search lasts).
DropLandsAtLine ==
    order' # order /\ (drag.id \in Documents \/ hidden = {}) => \A f \in Folders \cup {None}, target \in Documents :
        target = drag.over /\ f = folderId[target] =>
            LET before == Rows(f)
                after == Rows(f)'
                others(rows, kind) ==
                    SelectSeq(rows, LAMBDA i : i \in kind \ {drag.id}
                                               /\ i \in Range(before) \cap Range(after))
            IN /\ Place(drag.id, after) =
                      Place(target, after) + (IF drag.side = "after" THEN 1 ELSE -1)
               /\ \A kind \in {Documents, Folders} : others(after, kind) = others(before, kind)

\* Where each tab is shown while one of them is dragged.
ShownPlace(n) ==
    CASE n = hold.from -> hold.to
      [] n > hold.from /\ n <= hold.to -> n - 1
      [] n < hold.from /\ n >= hold.to -> n + 1
      [] OTHER -> n

\* A dragged tab is dropped where it is shown, if no tab has come or gone; and if
\* one has, no tab is lost and the others keep their order.
TabLandsAsShown ==
    hold # NoHold /\ hold' = NoHold /\ tabs' # tabs =>
        /\ hold.places = tabs => \A n \in DOMAIN tabs : tabs'[ShownPlace(n)] = tabs[n]
        /\ Range(tabs') = Range(tabs) /\ Len(tabs') = Len(tabs)
        /\ SelectSeq(tabs', LAMBDA t : t # hold.id) = SelectSeq(tabs, LAMBDA t : t # hold.id)
        /\ preview' # hold.id
=============================================================================
