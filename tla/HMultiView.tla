------------------------------ MODULE HMultiView ------------------------------
(* The grid of video cells: a table of rows and columns, the views that it     *)
(* shows, one view stretched over the whole area by a double click, and two    *)
(* views exchanged by dragging one onto the other.  All of it runs in the UI   *)
(* thread, one event at a time; what makes it hard is that the table, the      *)
(* previous table, the playerids, the visibility and the geometries are        *)
(* changed by different events and have to agree after any sequence of them.   *)
(*                                                                             *)
(* A point of the area is abstracted to the cell in which each layout puts it, *)
(* and a geometry to the points it contains.  The margins, the separator line  *)
(* and the dragged thumbnail's place are left out.                             *)
EXTENDS Naturals

CONSTANTS
    Layouts, \* the tables, each with its row and col, that setLayout may be given
    Points,  \* the points of the area: p[t] is the id of the cell of table t around p
    NoPoint, \* no mouse button was pressed yet
    MaxNum   \* MV_STYLE_MAXNUM, the number of views

CellCount(t) == t.row * t.col

ASSUME MaxNumAssumption == MaxNum \in Nat
ASSUME LayoutsAssumption ==
    /\ Layouts \subseteq [row : Nat \ {0}, col : Nat \ {0}]
    /\ \A t \in Layouts : CellCount(t) \in 1 .. MaxNum
ASSUME PointsAssumption ==
    \A p \in Points, t \in Layouts : p[t] \in 1 .. CellCount(t)
ASSUME NoPointAssumption == NoPoint \notin Points

VARIABLES
    table,        \* HMultiView::table
    prev_table,   \* HMultiView::prev_table
    playerid,     \* the playerid of each view
    geometry,     \* the points that each view covers
    visible,      \* the views that are shown
    bStretch,     \* HMultiView::bStretch
    action,       \* HMultiView::action, which nothing initialises
    ptMousePress, \* HMultiView::ptMousePress
    pressed,      \* a mouse button is down
    dragging      \* labDrag is visible

grid == <<playerid, geometry, visible, bStretch>>
mouse == <<action, ptMousePress, pressed, dragging>>
vars == <<table, prev_table, grid, mouse>>

Views == 1 .. MaxNum
Actions == {"STRETCH", "EXCHANGE", "MERGE"}

\* rect()
Everywhere == Points

\* The place of cell id of table t.
Place(t, id) == {p \in Points : p[t] = id}

\* The views that have a cell in table t.
InTable(t) == {v \in Views : playerid[v] <= CellCount(t)}

\* The view that getPlayerByPos returns for p may only be one of these.
At(p) == {v \in visible : p \in geometry[v]}

Placed(t) == [v \in Views |->
                 IF v \in InTable(t) THEN Place(t, playerid[v]) ELSE geometry[v]]

\* (mutant) updateUI does not hide the views first.
UpdateUI_HidesNone(t) ==
    /\ visible' = visible \cup InTable(t)
    /\ geometry' = Placed(t)
    /\ bStretch' = (CellCount(t) = 1)

\* updateUI: the views with a cell in table t, and only they, are placed and shown.
UpdateUI(t) ==
    /\ visible' = InTable(t)
    /\ geometry' = Placed(t)
    /\ bStretch' = (CellCount(t) = 1)

\* The constructor sets bStretch only after updateUI did.
Init ==
    /\ table \in Layouts
    /\ prev_table = [row |-> 0, col |-> 0]
    /\ playerid = [v \in Views |-> v]
    /\ visible = {v \in Views : v <= CellCount(table)}
    /\ geometry = [v \in Views |-> IF v \in visible THEN Place(table, v) ELSE {}]
    /\ bStretch = FALSE
    /\ action \in Actions
    /\ ptMousePress = NoPoint
    /\ pressed = FALSE
    /\ dragging = FALSE

\* setLayout, chosen from the menu or the tool bar: no button is down in the grid.
SetLayout(t) ==
    /\ ~pressed
    /\ prev_table' = table
    /\ table' = t
    /\ UpdateUI(t)
    /\ UNCHANGED <<playerid, mouse>>

\* resizeEvent, also of a press that is not released yet: the point it was made at
\* may come to lie in any other cell.
Resize ==
    /\ UpdateUI(table)
    /\ ptMousePress' \in IF ptMousePress = NoPoint THEN {NoPoint} ELSE Points
    /\ UNCHANGED <<table, prev_table, playerid, action, pressed, dragging>>

-------------------------------------------------------------------------------
(* The mouse, one button at a time.                                            *)

MousePress(p) ==
    /\ ~pressed
    /\ ptMousePress' = p
    /\ pressed' = TRUE
    /\ UNCHANGED <<table, prev_table, grid, action, dragging>>

\* A move with the left button, 0.3 s after the press or later, of a view.
MouseMove ==
    /\ pressed
    /\ At(ptMousePress) # {}
    /\ ~dragging
    /\ action' = "EXCHANGE"
    /\ dragging' = TRUE
    /\ UNCHANGED <<table, prev_table, grid, ptMousePress, pressed>>

\* (mutant) the second id is overwritten before it is read.
ExchangeCells_OneId(v, w) ==
    /\ geometry' = [geometry EXCEPT ![v] = geometry[w], ![w] = geometry[v]]
    /\ playerid' = [playerid EXCEPT ![v] = playerid[w]]
    /\ UNCHANGED <<visible, bStretch>>

\* (mutant) the views change places and keep their ids.
ExchangeCells_KeepIds(v, w) ==
    /\ geometry' = [geometry EXCEPT ![v] = geometry[w], ![w] = geometry[v]]
    /\ UNCHANGED <<playerid, visible, bStretch>>

ExchangeCells(v, w) ==
    /\ geometry' = [geometry EXCEPT ![v] = geometry[w], ![w] = geometry[v]]
    /\ playerid' = [playerid EXCEPT ![v] = playerid[w], ![w] = playerid[v]]
    /\ UNCHANGED <<visible, bStretch>>

MouseRelease(p) ==
    /\ pressed
    /\ pressed' = FALSE
    /\ dragging' = FALSE
    /\ \/ action = "EXCHANGE"
          /\ \E v \in At(ptMousePress), w \in At(p) : v # w /\ ExchangeCells(v, w)
       \/ /\ action = "EXCHANGE" => \A v \in At(ptMousePress), w \in At(p) : v = w
          /\ UNCHANGED grid
    /\ UNCHANGED <<table, prev_table, action, ptMousePress>>

\* (mutant) stretch does not save the layout.
Stretch_NotSaved(view) ==
    /\ CellCount(table) # 1 /\ ~bStretch
    /\ visible' = {view}
    /\ geometry' = [geometry EXCEPT ![view] = Everywhere]
    /\ bStretch' = TRUE
    /\ UNCHANGED <<table, prev_table, playerid>>

\* stretch(view): with one cell nothing, else the view over the whole area.
Stretch(view) ==
    /\ CellCount(table) # 1 /\ ~bStretch
    /\ prev_table' = table
    /\ visible' = {view}
    /\ geometry' = [geometry EXCEPT ![view] = Everywhere]
    /\ bStretch' = TRUE
    /\ UNCHANGED <<table, playerid>>

\* stretch of a view that is stretched: restoreLayout, and then bStretch is cleared.
Restore ==
    /\ CellCount(table) # 1 /\ bStretch
    /\ table' = prev_table
    /\ prev_table' = table
    /\ visible' = InTable(prev_table)
    /\ geometry' = Placed(prev_table)
    /\ bStretch' = FALSE
    /\ UNCHANGED playerid

\* The double click comes instead of the second press, at the place of the first.
MouseDoubleClick ==
    /\ ~pressed
    /\ ptMousePress # NoPoint
    /\ pressed' = TRUE
    /\ \/ \E view \in At(ptMousePress) : Stretch(view) \/ Restore
       \/ /\ At(ptMousePress) = {} \/ CellCount(table) = 1
          /\ UNCHANGED <<table, prev_table, grid>>
    /\ UNCHANGED <<action, ptMousePress, dragging>>

Next ==
    \/ \E t \in Layouts : SetLayout(t)
    \/ Resize
    \/ \E p \in Points : MousePress(p) \/ MouseRelease(p)
    \/ MouseMove
    \/ MouseDoubleClick

Spec == Init /\ [][Next]_vars

-------------------------------------------------------------------------------
(* Properties                                                                  *)

\* Types; every id is the id of one view, whatever was exchanged.
TypeOK ==
    /\ table \in Layouts
    /\ prev_table \in Layouts \cup {[row |-> 0, col |-> 0]}
    /\ playerid \in [Views -> Views]
    /\ \A v, w \in Views : playerid[v] = playerid[w] => v = w
    /\ geometry \in [Views -> SUBSET Points]
    /\ visible \subseteq Views
    /\ bStretch \in BOOLEAN
    /\ action \in Actions
    /\ ptMousePress \in Points \cup {NoPoint}
    /\ pressed \in BOOLEAN /\ dragging \in BOOLEAN

\* The visible views cover the area without overlap, so that getPlayerByPos finds one
\* view everywhere and no view draws over another, through any sequence of layouts,
\* resizes, stretches, restores and exchanges.
Tiled == \A p \in Points : \E v \in visible : At(p) = {v}

\* Unless one view is stretched, every visible view is where updateUI would put it: an
\* exchange lasts, no later resize or relayout moves a view back.
InPlace ==
    ~bStretch => \A v \in visible : geometry[v] = Place(table, playerid[v])

\* A double click on a stretched view brings back the layout in which it was stretched,
\* although setLayout and restoreLayout use prev_table as well.
StretchUndone == bStretch /\ CellCount(table) # 1 => prev_table = table
===============================================================================
