--------------------------- MODULE MainWindowProofs ---------------------------
(* Proofs about HMultiView, for any number of views, layouts and points, and    *)
(* about the main window around it.                                             *)
(*                                                                              *)
(* Tiled is not inductive: that the places tile the area follows from the ids   *)
(* being a permutation and from which views are shown where.  GridInv says so   *)
(* in the two modes, the grid and one view stretched; the second also needs     *)
(* that prev_table is the table to go back to.                                  *)
(*                                                                              *)
(* The main window never leaves the user without a window, its check marks      *)
(* agree with what is shown, and the grid in it is a grid of HMultiView.        *)
EXTENDS MainWindow, TLAPS

-------------------------------------------------------------------------------
(* The grid.                                                                     *)

\* Every id is held by some view.
AllHeld == \A i \in Views : \E v \in Views : playerid[v] = i

\* The views shown are those of the table, each in its place.
AsTable == visible = InTable(table) /\ \A v \in visible : geometry[v] = Place(table, playerid[v])

\* One view is stretched over the whole area.
Stretched == bStretch /\ CellCount(table) # 1

OneOverAll == \E v \in Views : visible = {v} /\ geometry[v] = Everywhere

GridInv ==
    /\ TypeOK
    /\ AllHeld
    /\ ~Stretched => AsTable
    /\ Stretched => OneOverAll /\ prev_table = table

USE DEF Views, Everywhere

\* Initially view number v has id v and the views of the table are shown.
LEMMA InitInv == Init => GridInv
  <1> SUFFICES ASSUME Init PROVE GridInv
    OBVIOUS
  <1>1. \A v \in Views : playerid[v] = v
    BY DEF Init
  <1>2. TypeOK
    <2>1. geometry \in [Views -> SUBSET Points]
      BY DEF Init, Place
    <2> QED
      BY <1>1, <2>1 DEF Init, TypeOK
  <1>3. AllHeld
    BY <1>1 DEF AllHeld
  <1>4. visible = InTable(table)
    BY <1>1 DEF Init, InTable
  <1>5. AsTable
    <2>1. \A v \in visible : v \in Views
      BY DEF Init
    <2>2. \A v \in visible : geometry[v] = Place(table, v)
      BY <2>1 DEF Init
    <2> QED
      BY <1>1, <1>4, <2>1, <2>2 DEF AsTable
  <1>6. ~Stretched
    BY DEF Init, Stretched
  <1> QED
    BY <1>2, <1>3, <1>5, <1>6 DEF GridInv

\* What updateUI leaves behind, in whatever state it found the views.
LEMMA Updated ==
  ASSUME TypeOK, NEW t \in Layouts, playerid' = playerid,
         visible' = InTable(t), geometry' = Placed(t), table' = t
  PROVE  /\ AsTable'
         /\ geometry' \in [Views -> SUBSET Points]
         /\ visible' \subseteq Views
  <1>1. InTable(t)' = InTable(t) /\ \A v \in Views : Place(t, playerid[v])' = Place(t, playerid[v])
    BY DEF InTable, Place
  <1>2. InTable(t) \subseteq Views
    BY DEF InTable
  <1>3. \A v \in InTable(t) : geometry'[v] = Place(t, playerid[v])
    BY <1>2 DEF Placed
  <1>4. geometry' \in [Views -> SUBSET Points]
    BY DEF Placed, Place, TypeOK
  <1> QED
    BY <1>1, <1>2, <1>3, <1>4 DEF AsTable

LEMMA SetLayoutInv == ASSUME GridInv, NEW t \in Layouts, SetLayout(t) PROVE GridInv'
  <1>1. TypeOK /\ AllHeld
    BY DEF GridInv
  <1>2. /\ AsTable' /\ geometry' \in [Views -> SUBSET Points] /\ visible' \subseteq Views
    BY <1>1, Updated DEF SetLayout, UpdateUI
  <1>3. bStretch' = (CellCount(t) = 1) /\ table' = t /\ prev_table' = table
    BY DEF SetLayout, UpdateUI
  <1>4. ~Stretched'
    BY <1>3 DEF Stretched, CellCount
  <1>5. TypeOK'
    BY <1>1, <1>2, <1>3 DEF TypeOK, SetLayout, mouse
  <1>6. AllHeld'
    BY <1>1 DEF AllHeld, SetLayout
  <1> QED
    BY <1>2, <1>4, <1>5, <1>6 DEF GridInv

LEMMA ResizeInv == GridInv /\ Resize => GridInv'
  <1> SUFFICES ASSUME GridInv, Resize PROVE GridInv'
    OBVIOUS
  <1>1. TypeOK /\ AllHeld /\ table \in Layouts
    BY DEF GridInv, TypeOK
  <1>2. /\ AsTable' /\ geometry' \in [Views -> SUBSET Points] /\ visible' \subseteq Views
    BY <1>1, Updated DEF Resize, UpdateUI
  <1>3. bStretch' = (CellCount(table) = 1) /\ table' = table
    BY DEF Resize, UpdateUI
  <1>4. ~Stretched'
    BY <1>3 DEF Stretched, CellCount
  <1>5. TypeOK'
    BY <1>1, <1>2, <1>3 DEF TypeOK, Resize
  <1>6. AllHeld'
    BY <1>1 DEF AllHeld, Resize
  <1> QED
    BY <1>2, <1>4, <1>5, <1>6 DEF GridInv

\* Steps that leave the tables and the views alone keep the invariant.
LEMMA SameGrid ==
  ASSUME GridInv, TypeOK', UNCHANGED <<table, prev_table, grid>>
  PROVE  GridInv'
  BY DEF GridInv, grid, AllHeld, Stretched, AsTable, OneOverAll, InTable, Place, CellCount

\* When views are exchanged there are two, so that no view is stretched.
LEMMA ExchangeInv ==
  ASSUME GridInv, NEW v \in visible, NEW w \in visible, v # w, ExchangeCells(v, w),
         UNCHANGED <<table, prev_table, action, ptMousePress>>,
         pressed' \in BOOLEAN, dragging' \in BOOLEAN
  PROVE  GridInv'
  <1>1. TypeOK /\ AllHeld
    BY DEF GridInv
  <1>2. v \in Views /\ w \in Views
    BY <1>1 DEF TypeOK
  <1>3. ~Stretched /\ AsTable
    BY DEF GridInv, OneOverAll
  <1>4. /\ \A x \in Views : geometry'[x] = IF x = w THEN geometry[v]
                                           ELSE IF x = v THEN geometry[w] ELSE geometry[x]
        /\ \A x \in Views : playerid'[x] = IF x = w THEN playerid[v]
                                           ELSE IF x = v THEN playerid[w] ELSE playerid[x]
    BY <1>1, <1>2 DEF ExchangeCells, TypeOK
  <1>5. geometry' \in [Views -> SUBSET Points] /\ playerid' \in [Views -> Views]
    BY <1>1, <1>2 DEF ExchangeCells, TypeOK
  <1>6. \A x, y \in Views : playerid'[x] = playerid'[y] => x = y
    BY <1>1, <1>2, <1>4 DEF TypeOK
  <1>7. TypeOK'
    BY <1>1, <1>5, <1>6 DEF TypeOK, ExchangeCells
  <1>8. AllHeld'
    BY <1>1, <1>2, <1>4 DEF AllHeld
  <1>9. visible' = visible /\ table' = table /\ bStretch' = bStretch
    BY DEF ExchangeCells
  <1>10. InTable(table)' = InTable(table)
    <2>1. \A x \in Views : x \in visible <=> playerid[x] <= CellCount(table)
      BY <1>3 DEF AsTable, InTable
    <2>2. playerid[v] <= CellCount(table) /\ playerid[w] <= CellCount(table)
      BY <1>2, <2>1
    <2>3. \A x \in Views : playerid'[x] <= CellCount(table) <=> playerid[x] <= CellCount(table)
      BY <1>2, <1>4, <2>2
    <2> QED
      BY <1>9, <2>3 DEF InTable, CellCount
  <1>11. \A x \in visible : geometry'[x] = Place(table, playerid'[x])
    BY <1>1, <1>2, <1>3, <1>4 DEF AsTable, TypeOK
  <1>12. AsTable'
    BY <1>3, <1>9, <1>10, <1>11 DEF AsTable, Place
  <1>13. ~Stretched'
    BY <1>3, <1>9 DEF Stretched, CellCount
  <1> QED
    BY <1>7, <1>8, <1>12, <1>13 DEF GridInv

LEMMA ReleaseInv == ASSUME GridInv, NEW p \in Points, MouseRelease(p) PROVE GridInv'
  <1>1. /\ pressed' \in BOOLEAN /\ dragging' \in BOOLEAN
        /\ UNCHANGED <<table, prev_table, action, ptMousePress>>
    BY DEF MouseRelease
  <1>2. CASE UNCHANGED grid
    <2>1. TypeOK'
      BY <1>1, <1>2 DEF GridInv, TypeOK, grid
    <2> QED
      BY <1>1, <1>2, <2>1, SameGrid
  <1>3. CASE \E v \in At(ptMousePress), w \in At(p) : v # w /\ ExchangeCells(v, w)
    BY <1>1, <1>3, ExchangeInv DEF At
  <1> QED
    BY <1>2, <1>3 DEF MouseRelease

LEMMA StretchInv ==
  ASSUME GridInv, NEW view \in visible, Stretch(view), UNCHANGED <<action, ptMousePress, dragging>>,
         pressed' \in BOOLEAN
  PROVE  GridInv'
  <1>1. TypeOK /\ AllHeld /\ view \in Views
    BY DEF GridInv, TypeOK
  <1>2. /\ table' = table /\ playerid' = playerid /\ prev_table' = table
        /\ visible' = {view} /\ bStretch' = TRUE
        /\ geometry' \in [Views -> SUBSET Points] /\ geometry'[view] = Everywhere
    BY <1>1 DEF Stretch, TypeOK
  <1>3. TypeOK'
    BY <1>1, <1>2 DEF TypeOK
  <1>4. AllHeld'
    BY <1>1, <1>2 DEF AllHeld
  <1>5. Stretched'
    BY <1>2 DEF Stretched, Stretch, CellCount
  <1> QED
    BY <1>1, <1>2, <1>3, <1>4, <1>5 DEF GridInv, OneOverAll

LEMMA RestoreInv ==
  ASSUME GridInv, Restore, UNCHANGED <<action, ptMousePress, dragging>>, pressed' \in BOOLEAN
  PROVE  GridInv'
  <1>1. TypeOK /\ AllHeld /\ table \in Layouts /\ prev_table = table
    BY DEF GridInv, TypeOK, Restore, Stretched
  <1>2. /\ table' = table /\ prev_table' = table /\ bStretch' = FALSE /\ playerid' = playerid
        /\ visible' = InTable(table) /\ geometry' = Placed(table)
    BY <1>1 DEF Restore
  <1>3. AsTable' /\ geometry' \in [Views -> SUBSET Points] /\ visible' \subseteq Views
    BY <1>1, <1>2, Updated
  <1>4. TypeOK'
    BY <1>1, <1>2, <1>3 DEF TypeOK
  <1>5. AllHeld' /\ ~Stretched'
    BY <1>1, <1>2 DEF AllHeld, Stretched
  <1> QED
    BY <1>3, <1>4, <1>5 DEF GridInv

\* Every step keeps the invariant.
LEMMA NextInv == GridInv /\ [Next]_vars => GridInv'
  <1> SUFFICES ASSUME GridInv, [Next]_vars PROVE GridInv'
    OBVIOUS
  <1>1. ASSUME NEW t \in Layouts, SetLayout(t) PROVE GridInv'
    BY <1>1, SetLayoutInv
  <1>2. CASE Resize
    BY <1>2, ResizeInv
  <1>3. ASSUME NEW p \in Points, MousePress(p) PROVE GridInv'
    <2>1. TypeOK'
      BY <1>3 DEF GridInv, TypeOK, MousePress, grid
    <2> QED
      BY <1>3, <2>1, SameGrid DEF MousePress
  <1>4. ASSUME NEW p \in Points, MouseRelease(p) PROVE GridInv'
    BY <1>4, ReleaseInv
  <1>5. CASE MouseMove
    <2>1. TypeOK'
      BY <1>5 DEF GridInv, TypeOK, MouseMove, grid, Actions
    <2> QED
      BY <1>5, <2>1, SameGrid DEF MouseMove
  <1>6. CASE MouseDoubleClick
    <2>1. UNCHANGED <<action, ptMousePress, dragging>> /\ pressed' \in BOOLEAN
      BY <1>6 DEF MouseDoubleClick
    <2>2. CASE \E view \in At(ptMousePress) : Stretch(view)
      BY <2>1, <2>2, StretchInv DEF At
    <2>3. CASE Restore
      BY <2>1, <2>3, RestoreInv
    <2>4. CASE UNCHANGED <<table, prev_table, grid>>
      <3>1. TypeOK'
        BY <2>1, <2>4 DEF GridInv, TypeOK, grid
      <3> QED
        BY <2>4, <3>1, SameGrid
    <2> QED
      BY <1>6, <2>2, <2>3, <2>4 DEF MouseDoubleClick
  <1>7. CASE UNCHANGED vars
    <2>1. TypeOK'
      BY <1>7 DEF GridInv, TypeOK, vars, grid, mouse
    <2> QED
      BY <1>7, <2>1, SameGrid DEF vars
  <1> QED
    BY <1>1, <1>2, <1>3, <1>4, <1>5, <1>6, <1>7 DEF Next

\* The invariant implies that the visible views tile the area.
LEMMA InvTiles == GridInv => Tiled
  <1> SUFFICES ASSUME GridInv, NEW p \in Points PROVE \E v \in visible : At(p) = {v}
    BY DEF Tiled
  <1>1. CASE Stretched
    <2>1. PICK v \in Views : visible = {v} /\ geometry[v] = Points
      BY <1>1 DEF GridInv, OneOverAll
    <2> QED
      BY <2>1 DEF At
  <1>2. CASE ~Stretched
    <2>1. TypeOK /\ AllHeld /\ AsTable
      BY <1>2 DEF GridInv
    <2>2. p[table] \in 1 .. CellCount(table) /\ CellCount(table) \in 1 .. MaxNum
      BY <2>1, PointsAssumption, LayoutsAssumption DEF TypeOK
    <2>3. PICK v \in Views : playerid[v] = p[table]
      BY <2>1, <2>2, MaxNumAssumption DEF AllHeld
    <2>4. v \in visible
      BY <2>1, <2>2, <2>3 DEF AsTable, InTable
    <2>5. \A w \in visible : p \in geometry[w] <=> w = v
      BY <2>1, <2>3, <2>4 DEF AsTable, Place, TypeOK
    <2> QED
      BY <2>4, <2>5 DEF At
  <1> QED
    BY <1>1, <1>2

THEOREM Invariance == Spec => []GridInv
  BY InitInv, NextInv, PTL DEF Spec

\* After any exchanges the ids are still one per view (HMultiView::exchangeCells).
THEOREM TypeCorrect == Spec => []TypeOK
  <1>1. GridInv => TypeOK
    BY DEF GridInv
  <1> QED
    BY Invariance, <1>1, PTL

\* The visible views always cover the area without overlap (HMultiView::updateUI,
\* stretch, exchangeCells), whatever the layouts.
THEOREM Tiling == Spec => []Tiled
  BY Invariance, InvTiles, PTL

\* Outside a stretch every visible view is in the place of its id
\* (HMultiView::exchangeCells, updateUI).
THEOREM ExchangesLast == Spec => []InPlace
  <1>1. GridInv => InPlace
    BY DEF GridInv, Stretched, AsTable, InPlace
  <1> QED
    BY Invariance, <1>1, PTL

\* A stretch always can be undone to the layout it began in (HMultiView::stretch,
\* restoreLayout, setLayout).
THEOREM RestoreGoesBack == Spec => []StretchUndone
  <1>1. GridInv => StretchUndone
    BY DEF GridInv, Stretched, StretchUndone
  <1> QED
    BY Invariance, <1>1, PTL

-------------------------------------------------------------------------------
(* The window.                                                                   *)

\* The menu bar's mark agrees also while the window is hidden: nothing that changes
\* either can be done then.
MainInv ==
    /\ NoTrap
    /\ actMenubar \in BOOLEAN /\ menubar \in BOOLEAN
    /\ actMenubar = menubar
    /\ actMvFullscreen = mv_window
    /\ actFullscreen => window_state = "FULLSCREEN" /\ rcOld = rect
    /\ shown \in BOOLEAN /\ mv_window \in BOOLEAN
    /\ actFullscreen \in BOOLEAN

LEMMA MainInitInv == MainInit => MainInv
  <1> SUFFICES ASSUME MainInit PROVE MainInv
    OBVIOUS
  <1>1. menubar \in BOOLEAN /\ mv_window \in BOOLEAN
    BY DEF MainInit
  <1>2. NoTrap
    BY <1>1 DEF MainInit, NoTrap, GetsKeys
  <1> QED
    BY <1>1, <1>2 DEF MainInit, MainInv

LEMMA FullscreenInv == MainInv /\ ToggleFullscreen => MainInv'
  <1> SUFFICES ASSUME MainInv, ToggleFullscreen PROVE MainInv'
    OBVIOUS
  <1> USE DEF MainInv, NoTrap, ToggleFullscreen, Fullscreen, GetsKeys
  <1>1. shown /\ shown' /\ ~mv_window /\ ~mv_window'
    OBVIOUS
  <1>2. CASE window_state = "FULLSCREEN"
    BY <1>1, <1>2
  <1>3. CASE window_state # "FULLSCREEN"
    BY <1>1, <1>3
  <1> QED
    BY <1>2, <1>3

LEMMA MainNextInv == MainInv /\ [MainNext]_mainVars => MainInv'
  <1> SUFFICES ASSUME MainInv, [MainNext]_mainVars PROVE MainInv'
    OBVIOUS
  <1> USE DEF MainInv, NoTrap, GetsKeys
  <1>1. CASE ToggleFullscreen
    BY <1>1, FullscreenInv
  <1>2. CASE ToggleMvFullscreen
    BY <1>2 DEF ToggleMvFullscreen, MvFullscreen, place
  <1>3. CASE ToggleMenubar
    BY <1>3 DEF ToggleMenubar, IsVisible, place
  <1>4. CASE CheckMenubar
    BY <1>4 DEF CheckMenubar, AtMenu, place
  <1>5. CASE ChangeWindow
    BY <1>5 DEF ChangeWindow, marks
  <1>6. CASE OpenMediaDlg \/ CloseMediaDlg
    <2>1. UNCHANGED <<window_state, rect, rcOld, menubar, shown, mv_window, grabbed,
                      actMenubar, actFullscreen, actMvFullscreen>>
      BY <1>6 DEF OpenMediaDlg, CloseMediaDlg, place, marks
    <2>2. NoTrap'
      BY <2>1
    <2> QED
      BY <2>1, <2>2
  <1>7. CASE UNCHANGED main
    BY <1>7 DEF main, place, marks
  <1> QED
    BY <1>1, <1>2, <1>3, <1>4, <1>5, <1>6, <1>7
       DEF MainNext, mainVars, MVStyleSelected, Mouse

THEOREM MainInvariance == MainSpec => []MainInv
  BY MainInitInv, MainNextInv, PTL DEF MainSpec

\* Whatever the places of the window and the layouts: the main window is hidden exactly
\* while the grid is a window, and gets the keys then (MainWindow::mv_fullscreen).
THEOREM AlwaysAWayOut == MainSpec => []NoTrap
  <1>1. MainInv => NoTrap
    BY DEF MainInv
  <1> QED
    BY MainInvariance, <1>1, PTL

\* The marks agree with what is shown, and full screen with its mark can be left to where
\* the window was (MainWindow::fullscreen, mv_fullscreen, keyPressEvent).
THEOREM MarksAreRight == MainSpec => []MarksAgree
  <1>1. MainInv => MarksAgree
    BY DEF MainInv, MarksAgree, IsVisible
  <1> QED
    BY MainInvariance, <1>1, PTL

\* The grid in the main window is a grid of HMultiView: every key, entry of the menu and
\* change of the window does to it one of its own steps, or none.
THEOREM WindowKeepsGrid == MainSpec => Spec
  <1>1. MainInit => Init
    BY DEF MainInit
  <1>2. [MainNext]_mainVars => [Next]_vars
    <2> SUFFICES ASSUME [MainNext]_mainVars PROVE [Next]_vars
      OBVIOUS
    <2>1. CASE ToggleFullscreen \/ ToggleMvFullscreen \/ ToggleMenubar
               \/ CheckMenubar \/ ChangeWindow
      BY <2>1 DEF ToggleFullscreen, ToggleMvFullscreen, ToggleMenubar, CheckMenubar,
                  ChangeWindow, Next
    <2>2. CASE OpenMediaDlg \/ CloseMediaDlg \/ UNCHANGED mainVars
      BY <2>2 DEF OpenMediaDlg, CloseMediaDlg, mainVars
    <2>3. CASE \E t \in Layouts : MVStyleSelected(t)
      BY <2>3 DEF MVStyleSelected, Next
    <2>4. CASE Mouse
      BY <2>4 DEF Mouse, Next
    <2> QED
      BY <2>1, <2>2, <2>3, <2>4 DEF MainNext
  <1> QED
    BY <1>1, <1>2, PTL DEF MainSpec, Spec

\* So the cells tile the area through any full screens too (HMultiView::resizeEvent).
THEOREM TiledInWindow == MainSpec => []Tiled
  BY WindowKeepsGrid, Tiling, PTL
===============================================================================
