------------------------------ MODULE MainWindow ------------------------------
(* The main window around the grid: its own full screen (F11, Esc), in which   *)
(* the grid stays a part of it, and the full screen of the grid (F12), in      *)
(* which the grid is a window and the main window is hidden; the menu bar and  *)
(* the check marks of the menu; and the modal dialog that asks for a medium.   *)
(* Every step of the grid is one of HMultiView, every change of the window's   *)
(* size a Resize of it.                                                        *)
(*                                                                             *)
(* The bars other than the menu bar, which only their own entry in the menu    *)
(* shows and hides, and the status bar's message are left out.                 *)
EXTENDS HMultiView

CONSTANTS
    Rects, \* where the main window may be when it is not in full screen
    Null   \* QRect()

ASSUME RectsAssumption == Null \notin Rects

VARIABLES
    window_state,    \* Qt's window state, of which MainWindow::window_state is a copy
    rect,            \* where the main window is when it is not in full screen
    rcOld,           \* the static variable of fullscreen
    menubar,         \* the menu bar is not hidden
    shown,           \* the main window is not hidden
    mv_window,       \* the grid is a window
    grabbed,         \* the main window gets every key
    actMenubar, actFullscreen, actMvFullscreen, \* the check marks
    dlg              \* HOpenMediaDlg is open

place == <<window_state, rect, rcOld>>
marks == <<actMenubar, actFullscreen, actMvFullscreen>>
main == <<place, menubar, shown, mv_window, grabbed, marks, dlg>>
mainVars == <<main, vars>>

WindowStates == {"NORMAL", "MINIMIZED", "MAXIMIZED", "FULLSCREEN"}

\* initMenu, and main, which shows the window as the configuration says.
MainInit ==
    /\ Init
    /\ window_state \in WindowStates
    /\ rect \in Rects
    /\ rcOld = Null
    /\ menubar \in BOOLEAN
    /\ actMenubar = menubar
    /\ actFullscreen = FALSE
    /\ mv_window \in BOOLEAN
    /\ shown = ~mv_window
    /\ grabbed = mv_window
    /\ actMvFullscreen = mv_window
    /\ dlg = FALSE

-------------------------------------------------------------------------------
(* Keys and the menu                                                           *)

\* keyPressEvent runs: a key reaches the main window.
GetsKeys ==
    IF shown THEN window_state # "MINIMIZED" /\ (dlg => grabbed) ELSE grabbed

\* An entry of the menu or of a tool bar can be chosen.
AtMenu == shown /\ window_state # "MINIMIZED" /\ ~dlg

\* The menu bar counts as visible in a visible window only.
IsVisible == menubar /\ shown

\* (mutant) the geometry is read after the window is in full screen.
Fullscreen_TooLate ==
    /\ IF window_state = "FULLSCREEN"
         THEN /\ window_state' = "NORMAL"
              /\ rect' = rcOld
              /\ UNCHANGED rcOld
         ELSE /\ window_state' = "FULLSCREEN"
              /\ rcOld' = Null
              /\ UNCHANGED rect
    /\ menubar' = (window_state = "FULLSCREEN")
    /\ actFullscreen' = (window_state' = "FULLSCREEN")
    /\ actMenubar' = (menubar' /\ shown)

\* fullscreen
Fullscreen ==
    /\ IF window_state = "FULLSCREEN"
         THEN /\ window_state' = "NORMAL"
              /\ rect' = rcOld
              /\ UNCHANGED rcOld
         ELSE /\ window_state' = "FULLSCREEN"
              /\ rcOld' = rect
              /\ UNCHANGED rect
    /\ menubar' = (window_state = "FULLSCREEN")
    /\ actFullscreen' = (window_state' = "FULLSCREEN")
    /\ actMenubar' = (menubar' /\ shown)

\* F11, Esc or the menu.
ToggleFullscreen ==
    /\ ~mv_window
    /\ GetsKeys \/ AtMenu
    /\ Fullscreen
    /\ Resize
    /\ UNCHANGED <<shown, mv_window, grabbed, actMvFullscreen, dlg>>

\* (mutant) the keyboard is grabbed only on the way back.
MvFullscreen_GrabsLate ==
    /\ mv_window' = ~mv_window
    /\ shown' = mv_window
    /\ grabbed' = (grabbed \/ mv_window)
    /\ actMvFullscreen' = ~mv_window

\* mv_fullscreen; nobody releases the keyboard again.
MvFullscreen ==
    /\ mv_window' = ~mv_window
    /\ shown' = mv_window
    /\ grabbed' = TRUE
    /\ actMvFullscreen' = ~mv_window

\* F12 or the menu; Esc too while the grid is a window.
ToggleMvFullscreen ==
    /\ GetsKeys \/ AtMenu
    /\ MvFullscreen
    /\ Resize
    /\ UNCHANGED <<place, menubar, actMenubar, actFullscreen, dlg>>

\* F10, which shows or hides the menu bar.
ToggleMenubar ==
    /\ ~mv_window
    /\ GetsKeys
    /\ menubar' = ~IsVisible
    /\ actMenubar' = (menubar' /\ shown)
    /\ Resize
    /\ UNCHANGED <<place, shown, mv_window, grabbed, actFullscreen, actMvFullscreen, dlg>>

\* The menu's entry for the menu bar, which Qt checks or unchecks before.
CheckMenubar ==
    /\ AtMenu
    /\ actMenubar' = ~actMenubar
    /\ menubar' = actMenubar'
    /\ Resize
    /\ UNCHANGED <<place, shown, mv_window, grabbed, actFullscreen, actMvFullscreen, dlg>>

-------------------------------------------------------------------------------
(* The rest                                                                    *)

\* The user moves, minimizes, maximizes or restores the window; changeEvent.
ChangeWindow ==
    /\ shown /\ ~dlg
    /\ window_state # "FULLSCREEN"
    /\ window_state' \in WindowStates \ {"FULLSCREEN"}
    /\ rect' \in Rects
    /\ Resize
    /\ UNCHANGED <<rcOld, menubar, shown, mv_window, grabbed, marks, dlg>>

\* openMediaDlg, until the dialog is answered; what is played is a matter of the cells.
OpenMediaDlg ==
    /\ AtMenu
    /\ dlg' = TRUE
    /\ UNCHANGED <<place, menubar, shown, mv_window, grabbed, marks, vars>>

CloseMediaDlg ==
    /\ dlg
    /\ dlg' = FALSE
    /\ UNCHANGED <<place, menubar, shown, mv_window, grabbed, marks, vars>>

\* onMVStyleSelected
MVStyleSelected(t) ==
    /\ AtMenu
    /\ SetLayout(t)
    /\ UNCHANGED main

\* The mouse in the grid, which a modal dialog keeps out.
Mouse ==
    /\ ~dlg
    /\ \/ \E p \in Points : MousePress(p) \/ MouseRelease(p)
       \/ MouseMove
       \/ MouseDoubleClick
    /\ UNCHANGED main

MainNext ==
    \/ ToggleFullscreen \/ ToggleMvFullscreen \/ ToggleMenubar \/ CheckMenubar
    \/ ChangeWindow
    \/ OpenMediaDlg \/ CloseMediaDlg
    \/ \E t \in Layouts : MVStyleSelected(t)
    \/ Mouse

MainSpec == MainInit /\ [][MainNext]_mainVars

-------------------------------------------------------------------------------
(* Properties                                                                  *)

\* The user is never without a window or without a way out: the main window is hidden
\* exactly while the grid is a window, and the keys F12 and Esc, of which the grid knows
\* nothing, reach the main window then, through any mixture of the two full screens,
\* dialogs and the state in which the program started.
NoTrap ==
    /\ shown = ~mv_window
    /\ mv_window => GetsKeys

\* The check marks of the menu agree with what is shown; and full screen that has its mark
\* (full screen in which the program started has none) can be left to where the window was.
MarksAgree ==
    /\ shown => actMenubar = IsVisible
    /\ actMvFullscreen = mv_window
    /\ actFullscreen => window_state = "FULLSCREEN" /\ rcOld = rect
===============================================================================
