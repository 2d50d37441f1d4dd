----------------------------- MODULE MCMainWindow -----------------------------
(* MainWindow with the two smallest layouts of the menu, of which the left and *)
(* the right half of the area are the points, and places of the window that    *)
(* are alike.                                                                  *)
EXTENDS MainWindow, TLC

MCLayouts == {[row |-> 1, col |-> 1], [row |-> 1, col |-> 2]}

MCPoints == {[t \in MCLayouts |-> IF t.col = 1 THEN 1 ELSE x] : x \in 1 .. 2}

MCSymmetry == Permutations(Rects)
===============================================================================
