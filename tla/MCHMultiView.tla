----------------------------- MODULE MCHMultiView -----------------------------
(* HMultiView with the three smallest layouts of the menu.  Each layout is at  *)
(* most 2 x 2, so that the four quarters of the area stand for its points.     *)
EXTENDS HMultiView

MCLayouts == {[row |-> 1, col |-> 1], [row |-> 1, col |-> 2], [row |-> 2, col |-> 2]}

\* The cell of table t around the quarter in row y and column x (0 or 1).
CellAround(t, x, y) == ((y * t.row) \div 2) * t.col + ((x * t.col) \div 2) + 1

MCPoints == {[t \in MCLayouts |-> CellAround(t, x, y)] : x, y \in 0 .. 1}
===============================================================================
