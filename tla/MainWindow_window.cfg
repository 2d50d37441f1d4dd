SPECIFICATION MainSpec
CONSTANTS
    Layouts <- MCLayouts
    Points <- MCPoints
    NoPoint = NoPoint
    MaxNum = 2
    Rects = {here, there}
    Null = Null
SYMMETRY MCSymmetry
INVARIANTS
    NoTrap
    MarksAgree
