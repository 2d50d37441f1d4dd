CONSTANTS
    Layouts <- MCLayouts
    Points <- MCPoints
    NoPoint = NoPoint
    MaxNum = 5
SPECIFICATION Spec
INVARIANTS
    TypeOK
    Tiled
    InPlace
    StretchUndone
