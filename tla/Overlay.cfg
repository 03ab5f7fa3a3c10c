SPECIFICATION Spec
CONSTANTS
    IndexLimit = 24
    Faces <- EachFace
    Title <- OneLetter
    Texts <- Names
    Paths <- EachPath
    MaxShapes = 1
    VertexSlack = 2
    IndexSlack = 4
    MaxFailures = 1
    MaxLost = 2
INVARIANTS BuffersLargeEnough CellsApart
PROPERTIES DrawnAsAsked
