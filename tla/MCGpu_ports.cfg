SPECIFICATION ProgramSpec
CONSTANTS
    Gp0Words <- AllWords
    Gp0Params <- AllParams
    Gp1Words <- PortSettings
    VERTEX_BUFFER_LEN = 7
INVARIANTS
    TypeOK
    CommandFits
    StatusIsCurrent
    WholeTriangles
PROPERTIES
    RunsOnItsWords
    ImageIsExact
    SoftResetForgets
    VerticesKept
CHECK_DEADLOCK FALSE
