SPECIFICATION ProgramSpec
CONSTANTS
    Gp0Words <- AllWords
    Gp0Params <- AllParams
    Gp1Words <- ImageResets
    VERTEX_BUFFER_LEN = 7
INVARIANT
    ImageModeHasImage
CHECK_DEADLOCK FALSE
