\* Two readable manifests, five assignments of kinds, one width too narrow and two that are not.
CONSTANTS
    NLines = 8
    Manifests <- MCManifests
    Assets = {"tall", "low"}
    Kinds <- MCKinds
    Cells <- MCCells
    Sizes <- MCSizes
    MIN_COLS = 4
    PRE_COLS = 4
    LRU_CAP = 1
    ROW_SLICE_LRU_CAP = 2
SPECIFICATION Spec
INVARIANTS NoLineLost ScreenShowsArticle ReaderInBounds
PROPERTIES PositionKept
CHECK_DEADLOCK FALSE
