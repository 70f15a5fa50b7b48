CONSTANTS
    None = None
    Root = 0
    MaxUnlinks = 1
    Inodes <- MCInodes
    Size <- MCSize
    Names <- MCNames
    Trees <- MCTrees
    Options <- MCOptions
SPECIFICATION Spec
INVARIANT TypeOK
INVARIANT TotalIsTheTree
INVARIANT MissesNothing
INVARIANT EachTotalIsItsOwn
INVARIANT PrintsWhatWasAsked
PROPERTY Terminates
CHECK_DEADLOCK FALSE
