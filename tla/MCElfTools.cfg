CONSTANTS
    Files <- MCFiles
    Values <- MCValues
    Unknown = Unknown
    DebugNames <- MCDebugNames
    LinkTarget <- MCLinkTarget
    InfoTarget <- MCInfoTarget
SPECIFICATION Spec
INVARIANT FileIsSound
INVARIANT LastSetAnswers
PROPERTY StripKeepsTheRest
PROPERTY StripAgainChangesNothing
