SPECIFICATION FairSpec
CONSTANTS
    Doc = {"main", "inc"}
    NoMain = "none"
    Mains = {"none", "main"}
    Texts <- MCTexts
    Removable = {"main", "inc"}
    MaxOpens = 2
INVARIANTS
    RenameEditsTheName
    UsesAccounted
    OpenedIsLinked
    AddedIsLinked
    ScopeIsAround
    HighlightsAreTheUses
PROPERTIES
    ResolutionEnds
CHECK_DEADLOCK FALSE
