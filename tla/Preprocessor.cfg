SPECIFICATION Spec
CONSTANTS
    Doc = {"main", "inc"}
    Name = {"A"}
    Sourcemod = "missing"
    Projects <- MCProjects
    Edits <- MCEdits
    MaxOpens = 2
INVARIANTS
    SelectedLinesSurvive
    LinesInSync
    ReadOnceAtATime
CHECK_DEADLOCK FALSE
