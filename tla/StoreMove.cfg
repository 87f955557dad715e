\* Files and directories renamed, over others or not; no include is lost.
SPECIFICATION MoveSpec
CONSTANTS
    scripting = scripting
    include = include
    inc = inc
    sub = sub
    other = other
    none = none
    nomain = nomain
    Dir <- MCDir
    NoDir = none
    IncludeDir <- MCIncludeDir
    Below <- MCBelow
    Covers <- MCCovers
    Name <- MCName
    SourcemodName = "a.inc"
    PluginName = {"p.sp"}
    File <- MoveFile
    Mentions <- MCMentions
    Text <- MCText
    EmptyText = ""
    Directives <- MCDirectives
    PluginText = {"plugin"}
    NoMain = nomain
    WorkspaceDirs = {scripting}
    InitialDisks <- MoveDisks
    Configurations <- MoveConfigurations
    OtherFiles = {inc}
    TextsOf <- MoveTexts
    PullConfiguration = TRUE
    MaxEvents = 3
    MaxMissed = 0
INVARIANTS TypeOK IncludesAccounted
CHECK_DEADLOCK FALSE
