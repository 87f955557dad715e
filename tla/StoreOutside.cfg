\* The main file is in no scanned directory.
SPECIFICATION DiskSpec
CONSTANTS
    scripting = scripting
    include = include
    inc = inc
    sub = sub
    other = other
    none = none
    nomain = nomain
    Dir <- MCDir
    NoDir = none
    IncludeDir <- MCIncludeDir
    Below <- MCBelow
    Covers <- MCBelow
    Name <- MCName
    SourcemodName = "sourcemod.inc"
    PluginName = {"p.sp"}
    File <- OutsideFile
    Mentions <- MCMentions
    Text <- MCText
    EmptyText = ""
    Directives <- MCDirectives
    PluginText = {"plugin"}
    NoMain = nomain
    WorkspaceDirs = {}
    InitialDisks <- OutsideDisks
    Configurations <- OutsideConfigurations
    OtherFiles = {inc}
    TextsOf <- OutsideTexts
    PullConfiguration = TRUE
    MaxEvents = 3
    MaxMissed = 0
INVARIANTS ReparseNeverFails
