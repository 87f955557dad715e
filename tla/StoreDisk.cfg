\* The file system and its late events, on two files of the include directory.
SPECIFICATION DiskSpec
CONSTANTS
    scripting = scripting
    include = include
    inc = inc
    sub = sub
    other = other
    none = none
    nomain = nomain
    Dir <- MCDir
    NoDir = none
    IncludeDir <- MCIncludeDir
    Below <- MCBelow
    Covers <- MCBelow
    Name <- MCName
    SourcemodName = "sourcemod.inc"
    PluginName = {"p.sp"}
    File <- DiskFile
    Mentions <- MCMentions
    Text <- MCText
    EmptyText = ""
    Directives <- MCDirectives
    PluginText = {"plugin"}
    NoMain = nomain
    WorkspaceDirs = {}
    InitialDisks <- DiskDisks
    Configurations <- DiskConfigurations
    OtherFiles = {inc}
    TextsOf <- DiskTexts
    PullConfiguration = TRUE
    MaxEvents = 4
    MaxMissed = 2
INVARIANTS StoreFollowsDisk
