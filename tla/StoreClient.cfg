\* Every message of the client and every configuration, on a plugin and two includes.
SPECIFICATION ClientSpec
CONSTANTS
    scripting = scripting
    include = include
    inc = inc
    sub = sub
    other = other
    none = none
    nomain = nomain
    Dir <- MCDir
    NoDir = none
    IncludeDir <- MCIncludeDir
    Below <- MCBelow
    Covers <- MCBelow
    Name <- MCName
    SourcemodName = "sourcemod.inc"
    PluginName = {"p.sp"}
    File <- ClientFile
    Mentions <- MCMentions
    Text <- MCText
    EmptyText = ""
    Directives <- MCDirectives
    PluginText = {"plugin"}
    NoMain = nomain
    WorkspaceDirs = {scripting}
    InitialDisks <- ClientDisks
    Configurations <- ClientConfigurations
    OtherFiles = {inc}
    TextsOf <- ClientTexts
    PullConfiguration = FALSE
    MaxEvents = 0
    MaxMissed = 0
INVARIANTS IncludesClosed IncludesAccounted ParsedClosed
PROPERTIES RelinkedWhenLoaded RescanKeepsTexts
