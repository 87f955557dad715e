SPECIFICATION Spec
CONSTANTS
    Doc = {plugin, part}
    Main = plugin
    Deprecating = {}
    Run = {r1, r2}
    MaxReports <- ServerLags
    MaxResults = 1
    MaxHints = 1
SYMMETRY Runs
INVARIANTS TypeOK  DeletedStaysForgotten StatusSettles
