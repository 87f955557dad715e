\* One worker that pulls the configuration and answers requests, a shutdown at any time, every thread fair.
SPECIFICATION FairSpec
CONSTANTS
    w1 = w1
    w2 = w2
    hover = hover
    preprocessed = preprocessed
    unknown = unknown
    before = before
    after = after
    invalid = invalid
    defaults = defaults
    error = error
    DefaultOptions = defaults
    Refused = error
    Worker = {w1}
    Request = {hover}
    Feature = {hover}
    Unanswered = {}
    Settings = {before, after, invalid}
    Valid = {before, after}
    Refuses = FALSE
    PullConfiguration = TRUE
    MaxEdits = 1
    MaxChanges = 2
PROPERTIES FeaturesAnswered StopsUnlessPulling
CHECK_DEADLOCK FALSE
