\* Two workers, requests of all kinds, edits between them and a change of the settings.
SPECIFICATION Spec
CONSTANTS
    w1 = w1
    w2 = w2
    hover = hover
    preprocessed = preprocessed
    unknown = unknown
    before = before
    after = after
    invalid = invalid
    defaults = defaults
    error = error
    DefaultOptions = defaults
    Refused = error
    Worker = {w1, w2}
    Request = {hover, preprocessed, unknown}
    Feature = {hover}
    Unanswered = {preprocessed}
    Settings = {before, invalid}
    Valid = {before}
    Refuses = TRUE
    PullConfiguration = TRUE
    MaxEdits = 2
    MaxChanges = 1
INVARIANTS TypeOK ResponsesAwaited ConfigurationSettles
PROPERTIES KeepsPromise
SYMMETRY Workers
CHECK_DEADLOCK FALSE
