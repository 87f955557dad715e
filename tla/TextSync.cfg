SPECIFICATION Spec
CONSTANTS
    DiskTexts <- SomeTexts
    Inserts <- SomeInserts
    NoText = NoText
    MaxLength = 3
    MaxChanges = 3
    MaxWrites = 1
INVARIANT TypeOK
INVARIANT PanicsOnlyAfterLosingTrack
INVARIANT PositionsAgree
PROPERTY MirrorsTheClient
CHECK_DEADLOCK FALSE
