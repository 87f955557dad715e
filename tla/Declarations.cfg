SPECIFICATION Spec
CONSTANT
    Texts <- GrammaticalTexts
    Label <- EnumLabel
INVARIANTS
    DocIsAdjacent
    CommentsDocumentOnce
    DeprecationIsAbove
    EveryItemIsDeclared
CHECK_DEADLOCK FALSE
