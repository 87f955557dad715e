SPECIFICATION EvaluatorFairSpec
CONSTANTS
    MacroTable <- MCMacroTable
    Conditions <- MCConditions
    Width = 4
INVARIANTS
    ValueOfExpression
    BalancedIsSafe
PROPERTIES
    EvaluateReturns
