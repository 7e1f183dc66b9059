\* An else branch with an action the rule engine does not know.
CONSTANTS
    Documents <- MCDocuments
    Suffixed <- MCSuffixed
    Values = {0, 1}
    Nothing = Nothing
SPECIFICATION IntakeSpec
INVARIANT OnlyKnownActions
CHECK_DEADLOCK FALSE
