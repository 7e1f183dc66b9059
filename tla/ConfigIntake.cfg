\* An intake ends where the document does.
CONSTANTS
    Documents <- MCDocuments
    Suffixed <- MCSuffixed
    Values = {0, 1}
    Nothing = Nothing
SPECIFICATION IntakeSpec
INVARIANTS IntakeTypeOK AcceptedRuns OneMaster MigratesExactly
CHECK_DEADLOCK FALSE
