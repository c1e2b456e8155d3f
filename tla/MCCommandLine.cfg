CONSTANTS
    Processes = {p1, p2}
    Parts = 2
    Texts <- MCTexts
    Statements <- MCStatements
    Inputs <- MCInputs
SPECIFICATION Spec
INVARIANTS TypeOK FailureHasCause GarbledOnlyByOverlap AnswersInOrder
PROPERTIES SettledForGood SettledStartsLoad CommandsEnd
CHECK_DEADLOCK FALSE
