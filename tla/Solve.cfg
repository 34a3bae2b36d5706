CONSTANTS
    InitialCapacity = 3
    MaxAnswer = 5
    Width = 2
    Depth = 3
    Var = {x, y}
    x = x
    y = y
    Requests <- MCRequests
    Answers <- MCAnswers
    Texts <- MCTexts
SPECIFICATION Spec
INVARIANTS
    SolverIsAskedAboutTree
    AnswerArrives
    NothingLeaks
    MemoryIsLive
    WritesFit
    BuildsWhatWasWritten
CHECK_DEADLOCK FALSE
