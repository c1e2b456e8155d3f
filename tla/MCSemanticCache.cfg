CONSTANTS
    Queries <- MCQueries
    Norm <- MCNorm
    Embeddings <- MCEmbeddings
    Dim <- MCDim
    Dot <- MCDot
    Threshold = 95
    Capacity = 2
    Threads = {t1, t2}
    Responses = {r1, r2}
    Nothing = Nothing
    ClockSteps <- ClockMayRepeatOrGoBack
    MaxClock = 1
SYMMETRY Symmetry
SPECIFICATION Spec
INVARIANTS TypeOK PendingValid
PROPERTY ImplementsContract
