CONSTANTS
    Queries <- MCQueries
    Norm <- MCNorm
    Embeddings <- MCEmbeddings
    Dim <- MCDim
    Dot <- MCDot
    Threshold = 95
    Capacity = 2
    Threads = {t1, t2}
    Responses = {r1}
    Nothing = Nothing
    ClockSteps <- StrictClock
    MaxClock = 6
SPECIFICATION SpecLRU
INVARIANT LeastRecentlyUsed
