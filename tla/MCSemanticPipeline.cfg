CONSTANTS
    Queries <- MCQueries
    Norm <- MCNorm
    Embeddings <- MCEmbeddings
    Dim <- MCDim
    Dot <- MCDot
    Threshold = 95
    Capacity = 2
    Rows <- MCRows
    Boilerplate <- MCBoilerplate
    SearchLimit = 2
    ScanLimit = 1
    Requests = {r1, r2, r3}
    Raw <- MCRaw
    Parsed <- MCParsed
    IntentWords <- MCIntentWords
    Sources <- MCSources
    Quotes <- MCQuotes
    HasReranker = FALSE
    RerankTop = 1
SYMMETRY Symmetry
SPECIFICATION Spec
INVARIANTS TypeOK Grounded NoDrift CachedWasReturned DuplicatesOverlapped AbsenceAfterScan
