CONSTANTS
    Queries <- MCQueries
    Norm <- MCNorm
    Embeddings <- MCEmbeddings
    Dim <- MCDim
    Dot <- MCDot
    Threshold = 95
    Capacity = 2
    Rows <- MCRows
    Boilerplate <- MCBoilerplate
    SearchLimit = 2
    ScanLimit = 1
    Requests = {r1, r2}
    Raw <- MCRaw
    Parsed <- MCParsed
    IntentWords <- MCIntentWords
    Sources <- MCSources
    Quotes <- MCQuotes
    HasReranker = TRUE
    RerankTop = 1
SPECIFICATION Spec
INVARIANT AbsenceProven
