CONSTANTS
    Rows <- MCRows
    Boilerplate <- MCBoilerplate
    SearchLimit = 2
    ScanLimit = 2
    FilterLists <- MCFilterLists
    FusionK = 60
    LexicalOrder <- MCLexicalOrder
    Scores = {0, 1, 2}
    Tops = {0, 1, 2}
SPECIFICATION SpecRanked
INVARIANT ExclusionHolds
