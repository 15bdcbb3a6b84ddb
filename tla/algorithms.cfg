SPECIFICATION QuerySpec
CONSTANTS
    Penalty = 50
    MaxInt = 1000
    CountRange = 4
    WordRange = 16
    MaxPositions = 2
    Docs <- MCDocs
    QueryWords <- MCQueryWords
    MaxTokens = 3
    MaxCandidates = 3
    maxTypo = 2
    Scores <- MCScores
    Words <- MCWords
    PositionLists <- MCPositionLists
    Urls <- MCUrls
    Occurrences <- MCOccurrences
    Texts <- MCTexts
    Matches <- MCMatches
    RobotsLines <- MCRobotsLines
    MaxLines = 5
INVARIANTS
    QueryAligned
    ReplacementBest
    DistanceExact
    ProximityRight
    FindRight
    
    TokensTile
    
