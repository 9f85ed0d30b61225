SPECIFICATION FairSpec
CONSTANTS
    MaxAttempts = 4
    MaxRounds = 15
    Requests = {2, 3, 6}
    TemplateDisks = {1, 3, 4, 5, 6, 8, 11}
    Minima = {0, 3}
    Parts = 2
    Unknown = Unknown
INVARIANTS TypeOK RowHasRealSize
PROPERTIES SizeKept KeepsPromise JobEnds
