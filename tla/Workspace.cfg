SPECIFICATION FairSpec
CONSTANTS
    ReadBuffer = 3
    MaxStale = 2
INVARIANTS
    FilterTaskHasData
    RowsMatchViews
    LabelIsTrue
PROPERTIES
    StopIsAnswered
