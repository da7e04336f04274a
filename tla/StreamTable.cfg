SPECIFICATION Spec
CONSTANTS
    Ids <- MCIds
    Size = 4
    MaxStreams = 3
    Empty = Empty
    Tomb = Tomb
INVARIANTS
    TypeOK
    EveryStreamFound
    ActiveIsCount
    NeverOutOfSlots
PROPERTY
    MapSpec
