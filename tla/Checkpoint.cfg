\* MCCheckpoint narrows the bounds to those of each of its two instances.
SPECIFICATION MCSpec
CONSTANTS
    p1 = p1
    p2 = p2
    f1 = f1
    f2 = f2
    Pieces <- MCPieces
    Files <- MCFiles
    Span <- MCSpan
    MaxSelections = 1
    MaxRejects = 1
    MaxFailures = 1
    MaxCrashes = 1
    MaxOpens = 2
    MaxVerifies = 1
    MaxDeletes = 1
CHECK_DEADLOCK FALSE
INVARIANTS
    TypeOK
    CheckpointIsDurable
    
    CleanIsPublished
    DeletedStaysDeleted
