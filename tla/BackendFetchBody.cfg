SPECIFICATION FairSpec
CONSTANTS
    Segments = {0, 1, 2}
    MaxSegments = 2
    MaxContent = 4
    NumBuffers = 3
    Windows = {1, 2, 3}
    MaxRetries = 1
INVARIANTS  BodyInOrder
PROPERTIES ImplementsBodyStream FetchEnds
CHECK_DEADLOCK FALSE
