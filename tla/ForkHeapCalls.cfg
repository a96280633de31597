SPECIFICATION Spec
CONSTANTS
    HeapAddress = 1
    ArenaBase = 3
    MaxHeap = 8
    Word = 14
    PostSize = 1
    Sizes = {0, 2, 3}
    Tags = {x, y}
    MaxChunks = 6
    MaxBlocks = 3
    Posted = Posted
    Junk = Junk
CONSTRAINT Room
INVARIANTS BlocksApart BlocksIntact FreeIsFound
