SPECIFICATION Spec
CONSTANTS
    Masters = {m1, m2}
    Tasks = {t1, t2}
    p1 = p1
    p2 = p2
    Patterns = {p1, p2}
    Hash <- MCHash
    MaxEntries = 2
    MaxRegex = 3
    NoRegex = NoRegex
    NoMaster = NoMaster
SYMMETRY Symmetry
INVARIANTS TypeOK RegexAlive FreedOnce OwnHandles InheritedHandles
