SPECIFICATION Spec
CONSTANTS
    Tasks = {t1, t2}
    Programs = {p1, d1}
    DebugPrograms = {d1}
    Entries = {e1}
    Funcs = {f1}
    MaxMethods = 2
    MaxNest = 2
    Armed = {p1}
    Master = Master
    NoScript = NoScript
    NoFunc = NoFunc
INVARIANT MachinesSeparate
