SPECIFICATION FairSpec
CONSTANTS
    Tasks = {t1}
    Programs = {p1, d1}
    DebugPrograms = {d1}
    Entries = {e1}
    Funcs = {f1, f2}
    MaxMethods = 4
    MaxNest = 2
    Armed = {p1}
    Master = Master
    NoScript = NoScript
    NoFunc = NoFunc
INVARIANT CalledCtxLive
PROPERTIES ScriptKept FaultFailsMethod CallReturns
