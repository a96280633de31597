SPECIFICATION FairSpec
CONSTANTS
    Updaters = {u1}
    Tasks = {t1}
    Binaries = {b1, b2}
    Ops = {"update", "debug", "file"}
    AppendArgs = {a1}
    MainArgs = {a1}
    Filename = "plain"
    Reload = FALSE
    MaxInst = 2
    MaxArgs = 2
    NoInst = NoInst
    NoArg = NoArg
    Source = Source
    Empty = Empty
    Torn = Torn
INVARIANTS ArgvRestored StoredProgramIsRunning
PROPERTIES StoredWasInitialised ReplacedIsFreed
