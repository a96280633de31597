SPECIFICATION Spec
CONSTANTS
    Updaters = {u1, u2}
    Tasks = {t1, t2}
    Binaries = {b1}
    Ops = {"file", "debug"}
    AppendArgs = {}
    MainArgs = {}
    Filename = "other"
    Reload = TRUE
    MaxInst = 3
    MaxArgs = 2
    NoInst = NoInst
    NoArg = NoArg
    Source = Source
    Empty = Empty
    Torn = Torn
SYMMETRY Symmetry
INVARIANTS ForkInstanceAlive LifetimeInv
PROPERTIES NoInstanceTwice ProgramKept ImplementsHotSwap
