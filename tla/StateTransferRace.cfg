SPECIFICATION Spec
CONSTANTS
    Updaters = {u1}
    Tasks = {t1}
    Serializers = {1}
    Resumers = {2}
    MaxInst = 2
    NoInst = NoInst
    NoTask = NoTask
    Stale = Stale
    Garbage = Garbage
INVARIANT SerializedAccess
