SPECIFICATION FairSpec
CONSTANTS
    Updaters = {u1}
    Tasks = {t1, t2}
    Serializers = {1}
    Resumers = {2}
    MaxInst = 2
    NoInst = NoInst
    NoTask = NoTask
    Stale = Stale
    Garbage = Garbage
INVARIANTS RemoteCallsExclusive TransferCarriesState HandlerIsCallers
PROPERTY LockReleased
CHECK_DEADLOCK FALSE
