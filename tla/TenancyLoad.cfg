SPECIFICATION Spec
CONSTANTS
    Names = {1, 2, 3}
    Test = 2
    Hash <- MCHash
    Limits = {1}
    Args = {x}
    MaxArgs = 1
    MaxLoads = 2
    Absent = Absent
INVARIANTS TypeOK
PROPERTIES TenantsStay OneTenantChanges EntersAsWritten
