SPECIFICATION Spec
CONSTANTS
    HdrFirst = 1
    FieldsMax = 4
    Asserts = FALSE
    MaxSlot = 5
CHECK_DEADLOCK FALSE
INVARIANTS TypeOK ProtoKept OrderKept UnsetReExact
PROPERTIES ForeachOnlyMarked ForeachMeetsAssertions
