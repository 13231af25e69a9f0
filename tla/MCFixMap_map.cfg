\* 5 keys, 2 values, 4 entries
SPECIFICATION Spec
CONSTANTS
    Keys <- FiveKeys
    Values <- TwoValues
    Capacity = 4
    None = None
INVARIANTS TypeOK KeysAscending SearchFinds
PROPERTIES ImplementsMap
CHECK_DEADLOCK FALSE
