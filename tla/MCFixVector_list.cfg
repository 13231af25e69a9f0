\* 4 items, 3 slots, splice of up to 8 items
SPECIFICATION Spec
CONSTANTS
    Items <- FourItems
    Capacity = 3
    SizeMod = 16
    MaxErased = 8
INVARIANTS TypeOK
PROPERTIES ImplementsList
