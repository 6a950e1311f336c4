SPECIFICATION Spec
CONSTANTS
    MaxOpen = 2
    MaxDrops = 1
INVARIANTS UsesOnlyLiving
CHECK_DEADLOCK FALSE
