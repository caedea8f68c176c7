SPECIFICATION Spec
CONSTANTS
    Slots = {s1, s2}
    MaxOrders = 2
    Overlapping <- MCOverlapping
    AfterLoss = FALSE
    Opened = {"card", "other"}
SYMMETRY SlotSymmetry
INVARIANTS
    TypeOK
    OldHistoryIsReplaced
    StatusIsCurrent
PROPERTIES
    OnlyDeliveredRevoked
CHECK_DEADLOCK FALSE
