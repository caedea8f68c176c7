SPECIFICATION Spec
CONSTANTS
    PLATFORMS = {p1, p2}
    SLOWDOWN_AFFECTED_PLATFORM_COUNT = 1
    ConsecutiveFailLimit = 2
    Managed = FALSE
INVARIANTS
    TypeOK
    SuccessIsShown
PROPERTIES
    AffectedStay
    SlowdownTakesEffect
    SlowdownPasses
