CONSTANTS
    None = none
    Minute = 20
    Interval = 10
    Sleep = 1
    Hourly = {20, 50}
    Nightly = {70}
    LastTime = 100
SPECIFICATION Spec
CHECK_DEADLOCK FALSE
INVARIANTS
    OncePerSlot
    NoSlotMissed
