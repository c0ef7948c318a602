SPECIFICATION Spec
CONSTANTS
    x = x
    b = b
    c = c
    Task = {x, b, c}
    Gpu = {0}
    Loop = Loop
    Now = Now
    Immediate = {Now}
    Wants <- Wants_all
    Budget <- Budget_bc
    Reserve <- Reserve_b
    Memory = 3
    Headroom = 1
    Usage = {0, 2}
    RequiredChecks = 2
    MaxEvents = 3
INVARIANTS
    PlannedTasksStayQueued
    NoHelperIsForgotten
PROPERTIES
    FreshLaunchesHaveRoom
    NoGpuIsLeftIdle
    DueEntriesAreApplied
CHECK_DEADLOCK FALSE
