SPECIFICATION Spec
CONSTANTS
    Requests = {r1, r2}
    Promotions = {p1}
    MaxTurns = 4
    None = None
    Leaving = {}
    SeedFails = {}
    Overlong = {}
PROPERTY LeavesOnlyWhenAsked
CHECK_DEADLOCK FALSE
