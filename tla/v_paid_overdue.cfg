CONSTANTS
    FirstDay <- Calendar
    DueDays = {1, 15, 28, 31}
    Starts = {1, 12, 29}
    End = 80
    MaxMissed = 1
SPECIFICATION Spec
PROPERTIES
    PaidRentStands
CHECK_DEADLOCK FALSE
