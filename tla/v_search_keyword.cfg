CONSTANTS
    Listing = {1, 2, 3}
    Price = {1, 2}
    Limit = 1
    MaxEdits = 0
SPECIFICATION Spec
INVARIANTS
    ShownMatchesKeyword
CHECK_DEADLOCK FALSE
