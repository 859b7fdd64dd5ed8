CONSTANTS
    MaxChanges = 4
    MaxRestarts = 2
SPECIFICATION ActivitySpec
PROPERTIES
    RetainsState
CHECK_DEADLOCK FALSE
