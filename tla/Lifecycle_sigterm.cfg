SPECIFICATION Spec
CONSTANTS
    Launches <- MCLaunches
    Work = {"request"}
    LaneOf <- MCLaneOf
    MaxRestarts = 0
CHECK_DEADLOCK FALSE
PROPERTIES
    TerminateDrains
