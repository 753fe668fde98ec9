SPECIFICATION FairSpec
CONSTANTS
    Launches <- MCLaunches
    Work = {"request", "socket", "command"}
    LaneOf <- MCLaneOf
    MaxRestarts = 1
CHECK_DEADLOCK FALSE
INVARIANTS
    TypeOK
    SettingsByPrecedence
    
PROPERTIES
    InterruptSparesRequests
    LaneTasksAsAssumed
    StartupEnds
    ShutdownCompletes
