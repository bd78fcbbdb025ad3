SPECIFICATION Spec
CONSTANTS
    Sizes <- SomeSizes
    MaxTasks = 2
    NUMBER = 2
INVARIANTS
    ShutdownFinishesTasks
CHECK_DEADLOCK FALSE
