SPECIFICATION FairSpec
CONSTANTS
    Sizes <- SomeSizes
    MaxTasks = 2
    NUMBER = 2
INVARIANTS
    CountsExact
    BegunOnce
    NoEmptyFront
PROPERTIES
    TaskBegun
    DestructorEnds
CHECK_DEADLOCK FALSE
