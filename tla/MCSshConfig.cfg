\* Files of up to three lines, six targets, four lists of options.
SPECIFICATION Spec
CONSTANTS
    Chars <- Characters
    Files <- SmallFiles
    Targets <- SomeTargets
    Options <- SomeOptions
    UserEnv <- Someone
INVARIANTS
    MatchesAsDocumented
    FirstMatchWins
    MasterDialsSameDestination
CHECK_DEADLOCK FALSE
