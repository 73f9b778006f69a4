SPECIFICATION MCSpec
CONSTANTS
    main = main
    lib = lib
    std = std
    u = u
    v = v
    none = none
    Locators <- AllLocators
    Urls <- Fetched
    Nowhere = none
    Worlds <- AllWorlds
    MaxDepth = 9
    RestProgram <- SmallProgram
    Off = Off
    Groups <- TypedGroups
    Nodes <- TypedNodes
    MaxBound = 8
    Zero = 4
    Programs <- TypedPrograms
    Precisions <- TypedPrecisions
    Bounds <- TypedBounds
    Qualifies <- TypedQualifiers
CHECK_DEADLOCK FALSE
INVARIANTS ImportsAreExpandedOnce FirstMatchWithItsBindings DomainsAreTheLeast TypesAreSolved
PROPERTIES IsTheFullIteration PassesWiden
