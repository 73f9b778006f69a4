SPECIFICATION FairSpec
CONSTANTS
    Nodes = {1, 2, 3, 4}
    MaxDeps = 3
    Graphs <- MCGraphs
CHECK_DEADLOCK FALSE
INVARIANTS WalkIsSound
PROPERTIES KeepsContract Terminates
