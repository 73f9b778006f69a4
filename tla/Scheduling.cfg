SPECIFICATION Spec
CONSTANTS
    Nodes = {1, 2, 3, 4}
    Foreign = 9
    Digraphs <- MCDigraphs
    StrategyNumbers = {0, 1, 2, 7}
    MaxLength = 6
    Candidates <- MCCandidates
CHECK_DEADLOCK FALSE
INVARIANTS StrategiesAreTheirDefinitions VerifierIsExact
PROPERTIES KeepsContract
