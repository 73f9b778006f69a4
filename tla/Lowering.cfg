SPECIFICATION BackEndSpec
CONSTANTS
    Nodes <- EffectNodes
    Resources <- EffectResources
    Programs <- EffectPrograms
    Baselines <- EffectBaselines
    Ranks <- EffectRanks
    Nothing = Nothing
    Sigs <- GraphSignals
    GraphDomains = {d1, d2}
    Forests <- GraphForests
    Nil = Nil
    PlanNodes <- PlannedNodes
    SignalGraphs <- PlannedGraphs
    NoContext = Off
    ParentContext <- Parents
    PlanCopyDelay = 1
    Arities = {1, 2}
    DelayedReads <- ProgramReads
    MaxReads = 2
    CarrierCopyDelay = 4
    LastSample = 7
    BlockDomains = {"d1", "d2"}
    SampleLoop = "loop"
    Lines = {"top", "a", "b", "c"}
    MaxDelay = 2
    ClockedPrograms <- BlockPrograms
    MaxClock = 2
    MaxSamples = 5
    MaxCalls = 3
    Store = Store
    Ui = Ui
    w1 = w1
    w2 = w2
    c1 = c1
    c2 = c2
    y1 = y1
    y2 = y2
    xa = xa
    xb = xb
    d1 = d1
    d2 = d2
    Off = Off
CHECK_DEADLOCK FALSE
INVARIANTS EffectsAreOrdered GraphsOrderWhatIsNeeded PlanServesEveryRead CarriersReadThePast BlocksFireAsWritten FoldedTablesAreTheGenerators OptimizedCodeKeepsItsMeaning
