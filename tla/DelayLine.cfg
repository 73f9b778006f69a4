SPECIFICATION Spec
CONSTANTS
    Delays = {1, 2, 3, 5}
    Values = {0, 1}
    Zero = 0
    None = None
    MaxCopyDelay = 3
    DelayLineThreshold = 5
    Half = 16
PROPERTIES ImplementsIdealDelay
