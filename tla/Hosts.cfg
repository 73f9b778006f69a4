SPECIFICATION HostsSpec
CONSTANTS
    Threads = {t1, t2}
    Shas = {s1, s2}
    Factories = {f1, f2}
    Instances = {i1, i2}
    NoFactory = Off
    MaxRefs = 2
    Inners = {n1, n2}
    Dsps = {d1, d2}
    Optimized = {s1}
    MaxHandles = 2
    NoInner = Off
    NoInstance = Off
    NoDsp = Off
    NoThread = Off
    typed = typed
    mute = mute
    textual = textual
    bare = bare
    badArgument = badArgument
    quoting = quoting
    Failures = {typed, mute, textual, bare}
    ArgumentErrors = {badArgument, quoting}
    Summaries = {"parse", "evaluation"}
    Summary <- SummaryOf
    Quotes <- QuotesOf
    Rendered = {typed, textual}
    Typed = {typed, mute}
    Users = {u1, u2}
    Leaves = {x, y}
    Labels = {gain}
    MaxNodes = 5
    MaxLives = 2
    MaxHeld = 2
    FreeingThreads = {t1, t2, t3}
    Addresses = {a1, a2, a3}
    Lengths = {2, 3}
    NVoices = 3
    Pitches = {60, 64}
    MaxNotes = 6
    RenderVoices = 2
    ArgLists <- NoteLists
    NeverOff = 99
    Frames = 5
    Block = 2
    Off = Off
SYMMETRY Symmetry
CHECK_DEADLOCK FALSE
INVARIANTS BindingsAreSafe HandlesKeepTheirTree ReleasedAsAllocated
PROPERTIES ErrorChannelTellsTheLastFailure VoicesFollowTheirNotes EventsAreSampleExact
