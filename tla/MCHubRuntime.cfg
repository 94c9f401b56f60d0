\* Cancellation, Close, a crash and a store failure around two runs that may fall
\* back or resume.
CONSTANTS
    Scenes = {"control"}
    Session = {s1}
    r1 = r1
    r2 = r2
    r3 = r3
    Route = {r1, r2}
    NoRoute = NoRoute
    Native = {n1}
    OnlyNative = n1
    NoNative = NoNative
    Tool = {t1}
    NoTool = NoTool
    MaxRevision = 1
    MaxBranch = 2
    HandoffLimit = 1
    MaxTurn = 1
    MaxAttempt = 2
    Registered = {r1, r2}
    Capable = {r1}
    Resumable = {r1, r2}
    ToolControlled = {r1}
    WaitCapable = {r1}
    Caller = {c1}
    MaxActive = 1
    MaxTries = 8
    MaxRun = 2
    MaxFault = 1
SPECIFICATION MCFairSpec
INVARIANTS
    OneOwner
    CallsHitTheirRuns
PROPERTIES
    RunsEnd
CHECK_DEADLOCK FALSE
