\* Two jobs, two overlapping invocations, one administrator request, one fault.
\* The recompute is kept small: a city of one place besides the point. No
\* symmetry, as one property is temporal.
SPECIFICATION LiveSpec
CONSTANTS
    Modes = {"transit"}
    Counters = {"transit"}
    MaxNodes = 1
    MaxOrigins = 1
    MaxJobs = 2
    Workers = {w1, w2}
    Handlers = {h1}
    MaxFaults = 1
INVARIANT
    WorkersHoldTheirJobs
PROPERTIES
    BoardSpec
    JobsFinish
