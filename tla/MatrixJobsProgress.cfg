\* One job and one invocation; a city of three places in chunks of two
\* origins, and the two counters of the walking mode.
SPECIFICATION Spec
CONSTANTS
    Modes = {"walking"}
    Counters = {"walking", "walkingMinutes"}
    MaxNodes = 3
    MaxOrigins = 2
    MaxJobs = 1
    Workers = {w1}
    Handlers = {h1}
    MaxFaults = 2
INVARIANT
    ProgressIsEarned
PROPERTIES
    ProgressLostOnlyByFailure
