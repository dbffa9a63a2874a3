SPECIFICATION Spec
CONSTANTS
    Callers = {c1, c2, c3}
    MinInterval = 1
    RetryCount = 1
    Backoff = 1
    Candidates = 2
INVARIANT WindowsAndRequestsBounded
PROPERTIES SpacedFromKnownEnd EveryCallEnds
