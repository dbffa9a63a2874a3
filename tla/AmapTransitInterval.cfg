SPECIFICATION Spec
CONSTANTS
    Callers = {c1, c2}
    MinInterval = 2
    RetryCount = 1
    Backoff = 1
    Candidates = 1
SYMMETRY Interchangeable
PROPERTIES MinIntervalKept
