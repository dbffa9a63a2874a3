\* Two requests in every part; two users, two addresses and two codes of
\* two answers each; a challenge of three answers where the code has five;
\* two addresses of clients and an account at the limit of a store of two
\* counters, of which one goes when a third comes; two processes; two names
\* that are accounts or addresses of at most two users.
SPECIFICATION PartsSpec
CONSTANTS
    Users = {u1, u2}
    Emails = {e1, e2}
    Requests = {r1, r2}
    MaxTokens = 2
    MaxAttempts = 2
    Challenges = {c1}
    ChallengeMaxAttempts = 3
    Ips = {i1, i2}
    Logins = {a1}
    LoginMaxAttempts = 1
    Window = 2
    MaxKeys = 2
    GcInterval = 3
    Servers = {s1, s2}
    Ttl = 2
    Latency = 1
    Names = {"n1", "n2"}
    Profiles <- TwoProfiles
    MaxUsers = 2
SYMMETRY Interchangeable
INVARIANTS
    AppliedOnce
    SupersededIsUsed
    AttemptsBounded
    ChallengesAreSpent
    LimitsHold
    StaleEnds
    AccountsWhole
PROPERTY
    ChoiceStays
\* A challenge, once spent, is never drawn again: a behaviour ends.
CHECK_DEADLOCK FALSE
