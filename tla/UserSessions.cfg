SPECIFICATION Spec
CONSTANTS
    r1 = r1  r2 = r2  web = web  app = app  t1 = t1  t2 = t2  p1 = p1
    Requests = {r1, r2}
    Clients = {web, app}
    Web = web
    Tokens = {t1, t2}
    Chosen = {p1}
    NoPassword = NoPassword
    Initial = Initial
    NoToken = NoToken
    MaxFaults = 1
SYMMETRY Interchangeable
INVARIANT EndedSessionsStayEnded
PROPERTIES LoggedOutIsRefused ChosenPasswordStays
