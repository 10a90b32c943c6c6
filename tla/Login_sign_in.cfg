\* Two browsers and two requests at a time; two logins, of which a day can
\* pass between any two steps.
CONSTANTS
    Handlers = {h1, h2}
    Browsers = {b1, b2}
    Subjects = {u1, u2}
    AllowedSubjects = {u1}
    States = {s1, s2}
    Sessions = {w1, w2}
    Tokens = {t1}
    Clients = {c1}
    Codes = {k1}
    StateTTL = 1
    SessionTTL = 1
    TokenTTL = 3
    ClientTTL = 1
    Day = 1
    TextTimestamps = TRUE
    MaxStatesOfBrowser = 1
    MaxStates = 1
    MaxClients = 1
    MaxTime = 2
    MaxFaults = 1
    MaxRequests = 4
    None = None
SPECIFICATION Spec
SYMMETRY Symmetry
INVARIANTS SignsInThroughItsOwnLogin CodeIsForWhatWasAsked LogoutIsComplete
CHECK_DEADLOCK FALSE
