CONSTANTS
    Browsers = {b1}
    Sessions = {s1, s2}
    None = None
    MaxTokens = 4
    MaxEvictions = 1
SPECIFICATION Spec
SYMMETRY Symmetry
INVARIANTS EvictedSessionsStayOut
PROPERTY NobodyIsSignedOutByChance
\* Past the bounds nothing more is asked.
CHECK_DEADLOCK FALSE
