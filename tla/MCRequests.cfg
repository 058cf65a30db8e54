CONSTANTS
    Sessions = {s1, s2}
    None = None
    MaxLinks = 2
    MaxRequests = 3
    CommandKinds = {agent}
    MaxCommands = 2
    Docs = {d1, d2}
    Shops = {k1}
    Mail = mail
    Works = {w1, w2}
    Accounts = {a1}
    Rules <- MCRules
    Ceiling <- MCCeiling
    ADDRESS_FANOUT = 2
    Workers = {v1, v2}
    NoWorker = None
    Interval = 3
SPECIFICATION MCSpec
INVARIANTS WorkOnceUnlessCrossed RunOnce FilesStandUnlessCrossed ToldOnceAnAlert  SweepsTakeTurns
PROPERTIES CommandsStandUnlessCrossed WorkComesRound
\* A behaviour ends once two requests have crossed, or at the bounds.
CHECK_DEADLOCK FALSE
