CONSTANTS
    u1 = u1
    None = None
    Users = {u1}
    Sessions = {s1, s2}
    Causes <- MCCauses
    Requests <- CutoverInUse
    MaxCarries = 3
SPECIFICATION FairSpec
INVARIANT CarriesAreNumbered
PROPERTY RequestsEnd
