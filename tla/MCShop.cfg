CONSTANTS
    Sessions = {s1, s2}
    MaxRows = 2
SPECIFICATION MCSpec
SYMMETRY Symmetry
INVARIANT JamsCloseAndTell
PROPERTY OpeningsAreEarnedUnlessRaced
