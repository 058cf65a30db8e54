CONSTANTS
    u1 = u1
    None = None
    Users = {u1}
    Sessions = {s1, s2, s3}
    Causes <- MCCauses
    Requests <- SpendingRequests
    MaxCarries = 0
SPECIFICATION Spec
SYMMETRY Symmetry
INVARIANTS LedgerExplainsBalance ReferenceMovesOnce NeverOverdrawn
PROPERTY ImplementsLedger
