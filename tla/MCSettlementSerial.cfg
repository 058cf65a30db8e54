CONSTANTS
    u1 = u1
    None = None
    Users = {u1}
    Orders = {o1}
    Buyer <- MCBuyer
    Total <- MCTotal
    TopUps = {1}
    Owners = {asha}
    Sessions = {s1}
    MaxPayments = 2
SPECIFICATION FairSpec
INVARIANTS PrintsOnce ExpiredOrdersBoughtNothing ArrivedMoneyStays
PROPERTY TopUpsAreCredited
