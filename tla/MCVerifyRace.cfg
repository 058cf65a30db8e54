CONSTANTS
    u1 = u1
    None = None
    Users = {u1}
    Orders = {o1}
    Buyer <- MCBuyer
    Total <- MCTotal
    TopUps = {}
    Owners = {}
    Sessions = {s1, s2}
    MaxPayments = 1
SPECIFICATION Spec
INVARIANT PrintsOnce
