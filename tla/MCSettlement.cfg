CONSTANTS
    u1 = u1
    None = None
    Users = {u1}
    Orders = {o1}
    Buyer <- MCBuyer
    Total <- MCTotal
    TopUps = {2}
    Owners = {}
    Sessions = {s1, s2}
    MaxPayments = 3
SPECIFICATION Spec
SYMMETRY Symmetry
INVARIANTS MoneyBuysPrints TopUpsCreditedWithCapture WalletOrdersBoughtOnce
