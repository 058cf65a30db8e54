CONSTANTS
    p1 = p1
    p2 = p2
    all = all
    half = half
    other = other
    balance = balance
    None = None
    Payments = {p1, p2}
    Paid <- MCPaid
    Account <- MCAccount
    Keys = {all, half, balance, other}
    Asks <- MCAsks
    Sessions = {s1, s2}
    MaxReturned = 3
SPECIFICATION MCSpec
SYMMETRY Symmetry
INVARIANTS KeyMovesMoneyOnce BooksMatchMoney ClosedOrdersWereRefunded RefundsStayInsideUnlessRaced
\* Everything may be given back, and nothing left to do.
CHECK_DEADLOCK FALSE
