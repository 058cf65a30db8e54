CONSTANTS
    o1 = o1
    o2 = o2
    d1 = d1
    d2 = d2
    d3 = d3
    None = None
    Orders = {o1}
    Items <- OneInOne
    Predicted = 1
    Reports = {2}
    Capacity = 1
    Agents = {a1, a2}
    Sweepers = {w}
    Desk = {}
    Returnable = {o1}
    Mortal = {a1, a2}
SPECIFICATION FairSpec
INVARIANTS  HandedOutOnce
PROPERTY LostTasksAreSettled
\* Every order may end refunded with its prints finished: nothing is left to do.
CHECK_DEADLOCK FALSE
