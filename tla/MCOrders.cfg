CONSTANTS
    o1 = o1
    o2 = o2
    d1 = d1
    d2 = d2
    d3 = d3
    None = None
    Orders = {o1}
    Items <- ThreeInOne
    Predicted = 1
    Reports <- SilentOrDouble
    Capacity = 0
    Agents = {a1}
    Sweepers = {a1}
    Desk = {a1, p1}
    Returnable = {o1}
    Mortal = {}
SPECIFICATION Spec
INVARIANTS PaperTakenOnce OrdersFollowTheirPrints
\* Every order may end refunded with its prints finished: nothing is left to do.
CHECK_DEADLOCK FALSE
