CONSTANTS
    Durations = {1}
    Prices = {3}
    Percents = {0}
    TrialDays = {1}
    Month = 1
    Grace = 1
    Sessions = {s1, s2}
    None = None
    Horizon = 3
    MaxRows = 3
    MaxEdits = 1
    Unset = Unset
    MAX_COPIES = 3
    FeeCap = 200
    Months = {1}
    PlanEdits <- MCPlanEdits
    Rates = {2, 3, 5}
    Discounts = {0, 50, 150}
    Defaults <- MCDefaults
    Baskets <- MCBaskets
    Desks = {s1, s2}
    MaxChanges = 2
    Kiosks = {k1, k2}
    Amounts = {2}
    DayLength = 2
    ZoneShift = 1
    LastInstant = 3
    MaxTakings = 2
SPECIFICATION MCSpec
SYMMETRY Symmetry
INVARIANTS OnlyPaidTermsRun PricesAreFairUnlessCrossed 
PROPERTIES TermsStandUnlessCrossed PromisedRatesStand BooksStand
\* Behaviours are followed to the last day and change, or until two requests cross.
CHECK_DEADLOCK FALSE
