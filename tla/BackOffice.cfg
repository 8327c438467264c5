SPECIFICATION BackOfficeSpec
CONSTANTS
    Deliveries = {d1}
    Senders = {s1, s2}
    MaxAttempts = 4
    MaxFailures = 2
    MaxChanges = 1
    Emails = {e1, e2}
    Mailers = {m1, m2}
    MaxTries = 3
    MaxDeaths = 1
    Customers = {k1, k2}
    Reviews = {v1, v2}
    MaxSuspensions = 1
    Offices = {o1, o2}
    OrgOffices = {o1}
    BudgetPasses = {p1, p2}
    MaxBudgetMoves = 1
    MaxLaunches = 1
    MaxBudgetDeaths = 1
    Groups = {g1, g2, g3}
    Late = {g3}
    RollupAge = 1
    DeleteAge = 3
    MaxMissed = 1
    LastDay = 6
    Regions = {r1}
    BasePrice = 55
    Ceiling = 200
    Rentals = {w1}
    MaxTarget = 3
    MaxStock = 3
INVARIANTS
    BackOfficeTypeOK
    DeliveredWasAccepted
    DecisionIsTold
    DeletedWasRolledUp
PROPERTIES
    DeliverySettles
    EmailSettles
    OverBudgetStops
    PriceReadIsKept
CHECK_DEADLOCK FALSE
