\* One line of two units, two requests for one or both of them, with and without
\* deductions. No handler starts after a disturbance.
CONSTANTS
    Item = {i1}
    Line <- TwoUnits
    Money <- TwoUnitMoney
    Captured = 11
    Request = {r1, r2}
    Refund = {f1, f2}
    Process = {p1, p2}
    Asked <- OneOrTwoOfEach
    Deduction = {0, 5}
    Goodwill = {}
    MaxFaults = 0
    GoOn = FALSE
    NoRequest = NoRequest
    NoRefund = NoRefund
SPECIFICATION ReturnsSpec
SYMMETRY Symmetry
CHECK_DEADLOCK FALSE
INVARIANTS ReturnsSound OrderStatusFollows
PROPERTIES ClosedStays
