\* One request, whose refund may be retried, against refunds from the order
\* screen, disturbed or not; one answer may be lost, or one process killed.
CONSTANTS
    Item = {i1}
    Line <- TwoUnits
    Money <- TwoUnitMoney
    Captured = 11
    Request = {r1}
    Refund = {f1, f2}
    Process = {p1, p2}
    Asked <- OneOfEach
    Deduction = {0}
    Goodwill = {6}
    MaxFaults = 1
    GoOn = TRUE
    NoRequest = NoRequest
    NoRefund = NoRefund
SPECIFICATION ReturnsSpec
SYMMETRY Symmetry
CHECK_DEADLOCK FALSE
INVARIANTS CompletedInFull RefundsMatchProvider
PROPERTIES OverReservedByOverlap
