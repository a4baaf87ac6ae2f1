\* One request, one admin; the answer to a refund is lost and the refund retried.
CONSTANTS
    Item = {i1}
    Line <- TwoUnits
    Money <- TwoUnitMoney
    Captured = 11
    Request = {r1}
    Refund = {f1, f2}
    Process = {p1}
    Asked <- OneOfEach
    Deduction = {0}
    Goodwill = {}
    MaxFaults = 1
    GoOn = FALSE
    NoRequest = NoRequest
    NoRefund = NoRefund
SPECIFICATION ReturnsSpec
CHECK_DEADLOCK FALSE
INVARIANTS RetryRefundsOnce
