\* One PayPal attempt; the provider takes the wrong amount.
CONSTANTS
    Order = {o1}
    Attempt = {a1}
    Stripe = {}
    Session = {s1}
    Mispaid = {s1}
    Process = {p1, p2}
    MaxFaults = 0
    NoOrder = NoOrder
    NoAttempt = NoAttempt
    NoSession = NoSession
SPECIFICATION PaymentsSpec
CHECK_DEADLOCK FALSE
INVARIANTS PaidInFull
