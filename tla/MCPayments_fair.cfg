\* One order, one PayPal attempt, two handlers; a crash, a failed call or a lost
\* answer at any step, under the fairness of the handlers and the sweep.
CONSTANTS
    Order = {o1}
    Attempt = {a1}
    Stripe = {}
    Session = {s1, s2}
    Mispaid = {}
    Process = {p1, p2}
    MaxFaults = 1
    NoOrder = NoOrder
    NoAttempt = NoAttempt
    NoSession = NoSession
SPECIFICATION FairSpec
CHECK_DEADLOCK FALSE
PROPERTIES ReconciliationSettles CapturedIsRecorded
