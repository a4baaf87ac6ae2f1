\* Two orders, a Stripe and a PayPal attempt that may pay either or both race
\* for the same one; the provider takes the wrong amount for one of the sessions.
CONSTANTS
    Order = {o1, o2}
    Attempt = {a1, a2}
    Stripe = {a1}
    Session = {s1, s2}
    Mispaid = {s1}
    Process = {p1, p2}
    MaxFaults = 0
    NoOrder = NoOrder
    NoAttempt = NoAttempt
    NoSession = NoSession
SPECIFICATION PaymentsSpec
SYMMETRY HandlerSymmetry
CHECK_DEADLOCK FALSE
  
PROPERTIES SettledStays OwnPaymentStands
