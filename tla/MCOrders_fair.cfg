\* Requests one at a time and a sweep under the fairness of its timer; the
\* merchant adjusts and recounts the stock between them.
CONSTANTS
    Order = {o1, o2}
    Variant = {v1}
    Customer = {c1}
    Process = {p1}
    Sweeper = {s1}
    Carts <- UnitCarts
    InitialStock <- OneOfEach
    MaxTotalUsage = 1
    MaxUsagePerUser = 1
    AdminStatus = {}
    Adjustment <- OneUpOrDown
    Recount = {2}
    MaxReopened = 1
    MaxSupplied = 2
    NoOrder = NoOrder
    NoCustomer = NoCustomer
    NoVariant = NoVariant
SPECIFICATION FairSpec
PROPERTIES OnlyStaleAdjustmentsDrift AwaitingOrderLeaves
