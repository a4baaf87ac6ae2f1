\* Two customers, one variant with a single unit, two requests and a sweep;
\* payments may land at any time and an admin may ship. Two orders, and a third
\* that the coupon, good for one use, may be spent on.
CONSTANTS
    Order = {o1, o2, o3}
    Variant = {v1}
    Customer = {c1, c2}
    Process = {p1, p2}
    Sweeper = {s1}
    Carts <- UnitCarts
    InitialStock <- OneOfEach
    MaxTotalUsage = 1
    MaxUsagePerUser = 1
    AdminStatus = {"SHIPPED"}
    Adjustment = {}
    Recount = {}
    MaxReopened = 1
    MaxSupplied = 1
    NoOrder = NoOrder
    NoCustomer = NoCustomer
    NoVariant = NoVariant
SPECIFICATION OrdersSpec
SYMMETRY Symmetry
CONSTRAINT ThirdOrderJoins
INVARIANTS OrdersSound CouponOverrun ReleaseLedger
PROPERTIES PlacedOnce SweepSparesPaid Lifecycle
