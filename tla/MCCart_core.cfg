SPECIFICATION CartSpec
CONSTANTS
    tile = tile
    grout = grout
    p1 = p1
    p2 = p2
    k1 = k1
    k2 = k2
    Variant = {tile, grout}
    Customer = {alice}
    Guest = {guest}
    CartId = {k1, k2}
    Process = {p1, p2}
    Product <- Products
    Bundle <- Kit
    Coupon <- Coupons
    Method <- Banded
    Quantity = {1, 2}
    MaxAsked <- Asked
    NoCart = NoCart
    NoOwner = NoOwner
    NoBundle = NoBundle
SYMMETRY Symmetry
INVARIANTS CartsSound PenniesFit
PROPERTIES NothingLost
