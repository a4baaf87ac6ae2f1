SPECIFICATION Spec
CONSTANTS
  Account = {1}
  Email = {e1}
  Code = {1, 2}
  Token = {1, 2}
  Request = {p, q}
  MaxDeletions = 1
  Admin = {1, 2}
  Role = {1, 2}
  Permission = {m}
  Manage = m
  Pass = {1, 2}
  Errand = {p, q}
  Change <- Changes
  Null = None
  Nobody = None
  Quote = {1, 2}
  Customer = {c1}
  Answer = {p, q}
  Response <- Responses
  Unpriced = None
  Card = {g}
  Correction = {p, q}
  CardChange <- Corrections
  Issue = {1, 2}
  MaxBalance = 3
  Bundle = {1, 2}
  Coupon = {1, 2}
  Task = {p, q}
  BundleEdit <- BundleEdits
  CouponEdit <- CouponEdits
  Unset = None
  LastDay = 2
  Shopper = {tile, grout}
  Spot = {1, 2, 3}
  Review = {1, 2, 3}
  Question = {1, 2}
  Visit = {p, q}
  Purchase = {north, south}
  Buyer <- ItemOwners
  Absent = None
  MaxAnswers = 2
  tile = tile
  grout = grout
  north = north
  south = south
  Book <- Books
  Client = {"ann", "bob"}
  Visitor = "visitor"
  Query <- Queries
  Undrawn = Undrawn
  Product = {tile, grout}
  CategoryOf <- Categories
  BrandOf <- Brands
  Unbranded = 0
  LiveProduct = {tile}
  WeekLength = 3
  MonthStart = {0, 4}
SYMMETRY Symmetry
INVARIANTS OffersHold BelongingsHold ResetEndsSessions StaffSound BalanceIsLedger FiguresAgree
PROPERTIES SessionsHold AdminsKeepPromise OneAnswerEach
CHECK_DEADLOCK FALSE
