SPECIFICATION Spec
CONSTANTS
    drill = drill
    saw = saw
    red = red
    blue = blue
    alpha = alpha
    beta = beta
    gamma = gamma
    dquote = dquote
    lf = lf
    cr = cr
    tools = tools
    Product = {drill, saw}
    Variant = {v1, v2}
    Slug = {alpha, beta, gamma}
    VariantSlug = {red, blue}
    DefaultSlug = blue
    Admin = {x, y}
    Face <- Faces
    OpenCategory = {tools}
    Edit <- Edits
    VariantEdit <- VariantEdits
    File <- Files
    MaxWrites = 4
    None = None
    Checker = {c1, c2}
    MaxStock = 3
    Threshold = 1
    MaxTold = 2
    Sheet <- Sheets
    Character <- Marks
    Comma = ","
    Quote = dquote
    Newline = lf
    Return = cr
    Unread = None
    Category = {1, 2}
    Editor = {x, y}
    Address = {alpha, beta, gamma}
    Top = Top
    CategoryEdit <- CategoryEdits
    Limit = 1
    Method = {m}
    Sale = {o}
    Key = {k}
    Clerk = {x, y}
    Band <- Bands
    Rate = {charge}
    NoRate = NoRate
    NoOrder = NoOrder
    Lost = Lost
    MaxBands = 2
    drills = drills
    bosch = bosch
    perforator = perforator
    wall = wall
    brick = brick
    the = the
    Article = {1, 2, 3}
    Client = {c1, c2}
    Fact <- Facts
    Parent <- Parents
    ShownCategory = {tools, drills}
    Brand = {bosch}
    Offer <- Offers
    Stock <- Stocks
    Orders <- Placed
    Synonyms <- Phrases
    Word = {drill, perforator, wall, brick, the}
    StopWord = {the}
    Query <- Queries
    Question <- Questions
    ListSize = 2
    MaxRows = 2
    MaxChanges = 1
    Absent = None
SYMMETRY Symmetry
INVARIANTS CatalogueSound OldSlugsLead MailPerDip SheetReadsBack GridHolds ShippingHolds ListingsAgree
PROPERTIES OnlyOnSaleShown
CHECK_DEADLOCK FALSE
