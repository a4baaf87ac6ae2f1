------------------------------ MODULE Shopfront -----------------------------
(***************************************************************************)
(* What the storefront shows of the catalogue: listings with their search, *)
(* filters, facets and pages, related products, recommendations and the    *)
(* product adviser (StorefrontProductsService and the services around it), *)
(* read in several queries while the back office changes the shop.         *)
(*                                                                         *)
(*   onSale   products that are ACTIVE and not deleted                     *)
(*   offers   the variants of a product that are, default first: those     *)
(*            listInclude takes                                            *)
(*   client   the request each client has under way, or its answer         *)
(*   advice   the adviser's answers it remembers, by question              *)
(*   changes  changes of the shop so far, at most MaxChanges               *)
(*                                                                         *)
(* An article is a product, known by its id. A query without an order, or  *)
(* with equal keys, gives its rows as the database likes. Queries of one   *)
(* Promise.all are taken at one moment. Requests do not write what other   *)
(* requests read, so one is under way at a time; an answer stays with its  *)
(* client, and keeps the counter of changes its request began and ended    *)
(* with. "newest" stands for the sorts by one column, by name as well.     *)
(***************************************************************************)
EXTENDS Integers, FiniteSets, Sequences, SequencesExt, FiniteSetsExt

CONSTANTS
    Article, Client,
    Fact,          \* what is not changed here: see FactAssumption
    Parent,        \* the parent of each category, Absent for a top-level one
    ShownCategory,  \* categories that are ACTIVE and not deleted
    Brand,
    Offer,         \* the lists of variants a product may be given later
    Stock,         \* what the variants of all may be at first
    Orders,        \* the orders placed: products with their quantities
    Synonyms,      \* lists of phrases that stand for each other
    Word, StopWord,
    Query,         \* the listings asked for, see QueryDto
    Question,      \* the questions asked: sets of words
    ListSize,         \* how many products a list of products shows
    MaxRows,       \* how many rows are read to be ranked or compared (300)
    MaxChanges,
    Absent

ASSUME ProductAssumption ==
    /\ Article \subseteq Nat /\ IsFiniteSet(Article)
    /\ Absent \notin Nat /\ Absent \notin Seq(Nat)
ASSUME TreeAssumption ==
    /\ Parent \in [DOMAIN Parent -> DOMAIN Parent \cup {Absent}] /\ Absent \notin DOMAIN Parent
    /\ ShownCategory \subseteq DOMAIN Parent /\ IsFiniteSet(ShownCategory)
ASSUME FactAssumption ==
    \A p \in Article :
        /\ Fact[p].category \in DOMAIN Parent /\ Fact[p].also \subseteq DOMAIN Parent
        /\ Fact[p].brand \in Brand \cup {Absent}
        /\ Fact[p].curated \in Seq(Article) /\ Fact[p].links \subseteq Article
        /\ Fact[p].featured \in BOOLEAN /\ Fact[p].rating \in 0..5 /\ Fact[p].created \in Nat

(* What a listing may be asked; page and size have defaults.               *)
QueryDto ==
    [category : DOMAIN Parent \cup {Absent}, brands : SUBSET Brand, inStock : BOOLEAN,
     words : SUBSET Word, alike : SUBSET Article,
     min : Nat \cup {Absent}, max : Nat \cup {Absent}, onSale : BOOLEAN,
     sort : {"newest", "price_asc", "price_desc", "discount_desc"},
     page : Nat \ {0}, perPage : Nat \ {0}]

(* A variant on offer.                                                     *)
Variation == [price : Nat, sale : Nat \cup {Absent}, stock : Nat]

ASSUME QueryAssumption == Query \subseteq QueryDto /\ IsFiniteSet(Word)
ASSUME OfferAssumption == Offer \subseteq Seq(Variation) /\ Stock \subseteq [Article -> Seq(Variation)]
ASSUME OrderAssumption == \A o \in Orders : DOMAIN o \subseteq Article
ASSUME LimitAssumption == ListSize \in Nat \ {0} /\ MaxRows \in Nat \ {0} /\ MaxChanges \in Nat

VARIABLES onSale, offers, client, advice, changes

shopVars == <<onSale, offers, client, advice, changes>>

-----------------------------------------------------------------------------
(* Prices. The first variant is the default one, or the oldest.            *)

Charged(variant) == IF variant.sale = Absent THEN variant.price ELSE variant.sale

Price(p) == IF offers[p] = <<>> THEN 0 ELSE Charged(offers[p][1])

InStock(p) == \E i \in DOMAIN offers[p] : offers[p][i].stock > 0

(* What a card shows (pricingOf).                                          *)
Card(p) == [id |-> p, price |-> IF offers[p] = <<>> THEN Absent ELSE Charged(offers[p][1]),
            inStock |-> InStock(p)]

(* The reduction Off / Full of a is larger than that of b; what is free is *)
(* not reduced.                                                            *)
Full(p) == IF offers[p][1].price > 0 THEN offers[p][1].price ELSE 1

Off(p) == IF offers[p][1].price > 0 THEN offers[p][1].price - offers[p][1].sale ELSE 0

Deeper(a, b) == Off(a) * Full(b) > Off(b) * Full(a)

Reduced(p) == offers[p] # <<>> /\ offers[p][1].sale # Absent

-----------------------------------------------------------------------------
(* Search. A query of words; a phrase counts as one word.                  *)

(* Of each list of synonyms the first phrase that occurs is taken out.     *)
Found(group, words) ==
    LET at == SelectInSeq(group, LAMBDA phrase : phrase \in words)
    IN  IF at = 0 THEN {} ELSE {group[at]}

Terms(words) ==
    LET groups == {group \in Synonyms : Found(group, words) # {}}
        left == words \ (StopWord \cup UNION {Found(group, words) : group \in groups})
        terms == {ToSet(group) : group \in groups} \cup {{word} : word \in left}
    IN  IF terms = {} THEN {words} ELSE terms

Mentions(p, terms) == terms \cap (Fact[p].title \cup Fact[p].text) # {}

Searched(p, words, loose) ==
    IF loose THEN \E terms \in Terms(words) : Mentions(p, terms)
    ELSE \A terms \in Terms(words) : Mentions(p, terms)

InCategory(p, c) == Fact[p].category = c \/ Parent[Fact[p].category] = c \/ c \in Fact[p].also

(* buildWhere; alike are the products a search by likeness adds.           *)
Matches(q, loose) ==
    {p \in Article :
        /\ onSale[p]
        /\ q.category # Absent => InCategory(p, q.category)
        /\ q.brands # {} => Fact[p].brand \in q.brands
        /\ q.inStock => InStock(p)
        /\ q.words # {} => Searched(p, q.words, loose) \/ p \in q.alike}

Priced(q) == q.min # Absent \/ q.max # Absent \/ q.onSale \/ q.sort # "newest"

Affordable(S, q) ==
    {p \in S :
        /\ offers[p] # <<>>
        /\ q.onSale \/ q.sort = "discount_desc" => Reduced(p)
        /\ q.min # Absent => Price(p) >= q.min
        /\ q.max # Absent => Price(p) <= q.max}

(* Whether a goes before b in a sort by price; equal ones go by id.        *)
Before(a, b, sort) ==
    CASE sort = "price_asc"  -> Price(a) < Price(b) \/ (Price(a) = Price(b) /\ a < b)
      [] sort = "price_desc" -> Price(a) > Price(b) \/ (Price(a) = Price(b) /\ a < b)
      [] sort = "discount_desc" -> Deeper(a, b) \/ (~Deeper(b, a) /\ a < b)

(* The products of S in the order in which each goes before the next ones. *)
InOrder(S, GoesBefore(_, _)) ==
    CHOOSE ids \in SetToSeqs(S) : \A i, j \in DOMAIN ids : i < j => GoesBefore(ids[i], ids[j])

Sorted(S, q) == InOrder(S, LAMBDA a, b : Before(a, b, q.sort))

Score(p, words) ==
    SumFunction([w \in words \ StopWord |-> (IF w \in Fact[p].title THEN 2 ELSE 0)
                                            + (IF w \in Fact[p].text THEN 1 ELSE 0)])

RankByWords(S, words) ==
    InOrder(S, LAMBDA a, b : \/ Score(a, words) > Score(b, words)
                             \/ Score(a, words) = Score(b, words) /\ a < b)

(* The rows that a query with `take` and no order gives of those it finds. *)
Rows(S) == kSubset(Min({MaxRows, Cardinality(S)}), S)

(* The order of equal keys is the database's.                              *)
Rankings(S, Key(_)) ==
    {ids \in SetToSeqs(S) : \A i, j \in DOMAIN ids : i < j => Key(ids[i]) >= Key(ids[j])}

Newest(S) == Rankings(S, LAMBDA p : Fact[p].created)

Slice(ids, q) == SubSeq(ids, (q.page - 1) * q.perPage + 1, Min({Len(ids), q.page * q.perPage}))

-----------------------------------------------------------------------------
(* Facets: how many of the products found each filter would leave.         *)

Facets(S) ==
    [categories |-> [c \in {Fact[p].category : p \in S} |->
                        Cardinality({p \in S : Fact[p].category = c})],
     brands |-> [b \in {Fact[p].brand : p \in S} \ {Absent} |->
                        Cardinality({p \in S : Fact[p].brand = b})],
     prices |-> UNION {{offers[p][i].price : i \in DOMAIN offers[p]} : p \in S}]

-----------------------------------------------------------------------------
(* The back office.                                                        *)

ShopInit ==
    /\ onSale = [p \in Article |-> TRUE] /\ offers \in Stock
    /\ client = [c \in Client |-> [at |-> "idle"]]
    /\ advice = [question \in Question |-> Absent]
    /\ changes = 0

Change == changes < MaxChanges /\ changes' = changes + 1 /\ UNCHANGED <<client, advice>>

(* A status changed, a product removed or published.                       *)
Publish(p) == Change /\ onSale' = [onSale EXCEPT ![p] = ~@] /\ UNCHANGED offers

Reprice(p, offer) ==
    Change /\ offers[p] # offer /\ offers' = [offers EXCEPT ![p] = offer] /\ UNCHANGED onSale

-----------------------------------------------------------------------------
(* A listing.                                                              *)

Ready(c) == client[c].at = "idle" /\ \A d \in Client \ {c} : client[d].at \in {"idle", "answered"}

Advance(c, from, request) ==
    client[c].at = from /\ client' = [client EXCEPT ![c] = request]

Unchanged == UNCHANGED <<onSale, offers, advice, changes>>

(* A search without a single match is repeated with any of its words.      *)
Begin(c, q) ==
    /\ Ready(c)
    /\ client' = [client EXCEPT ![c] =
          [at |-> "candidates", query |-> q, since |-> changes,
           loose |-> q.words # {} /\ Matches(q, FALSE) = {}]]
    /\ Unchanged

(* Prices are compared on a copy, and the listing keeps to what it found.  *)
Candidates(c) ==
    LET r == client[c] IN
    /\ r.at = "candidates"
    /\ LET q == r.query
           found == Affordable(Matches(q, r.loose), q)
       IN  Advance(c, "candidates",
                [at |-> "rank", query |-> q, since |-> r.since, loose |-> r.loose,
                 only |-> IF Priced(q) THEN found ELSE Article,
                 ids |-> IF q.sort = "newest" THEN Absent ELSE Sorted(found, q)])
    /\ Unchanged

(* Any-word matches without a price order are ranked by their words, as    *)
(* many of them as are read.                                               *)
Rank(c) ==
    LET r == client[c]
        found == Matches(r.query, TRUE) \cap r.only
    IN  /\ r.at = "rank"
        /\ \E ids \in IF r.loose /\ r.ids = Absent
                      THEN {RankByWords(rows, r.query.words) : rows \in Rows(found)} ELSE {r.ids} :
              Advance(c, "rank", [r EXCEPT !.at = "facets", !.ids = ids])
        /\ Unchanged

(* Facets of all that matches, whatever it costs.                          *)
CountFacetsUnpriced(c) ==
    LET r == client[c] IN
    /\ r.at = "facets"
    /\ Advance(c, "facets",
            [at |-> "page", query |-> r.query, since |-> r.since, loose |-> r.loose,
             only |-> r.only, ids |-> r.ids, facets |-> Facets(Matches(r.query, r.loose))])
    /\ Unchanged

CountFacets(c) ==
    LET r == client[c] IN
    /\ r.at = "facets"
    /\ Advance(c, "facets",
            [at |-> "page", query |-> r.query, since |-> r.since, loose |-> r.loose,
             only |-> r.only, ids |-> r.ids,
             facets |-> Facets(Matches(r.query, r.loose) \cap r.only)])
    /\ Unchanged

(* One that trusts the ids.                                                *)
FetchedAll(ids) == ids

(* fetchProductsByIds drops what is no longer on sale.                     *)
Fetched(ids) == FoldLeft(LAMBDA shown, p : IF onSale[p] THEN Append(shown, p) ELSE shown, <<>>, ids)

Cards(ids) == [i \in DOMAIN ids |-> Card(ids[i])]

Answered(r, ids, total) ==
    [at |-> "answered", query |-> r.query, loose |-> r.loose, since |-> r.since,
     until |-> changes, items |-> Cards(ids), total |-> total, facets |-> r.facets]

Page(c) ==
    LET r == client[c]
        q == r.query
    IN  /\ r.at = "page"
        /\ \/ /\ r.ids # Absent
              /\ Advance(c, "page", Answered(r, Fetched(Slice(r.ids, q)), Len(r.ids)))
           \/ /\ r.ids = Absent
              /\ \E found \in Newest(Matches(q, r.loose) \cap r.only) :
                    Advance(c, "page", Answered(r, Slice(found, q), Len(found)))
        /\ Unchanged

-----------------------------------------------------------------------------
(* Lists of products: their ids are found first, their cards read by ids.  *)

First(n, ids) == SubSeq(ids, 1, Min({n, Len(ids)}))

Firsts(n, rankings) == {First(n, ids) : ids \in rankings}

Sold(p) == SumFunction([order \in {o \in Orders : p \in DOMAIN o} |-> order[p]])

Together(p, other) == Cardinality({o \in Orders : {p, other} \subseteq DOMAIN o})

BestSellers(n) ==
    Firsts(n, Rankings(UNION {DOMAIN o : o \in Orders}, Sold))

BoughtTogether(p, n) ==
    Firsts(n, Rankings({other \in Article \ {p} : Together(p, other) > 0},
                       LAMBDA other : Together(p, other)))

TopRated(n) ==
    Firsts(n, Rankings({p \in Article : Fact[p].rating > 0}, LAMBDA p : Fact[p].rating))

Featured(n) == Firsts(n, Newest({p \in Article : onSale[p] /\ Fact[p].featured}))

SamePlatform(p, n) ==
    Firsts(n, SetToSeqs({other \in Article \ {p} : /\ onSale[other] /\ Fact[p].platform # Absent
                                                   /\ Fact[other].platform = Fact[p].platform}))

SameCategory(p, n) ==
    Firsts(n, Rankings({other \in Article \ {p} :
                           onSale[other] /\ Fact[other].category = Fact[p].category},
                       LAMBDA other : other))

(* isCompatible, of what is known about sockets, memory and power.         *)
MemoryFor(socket) ==
    CASE socket \in {"AM5", "LGA1851"} -> "DDR5" [] socket = "AM4" -> "DDR4" [] OTHER -> Absent

Fits(a, b) ==
    LET socket == IF a.socket # Absent THEN a.socket ELSE b.socket
        Powers(x, y) == x.needs = Absent \/ y.gives = Absent \/ y.gives >= x.needs
    IN  /\ a.socket = Absent \/ b.socket = Absent \/ a.socket = b.socket
        /\ socket # Absent => \A side \in {a, b} :
              /\ side.sockets = {} \/ socket \in side.sockets
              /\ MemoryFor(socket) = Absent \/ side.memory \in {Absent, MemoryFor(socket)}
        /\ Powers(a, b) /\ Powers(b, a)

Compatible(p, n) ==
    LET links == Fact[p].links
        known == {other \in Article \ (links \cup {p}) :
                     onSale[other] /\ Fact[p].fit # Absent /\ Fact[other].fit # Absent}
        fitting == UNION {SetToSeqs({other \in rows : Fits(Fact[p].fit, Fact[other].fit)}) :
                             rows \in Rows(known)}
    IN  {First(n, Fetched(ids)) : ids \in {l \o f : l \in SetToSeqs(links), f \in fitting}}

(* Recommendations: the strongest source first, to the limit. The products *)
(* that embeddings find similar, a source of their own, are left out.      *)
Pick(p, picked, ids, source) ==
    FoldLeft(LAMBDA acc, id : IF id = p \/ Len(acc) >= ListSize \/ \E i \in DOMAIN acc : acc[i][1] = id
                              THEN acc ELSE Append(acc, <<id, source>>),
             picked, ids)

Wanted == 2 * ListSize

Recommended(p) ==
    {Pick(p, Pick(p, Pick(p, Pick(p, Pick(p, <<>>,
              Fact[p].curated, "curated"), together, "bought-together"),
              platform, "same-platform"), category, "same-category"), best, "best-seller") :
        together \in BoughtTogether(p, Wanted), platform \in SamePlatform(p, Wanted),
        category \in SameCategory(p, Wanted), best \in BestSellers(Wanted + 1)}

Ids(picked) == [i \in DOMAIN picked |-> picked[i][1]]

(* What has been chosen for product p, or for none.                        *)
Select(c, p, picked) ==
    /\ Ready(c)
    /\ client' = [client EXCEPT ![c] = [at |-> "fetch", of |-> p, picked |-> picked]]
    /\ Unchanged

From(list, ids) == [i \in DOMAIN ids |-> <<ids[i], list>>]

Shown(c, ids) ==
    /\ Ready(c)
    /\ client' = [client EXCEPT ![c] = [at |-> "shown", items |-> Cards(ids)]]
    /\ Unchanged

(* A product page.                                                         *)
BySlug(c, p) == onSale[p] /\ Shown(c, <<p>>)

(* A comparison shows all the products asked for, or none.                 *)
Compare(c, ids) ==
    Cardinality(ids) \in 2..6 /\ (\A p \in ids : onSale[p]) /\ Shown(c, SetToSeq(ids))

Lists(c) ==
    /\ Ready(c)
    /\ \/ \E ids \in BestSellers(ListSize) : Select(c, Absent, From("best-sellers", ids))
       \/ \E ids \in TopRated(ListSize) : Select(c, Absent, From("top-rated", ids))
       \/ \E ids \in Featured(ListSize) : Select(c, Absent, From("featured", ids))
       \/ \E p \in Article : onSale[p] /\
             \/ \E ids \in BoughtTogether(p, ListSize) : Select(c, Absent, From("together", ids))
             \/ \E ids \in Compatible(p, ListSize) : Select(c, Absent, From("compatible", ids))
             \/ \E picked \in Recommended(p) : Select(c, p, picked)

Fetch(c) ==
    /\ client[c].at = "fetch"
    /\ Advance(c, "fetch", [at |-> "shown", items |-> Cards(Fetched(Ids(client[c].picked)))])
    /\ Unchanged

(* A page left.                                                            *)
Leave(c) ==
    /\ client[c].at \in {"answered", "shown"}
    /\ client' = [client EXCEPT ![c] = [at |-> "idle"]]
    /\ Unchanged

(* The adviser picks among the products that mention a word of the         *)
(* question, and its answer is remembered by ids. The language model may   *)
(* name any products; those that are not among the candidates are left out.*)
Allowed(question) ==
    {p \in Article : onSale[p] /\ question \cap (Fact[p].title \cup Fact[p].text) # {}}

Advise(c, question, reply) ==
    LET ids == IF advice[question] # Absent THEN advice[question] ELSE reply
    IN  /\ Ready(c)
        /\ \/ advice[question] # Absent
           \/ Allowed(question) # {} /\ ToSet(reply) \subseteq Allowed(question) /\ Len(reply) <= 4
        /\ advice' = [advice EXCEPT ![question] = ids]
        /\ client' = [client EXCEPT ![c] = [at |-> "fetch", of |-> Absent,
                                               picked |-> From("advice", ids)]]
        /\ UNCHANGED <<onSale, offers, changes>>

ShopNext ==
    \/ \E p \in Article : Publish(p) \/ \E offer \in Offer : Reprice(p, offer)
    \/ \E c \in Client :
          \/ \E q \in Query : Begin(c, q)
          \/ Candidates(c) \/ Rank(c) \/ CountFacets(c) \/ Page(c)
          \/ \E p \in Article : BySlug(c, p)
          \/ \E ids \in SUBSET Article : Compare(c, ids)
          \/ Lists(c) \/ Fetch(c) \/ Leave(c)
          \/ \E question \in Question, named \in SUBSET Article :
                \E reply \in SetToSeqs(named) : Advise(c, question, reply)

ShopSpec == ShopInit /\ [][ShopNext]_shopVars

-----------------------------------------------------------------------------
(* The category tree and the brands, with their counts.                    *)

OnSale == {p \in Article : onSale[p]}

OwnCount(c) ==
    Cardinality({p \in OnSale : Fact[p].category = c}) + Cardinality({p \in OnSale : c \in Fact[p].also})

Children(c) == {child \in ShownCategory : Parent[child] = c}

ProductCount(c) ==
    OwnCount(c) + IF Parent[c] \in ShownCategory THEN 0
                  ELSE SumFunction([child \in Children(c) |-> OwnCount(child)])

(* What the menu, the listings and their comments take the tree to be.     *)
TwoLevels == \A c \in DOMAIN Parent : Parent[c] # Absent => Parent[Parent[c]] = Absent

BrandCount(b) == Cardinality({p \in OnSale : Fact[p].brand = b /\ offers[p] # <<>>})

-----------------------------------------------------------------------------
(* Properties.                                                             *)

Undisturbed(r) == r.at = "answered" /\ r.since = r.until

(* No list shows a product that is not on sale when its cards are read,    *)
(* though its ids come from orders, reviews, an editor's picks or an       *)
(* answer the adviser gave before the product was withdrawn.               *)
OnlyOnSaleShown ==
    [][\A c \in Client : client'[c].at \in {"answered", "shown"} /\ client'[c] # client[c] =>
          \A i \in DOMAIN client'[c].items : onSale[client'[c].items[i].id]]_shopVars

(* The pages two clients are given of one sort by price, from a shop that  *)
(* did not change, do not share a product. Each page is in the order of    *)
(* the prices its cards show, or of the products' creation, and within the *)
(* bounds asked for; a page before the last is full.                       *)
PagesCutOneOrder ==
    \A c \in Client : LET r == client[c] IN Undisturbed(r) =>
        /\ \A i, j \in DOMAIN r.items : i < j =>
              /\ r.query.sort = "price_asc" => r.items[i].price <= r.items[j].price
              /\ r.query.sort = "price_desc" => r.items[i].price >= r.items[j].price
              /\ r.query.sort = "newest" /\ ~r.loose =>
                    Fact[r.items[i].id].created >= Fact[r.items[j].id].created
        /\ \A i \in DOMAIN r.items :
              /\ r.query.min # Absent => r.items[i].price >= r.query.min
              /\ r.query.max # Absent => r.items[i].price <= r.query.max
        /\ Len(r.items) = Max({0, Min({r.query.perPage,
                                       r.total - (r.query.page - 1) * r.query.perPage})})
        /\ r.query.sort # "newest" => \A d \in Client : LET s == client[d] IN
              /\ Undisturbed(s) /\ r.since = s.since
              /\ s.query = [r.query EXCEPT !.page = s.query.page] /\ s.query # r.query
              => \A i \in DOMAIN r.items, j \in DOMAIN s.items : r.items[i].id # s.items[j].id

(* The facets of a listing count what it finds: every product of it has    *)
(* one category, so the categories add up to the total of its pages, which *)
(* a ranking by words cuts to the rows it reads.                           *)
FacetsAddUp ==
    \A c \in Client : LET r == client[c] IN Undisturbed(r) =>
        LET counted == SumFunction(r.facets.categories)
        IN  r.total = IF r.loose /\ r.query.sort = "newest" THEN Min({MaxRows, counted})
                      ELSE counted

(* "An admin-curated pick always outranks a statistical one": those of the *)
(* first ListSize that are on sale are shown, before all others, and a     *)
(* product is never recommended with itself or twice.                      *)
CuratedOutranks ==
    \A c \in Client : client[c].at = "fetch" /\ client[c].of # Absent =>
        LET p == client[c].of
            picked == client[c].picked
            curated == Fact[p].curated
        IN  /\ \A i \in DOMAIN picked : picked[i][1] # p
            /\ \A i, j \in DOMAIN picked : i # j => picked[i][1] # picked[j][1]
            /\ \A i \in 1..Min({ListSize, Len(curated)}) :
                  curated[i] # p => \E k \in 1..i : picked[k] = <<curated[i], "curated">>

(* The count the category menu and the brand page show is the number of    *)
(* products behind the link, where the tree has two levels, no product has *)
(* a second category, all categories are open and each product on sale has *)
(* a variant.                                                              *)
CountsMatchListing ==
    LET all == [category |-> Absent, brands |-> {}, inStock |-> FALSE, words |-> {}]
    IN  /\ \A c \in ShownCategory :
              TwoLevels /\ (\A p \in OnSale : Fact[p].also = {} /\ Fact[p].category \in ShownCategory) =>
                  ProductCount(c) = Cardinality(Matches([all EXCEPT !.category = c], FALSE))
        /\ \A b \in Brand :
              (\A p \in OnSale : offers[p] # <<>>) =>
                  BrandCount(b) = Cardinality(Matches([all EXCEPT !.brands = {b}], FALSE))

(* What is listed, counted, paged and recommended agrees: the four above.  *)
ListingsAgree == PagesCutOneOrder /\ FacetsAddUp /\ CuratedOutranks /\ CountsMatchListing

=============================================================================
