----------------------------- MODULE MCCatalogue ----------------------------
(* Instances of Catalogue, StockAlerts, ImportFile, Categories, Shipping   *)
(* and Shopfront, which share no state; a run plays one of them, as the    *)
(* scene says.                                                             *)
EXTENDS Catalogue, StockAlerts, ImportFile, Categories, Shipping, Shopfront, TLC

CONSTANTS drill, saw, red, blue, alpha, beta, gamma, tools, dquote, lf, cr,
          drills, bosch, perforator, wall, brick, the

VARIABLE scene

-----------------------------------------------------------------------------
(* Two products renamed among three addresses, with two variants.          *)

Published == [status |-> "ACTIVE", offline |-> "301", category |-> tools, target |-> None]

Archived == [status |-> "ARCHIVED", offline |-> "GONE", category |-> tools, target |-> None]

Faces == {Published, Archived}

Body == [slug |-> None, face |-> None, mates |-> None, initial |-> FALSE]

Edits == {[Body EXCEPT !.slug = alpha, !.face = Published, !.initial = TRUE],
          [Body EXCEPT !.slug = beta, !.face = Published],
          [Body EXCEPT !.slug = gamma, !.face = Published, !.mates = {drill}],
          [Body EXCEPT !.mates = {saw}],
          [Body EXCEPT !.mates = {}],
          [Body EXCEPT !.face = Archived, !.initial = TRUE]}

VariantEdits == [slug : {red}, default : {TRUE, None}]

Files == {<<[Body EXCEPT !.slug = alpha, !.face = Published],
            [Body EXCEPT !.slug = beta, !.face = Published, !.mates = {drill}]>>}

(* An empty sheet, and sheets of a record of two cells and one of one.     *)
Marks == {",", dquote, lf, cr}

Cells == UNION {[1..k -> Marks] : k \in 0..2}

Sheets ==
    {<<>>} \cup {<<<<f, g>>, <<h>>>> : f \in Cells, g \in Cells, h \in {<<>>, <<dquote>>}}

(* Two categories for one tile, and the edits of their form.               *)
CategoryEdits == {[slug |-> alpha], [slug |-> beta, parent |-> 1], [slug |-> beta, shown |-> FALSE],
                  [parent |-> Top], [parent |-> Top, shown |-> TRUE, faqs |-> {"a question"}]}

Bands == {[min |-> 0, max |-> 1], [min |-> 1, max |-> 2], [min |-> 0, max |-> 3]}

-----------------------------------------------------------------------------
(* Three products of the shop in a small tree of categories.               *)

Parents == tools :> Absent @@ drills :> tools

Ordinary == [category |-> drills, also |-> {}, brand |-> bosch, title |-> {drill}, text |-> {},
          platform |-> Absent, fit |-> Absent, curated |-> <<>>, links |-> {}, featured |-> FALSE,
          rating |-> 0, created |-> 1]

Board == [socket |-> "AM5", sockets |-> {}, memory |-> "DDR5", needs |-> Absent, gives |-> Absent]

Facts ==
    <<[Ordinary EXCEPT !.platform = "18V", !.curated = <<2, 3>>, !.featured = TRUE, !.rating = 4,
                    !.created = 2],
      [Ordinary EXCEPT !.brand = Absent, !.text = {wall}, !.links = {3}, !.rating = 5,
                    !.curated = <<1>>, !.fit = Board],
      [Ordinary EXCEPT !.category = tools, !.title = {perforator}, !.platform = "18V", !.links = {2},
                    !.fit = [Board EXCEPT !.socket = Absent]]>>

OnOffer(full, reduced) == [price |-> full, sale |-> reduced, stock |-> 1]

Offers == {<<>>, <<OnOffer(5, 4), OnOffer(1, Absent)>>}

Stocks == {<<<<OnOffer(2, Absent)>>, <<OnOffer(2, 1)>>, <<OnOffer(4, 2), OnOffer(1, Absent)>>>>,
           <<<<>>, <<OnOffer(4, 2), OnOffer(1, Absent)>>, <<OnOffer(0, 0)>>>>}

Opening == CHOOSE variants \in Stocks : TRUE

Placed == {1 :> 1 @@ 2 :> 2, 1 :> 1 @@ 3 :> 1}

All == [category |-> Absent, brands |-> {}, inStock |-> FALSE, words |-> {}, alike |-> {},
        min |-> Absent, max |-> Absent, onSale |-> FALSE, sort |-> "newest", page |-> 1, perPage |-> 1]

Queries ==
    {[All EXCEPT !.sort = sort, !.page = page] : sort \in {"price_asc", "discount_desc"}, page \in 1..2}
    \cup {[All EXCEPT !.category = tools, !.max = 3, !.perPage = 2],
          [All EXCEPT !.words = {perforator, wall, the}],
          [All EXCEPT !.words = {perforator, brick}, !.perPage = 2],
          [All EXCEPT !.brands = {bosch}, !.inStock = TRUE, !.sort = "price_desc", !.min = 2,
                       !.perPage = 2]}

Phrases == {<<drill, perforator>>}

Questions == {{wall}}

-----------------------------------------------------------------------------

Init ==
    /\ CatalogueInit /\ AlertInit /\ CategoriesInit /\ ShippingInit /\ ShopInit
    /\ \/ scene \in {"catalogue", "stock", "categories", "shipping", "shop"}
          /\ sheet = <<>> /\ ending = TRUE /\ rows = <<>>
       \/ scene = "import" /\ ImportInit
    /\ scene # "shop" => offers = Opening

Next ==
    /\ UNCHANGED scene
    /\ \/ scene = "catalogue" /\ CatalogueNext
          /\ UNCHANGED <<alertVars, importVars, categoryVars, shippingVars, shopVars>>
       \/ scene = "stock" /\ AlertNext
          /\ UNCHANGED <<catalogueVars, importVars, categoryVars, shippingVars, shopVars>>
       \/ scene = "import" /\ Import
          /\ UNCHANGED <<catalogueVars, alertVars, categoryVars, shippingVars, shopVars>>
       \/ scene = "categories" /\ CategoriesNext
          /\ UNCHANGED <<catalogueVars, alertVars, importVars, shippingVars, shopVars>>
       \/ scene = "shipping" /\ ShippingNext
          /\ UNCHANGED <<catalogueVars, alertVars, importVars, categoryVars, shopVars>>
       \/ scene = "shop" /\ ShopNext
          /\ UNCHANGED <<catalogueVars, alertVars, importVars, categoryVars, shippingVars>>

Spec == Init /\ [][Next]_<<catalogueVars, alertVars, importVars, categoryVars, shippingVars, shopVars, scene>>

Symmetry == Permutations(Admin) \cup Permutations(Client)
=============================================================================
