----------------------------- MODULE Catalogue -----------------------------
(***************************************************************************)
(* Products, their variants, the redirects of their former addresses and   *)
(* the links between compatible products, as the back office writes them   *)
(* (ProductsService, ProductsImportService), and the address resolution    *)
(* the storefront does over them (StorefrontProductsService).              *)
(*                                                                         *)
(*   product   products; a removed row stays, with live = FALSE            *)
(*   variant   product_variants                                            *)
(*   redirect  product_slug_redirects, by old_slug                         *)
(*   links     product_compatibility_links                                 *)
(*   admin     the request each administrator has under way: what update,  *)
(*             createVariant, updateVariant and import have read so far,   *)
(*             and what an open transaction has deleted                    *)
(*   borne     the slugs each product has had                              *)
(*   stale     products renamed by a request that had read a slug they no  *)
(*             longer had                                                  *)
(*   raced     products of which two variant writes overlapped             *)
(*   writes    requests so far, at most MaxWrites                          *)
(* borne, stale and raced are history variables: no step reads them.       *)
(*                                                                         *)
(* Slugs are unique among live rows by two partial indexes of the          *)
(* migrations; that of variants is over all products, where the services   *)
(* look for duplicates within one.                                         *)
(***************************************************************************)
EXTENDS Naturals, FiniteSets, Sequences

CONSTANTS
    Product, Variant, Slug, VariantSlug, Admin,
    DefaultSlug,    \* the variant slug 'default'
    Face,           \* status, categories and offline behaviour, see FaceAssumption
    OpenCategory,   \* the categories that are not deleted
    Edit,           \* the bodies of create and update
    VariantEdit,    \* the bodies of createVariant and updateVariant
    File,           \* the import files: sequences of edits
    MaxWrites,
    None

ASSUME FaceAssumption ==
    \A face \in Face :
        /\ face.status \in {"DRAFT", "ACTIVE", "ARCHIVED"}
        /\ face.offline \in {"NOT_FOUND", "GONE", "301", "302"}

(* What a form may ask: None for a field that an update does not name.     *)
ProductDto(edit) ==
    /\ edit.slug \in Slug \cup {None}
    /\ edit.face \in Face \cup {None}
    /\ edit.mates \in (SUBSET Product) \cup {None}
    /\ edit.initial \in BOOLEAN

VariantDto == [slug : VariantSlug \cup {None}, default : BOOLEAN \cup {None}]

(* A row of a file names its product and is complete.                      *)
ImportedDto(row) == ProductDto(row) /\ row.slug # None /\ row.face # None

ASSUME EditAssumption == \A edit \in Edit : ProductDto(edit)
ASSUME VariantEditAssumption == VariantEdit \subseteq VariantDto
ASSUME FileAssumption ==
    \A file \in File : /\ file \in Seq({file[i] : i \in DOMAIN file})
                       /\ \A i \in DOMAIN file : ImportedDto(file[i])
ASSUME BoundAssumption == MaxWrites \in Nat
ASSUME NullAssumption ==
    /\ None \notin Product \cup Variant \cup Slug \cup VariantSlug \cup BOOLEAN
    /\ DefaultSlug \in VariantSlug

VARIABLES product, variant, redirect, links, admin, borne, stale, raced, writes

catalogueVars == <<product, variant, redirect, links, admin, borne, stale, raced, writes>>

-----------------------------------------------------------------------------
(* Rows and requests.                                                      *)

Draft(face) == [face EXCEPT !.status = "DRAFT"]

ProductRow == [made : BOOLEAN, live : BOOLEAN, slug : Slug \cup {None},
               face : Face \cup {Draft(face) : face \in Face} \cup {None}]

VariantRow == [of : Product \cup {None}, slug : VariantSlug \cup {None},
               default : BOOLEAN, live : BOOLEAN]

Idle == [at |-> "idle"]

(* What is left of a file, and the bodies of updates: those of the forms   *)
(* and the rows of the files.                                              *)
Rest == {<<>>} \cup UNION {{SubSeq(file, i, Len(file)) : i \in 1..(Len(file) + 1)} : file \in File}

Asked == Edit \cup UNION {{file[i] : i \in DOMAIN file} : file \in File}

(* The rows come back to an import once the update of one of them is done. *)
Request ==
    {Idle}
    \cup [at : {"update"}, id : Product, was : Slug, edit : Asked, rows : Rest]
    \cup [at : {"rewrite"}, id : Product, was : Slug, edit : Asked, rows : Rest,
          seen : SUBSET (Product \X Product), bare : BOOLEAN]
    \cup [at : {"variant"}, id : Product, row : Variant \cup {None},
          edit : VariantEdit, seen : SUBSET Variant]
    \cup [at : {"import"}, rows : Rest]
    \cup [at : {"row"}, rows : Rest \ {<<>>}, id : Product \cup {None}]

Live(p) == product[p].live

LiveVariants(p) == {v \in Variant : variant[v].of = p /\ variant[v].live}

(* products_slug_key and assertSlugAvailable.                              *)
SlugFree(s, p) == \A q \in Product \ {p} : Live(q) => product[q].slug # s

(* product_variants_slug_key.                                              *)
VariantSlugFree(s, v) == \A w \in Variant \ {v} : variant[w].live => variant[w].slug # s

Unused == {v \in Variant : variant[v].of = None}

Pairs(p, mates) == ({p} \X mates) \cup (mates \X {p})

(* The links of a product, but those that other products hold.             *)
LinksHeldBy(p) == {l \in links : l[1] = p}

LinksOf(p) == {l \in links : p \in {l[1], l[2]}}

NewVariant(p, s, default) == [of |-> p, slug |-> s, default |-> default, live |-> TRUE]

CatalogueInit ==
    /\ product = [p \in Product |-> [made |-> FALSE, live |-> FALSE, slug |-> None, face |-> None]]
    /\ variant = [v \in Variant |-> [of |-> None, slug |-> None, default |-> FALSE, live |-> FALSE]]
    /\ redirect = [s \in Slug |-> None]
    /\ links = {} /\ writes = 0
    /\ admin = [a \in Admin |-> Idle]
    /\ borne = [p \in Product |-> {}] /\ stale = {} /\ raced = {}

-----------------------------------------------------------------------------
(* Writes of one product, each a transaction.                              *)

WritesVariants(job, p) ==
    \/ job.at = "variant" /\ job.id = p
    \/ job.at = "rewrite" /\ job.id = p /\ job.bare

(* A request whose default flag another request of the product does not see.*)
Overlap(a, p) ==
    raced' = IF \E b \in Admin \ {a} : WritesVariants(admin[b], p) THEN raced \cup {p} ELSE raced

(* The row is locked by the transaction of another update.                 *)
Locked(a, p) == \E b \in Admin \ {a} : admin[b].at = "rewrite" /\ admin[b].id = p

(* The links are locked: another transaction has deleted one of them.      *)
LinksLocked(a, pairs) == \E b \in Admin \ {a} : admin[b].at = "rewrite" /\ pairs \cap admin[b].seen # {}

(* The foreign keys of the link table.                                     *)
Exist(mates) == mates # None => \A q \in mates : product[q].made

Insert(a, p, edit) ==
    /\ ~product[p].made /\ SlugFree(edit.slug, p) /\ Exist(edit.mates)
    /\ product' = [product EXCEPT ![p] = [made |-> TRUE, live |-> TRUE, slug |-> edit.slug,
                                          face |-> edit.face]]
    /\ \/ ~edit.initial /\ UNCHANGED variant
       \/ /\ edit.initial /\ VariantSlugFree(DefaultSlug, None)
          /\ \E v \in Unused :
                variant' = [variant EXCEPT ![v] = NewVariant(p, DefaultSlug, TRUE)]
    /\ links' = IF edit.mates = None THEN links ELSE links \cup Pairs(p, edit.mates)
    /\ borne' = [borne EXCEPT ![p] = {edit.slug}]
    /\ UNCHANGED <<redirect, stale, raced>>

(* One left at the new slug instead.                                       *)
ForwardedAhead(p, was, slug) ==
    IF slug \in {None, was} THEN redirect ELSE [redirect EXCEPT ![slug] = p]

(* The redirect an update leaves at the slug it read.                      *)
Forwarded(p, was, slug) ==
    IF slug \in {None, was} THEN redirect ELSE [redirect EXCEPT ![was] = p]

(* What the transaction of an update commits when its constraints hold.    *)
Rewrite(a, job) ==
    LET p == job.id
        edit == job.edit
        slug == IF edit.slug = None THEN product[p].slug ELSE edit.slug
        pairs == IF edit.mates = None THEN {} ELSE Pairs(p, edit.mates)
    IN  /\ Live(p) => SlugFree(slug, p)
        /\ Exist(edit.mates) /\ (edit.mates # None => p \notin edit.mates)
        /\ ~LinksLocked(a, pairs)
        /\ redirect' = Forwarded(p, job.was, edit.slug)
        /\ product' = [product EXCEPT ![p].slug = slug,
                                      ![p].face = IF edit.face = None THEN @ ELSE edit.face]
        /\ \/ ~job.bare /\ UNCHANGED <<variant, raced>>
           \/ /\ job.bare /\ VariantSlugFree(DefaultSlug, None)
              /\ \E v \in Unused :
                    variant' = [variant EXCEPT ![v] = NewVariant(p, DefaultSlug, TRUE)]
              /\ Overlap(a, p)
        /\ links' = (links \ job.seen) \cup pairs
        /\ borne' = [borne EXCEPT ![p] = @ \cup {slug}]
        /\ stale' = IF edit.slug # None /\ job.was # product[p].slug THEN stale \cup {p} ELSE stale

Start(a, request) ==
    /\ admin[a] = Idle /\ writes < MaxWrites
    /\ admin' = [admin EXCEPT ![a] = request]
    /\ writes' = writes + 1

Finish(a) == admin' = [admin EXCEPT ![a] = Idle]

(* The request is done, or the import it serves takes its next row.        *)
Proceed(a, rest) ==
    admin' = [admin EXCEPT ![a] = IF rest = <<>> THEN Idle ELSE [at |-> "import", rows |-> rest]]

rowsUnchanged == <<product, variant, redirect, links, borne, stale, raced>>

-----------------------------------------------------------------------------
(* The endpoints of admin/products.                                        *)

Create(a, edit) ==
    /\ edit.slug # None /\ edit.face # None
    /\ Start(a, Idle)
    /\ \E p \in Product : Insert(a, p, edit)

(* detail and assertSlugAvailable, before the transaction.                 *)
MayUpdate(p, edit) == Live(p) /\ (edit.slug \notin {None, product[p].slug} => SlugFree(edit.slug, p))

Update(p, edit, rest) ==
    [at |-> "update", id |-> p, was |-> product[p].slug, edit |-> edit, rows |-> rest]

BeginUpdate(a, p, edit) ==
    /\ MayUpdate(p, edit)
    /\ Start(a, Update(p, edit, <<>>))
    /\ UNCHANGED rowsUnchanged

(* The transaction up to its insert of links: it has locked the row of the *)
(* product, looked for a variant, and deleted the links it sees, which     *)
(* waits for another transaction that has deleted one of them.             *)
Transact(a) ==
    LET job == admin[a]
        seen == IF job.edit.mates = None THEN {} ELSE LinksOf(job.id)
    IN  /\ job.at = "update"
        /\ ~Locked(a, job.id) /\ ~LinksLocked(a, seen)
        /\ admin' = [admin EXCEPT ![a] =
                       [at |-> "rewrite", id |-> job.id, was |-> job.was, edit |-> job.edit,
                        rows |-> job.rows, seen |-> seen,
                        bare |-> job.edit.initial /\ LiveVariants(job.id) = {}]]
        /\ UNCHANGED rowsUnchanged /\ UNCHANGED writes

(* Its commit, or its rollback.                                            *)
EndUpdate(a) ==
    /\ admin[a].at = "rewrite"
    /\ Proceed(a, admin[a].rows) /\ UNCHANGED writes
    /\ Rewrite(a, admin[a]) \/ UNCHANGED rowsUnchanged

(* A copy takes the first free address in -copy, -copy-2, ...; its variants *)
(* keep their slugs, so only a product without variants can be copied.     *)
Duplicate(a, p) ==
    /\ Live(p) /\ \A v \in LiveVariants(p) : VariantSlugFree(variant[v].slug, None)
    /\ Start(a, Idle)
    /\ \E q \in Product, s \in Slug :
          /\ ~product[q].made /\ SlugFree(s, q)
          /\ product' = [product EXCEPT ![q] = [made |-> TRUE, live |-> TRUE, slug |-> s,
                                                face |-> Draft(product[p].face)]]
          /\ borne' = [borne EXCEPT ![q] = {s}]
    /\ UNCHANGED <<variant, redirect, links, stale, raced>>

Delete(a, p) ==
    /\ Live(p) /\ ~Locked(a, p) /\ Start(a, Idle)
    /\ product' = [product EXCEPT ![p].live = FALSE]
    /\ variant' = [v \in Variant |-> IF v \in LiveVariants(p)
                                     THEN [variant[v] EXCEPT !.live = FALSE] ELSE variant[v]]
    /\ UNCHANGED <<redirect, links, borne, stale, raced>>

(* createVariant (v = None), which names a slug, and updateVariant, up to  *)
(* updateMany: the rows it clears the default flag of are those it sees.   *)
BeginVariant(a, p, v, edit) ==
    /\ Live(p) /\ v \in LiveVariants(p) \cup {None}
    /\ v = None => edit.slug # None
    /\ edit.slug # None => \A w \in LiveVariants(p) \ {v} : variant[w].slug # edit.slug
    /\ Start(a, [at |-> "variant", id |-> p, row |-> v, edit |-> edit,
                 seen |-> IF edit.default = TRUE THEN {w \in Variant : variant[w].of = p} \ {v} ELSE {}])
    /\ UNCHANGED rowsUnchanged

Cleared(seen) ==
    [w \in Variant |-> IF w \in seen THEN [variant[w] EXCEPT !.default = FALSE] ELSE variant[w]]

(* The row as an update leaves it: what it does not name stays.            *)
Edited(row, edit) ==
    [row EXCEPT !.slug = IF edit.slug = None THEN @ ELSE edit.slug,
                !.default = IF edit.default = None THEN @ ELSE edit.default]

EndVariant(a) ==
    LET job == admin[a] IN
    /\ job.at = "variant"
    /\ Finish(a)
    /\ \/ /\ \/ /\ job.row = None /\ VariantSlugFree(job.edit.slug, None)
                /\ \E v \in Unused :
                      variant' = [Cleared(job.seen) EXCEPT ![v] =
                                    NewVariant(job.id, job.edit.slug, job.edit.default = TRUE)]
             \/ /\ job.row # None
                /\ LET row == Edited(variant[job.row], job.edit) IN
                   /\ row.live => VariantSlugFree(row.slug, job.row)
                   /\ variant' = [Cleared(job.seen) EXCEPT ![job.row] = row]
          /\ Overlap(a, job.id)
       \/ UNCHANGED <<variant, raced>>
    /\ UNCHANGED <<product, redirect, links, borne, stale, writes>>

DeleteVariant(a, v) ==
    /\ variant[v].live /\ Live(variant[v].of)
    /\ Start(a, Idle)
    /\ variant' = [variant EXCEPT ![v].live = FALSE, ![v].default = FALSE]
    /\ UNCHANGED <<product, redirect, links, borne, stale, raced>>

(* An import looks each row up by its slug, then updates or creates; a row *)
(* that fails is reported and the next one taken.                          *)
BeginImport(a, file) ==
    /\ Start(a, [at |-> "import", rows |-> file])
    /\ UNCHANGED rowsUnchanged

FindRow(a) ==
    /\ admin[a].at = "import" /\ admin[a].rows # <<>>
    /\ LET found == {p \in Product : Live(p) /\ product[p].slug = Head(admin[a].rows).slug}
       IN  \E p \in IF found = {} THEN {None} ELSE found :
              admin' = [admin EXCEPT ![a] = [at |-> "row", rows |-> admin[a].rows, id |-> p]]
    /\ UNCHANGED rowsUnchanged /\ UNCHANGED writes

(* The row of a product found is its update, like that of a form.          *)
ReadRow(a) ==
    LET job == admin[a]
        edit == Head(job.rows)
    IN  /\ job.at = "row" /\ job.id # None
        /\ \/ /\ MayUpdate(job.id, edit)
              /\ admin' = [admin EXCEPT ![a] = Update(job.id, edit, Tail(job.rows))]
           \/ ~MayUpdate(job.id, edit) /\ Proceed(a, Tail(job.rows))
        /\ UNCHANGED rowsUnchanged /\ UNCHANGED writes

WriteRow(a) ==
    LET job == admin[a] IN
    /\ job.at = "row" /\ job.id = None
    /\ Proceed(a, Tail(job.rows))
    /\ (\E p \in Product : Insert(a, p, Head(job.rows))) \/ UNCHANGED rowsUnchanged
    /\ UNCHANGED writes

CatalogueNext ==
    \E a \in Admin :
        \/ \E edit \in Edit : Create(a, edit)
        \/ \E p \in Product, edit \in Edit : BeginUpdate(a, p, edit)
        \/ Transact(a)
        \/ EndUpdate(a)
        \/ \E p \in Product : Duplicate(a, p)
        \/ \E p \in Product : Delete(a, p)
        \/ \E p \in Product, v \in Variant \cup {None}, edit \in VariantEdit :
              BeginVariant(a, p, v, edit)
        \/ EndVariant(a)
        \/ \E v \in Variant : DeleteVariant(a, v)
        \/ \E file \in File : BeginImport(a, file)
        \/ FindRow(a)
        \/ ReadRow(a)
        \/ WriteRow(a)

CatalogueSpec == CatalogueInit /\ [][CatalogueNext]_catalogueVars

-----------------------------------------------------------------------------
(* What the storefront answers for an address.                             *)

CategoryPath(c) == IF c \in OpenCategory THEN c ELSE None

Answer(action, target) == [action |-> action, target |-> target]

RouteForProduct(p) ==
    LET face == product[p].face
        target == CategoryPath(IF face.target = None THEN face.category ELSE face.target)
    IN  IF face.status = "ACTIVE" /\ Live(p) THEN Answer("ACTIVE", p)
        ELSE IF face.status = "DRAFT" /\ Live(p) THEN Answer("NOT_FOUND", None)
        ELSE IF face.offline = "GONE" THEN Answer("GONE", CategoryPath(face.category))
        ELSE IF face.offline \in {"301", "302"} /\ target # None THEN Answer(face.offline, target)
        ELSE Answer("NOT_FOUND", None)

(* Several removed products and a live one may have the same slug; the     *)
(* query names no order, so any of them may be the one found.              *)
Routes(s) ==
    LET found == {p \in Product : product[p].made /\ product[p].slug = s}
        target == redirect[s]
    IN  IF found # {} THEN {RouteForProduct(p) : p \in found}
        ELSE IF target = None THEN {Answer("NOT_FOUND", None)}
        ELSE IF Live(target) /\ product[target].face.status = "ACTIVE"
             THEN {Answer("MOVED", target)}
             ELSE {RouteForProduct(target)}
-----------------------------------------------------------------------------
(* Properties.                                                             *)

(* Rows and requests are of their types.                                   *)
CatalogueTypeOK ==
    /\ product \in [Product -> ProductRow]
    /\ \A p \in Product : product[p].made <=> product[p].slug # None
    /\ variant \in [Variant -> VariantRow]
    /\ redirect \in [Slug -> Product \cup {None}]
    /\ links \subseteq Product \X Product
    /\ admin \in [Admin -> Request]
    /\ borne \in [Product -> SUBSET Slug]
    /\ {stale, raced} \subseteq SUBSET Product
    /\ writes \in 0..MaxWrites

(* "Compatible with" goes both ways and never from a product to itself,    *)
(* whatever updates, copies and imports overlap, between the DELETE and the*)
(* INSERT of a transaction too: update takes out the links it sees of the  *)
(* product in both directions and puts both directions back.               *)
LinksGoBothWays ==
    \A l \in links : <<l[2], l[1]>> \in links /\ l[1] # l[2]

(* Every address a product on sale has ever had still leads to it, however *)
(* often it is renamed, and back: unless another product has had that      *)
(* address too, or two renames overlapped, and the redirect was written    *)
(* from a slug the product no longer had.                                  *)
OldSlugsLead ==
    \A p \in Product \ stale :
        Live(p) /\ product[p].face.status = "ACTIVE" =>
            \A s \in borne[p] :
                (\A q \in Product \ {p} : s \notin borne[q]) =>
                    Routes(s) = {Answer(IF s = product[p].slug THEN "ACTIVE" ELSE "MOVED", p)}

(* A product has two default variants, of which the card, the price filter *)
(* and the price sort all take the first, only after two writes of its     *)
(* variants overlapped: a write clears the flag of the rows it sees.       *)
OneDefault ==
    \A p \in Product \ raced :
        Cardinality({v \in LiveVariants(p) : variant[v].default}) <= 1

(* The rows of the catalogue: types, links in both directions and defaults.*)
CatalogueSound == CatalogueTypeOK /\ LinksGoBothWays /\ OneDefault

=============================================================================
