--------------------------- MODULE CatalogueProofs --------------------------
(***************************************************************************)
(* Proofs about what the shop offers, each component on its own: Catalogue,*)
(* StockAlerts, Categories, Shipping, Shopfront and ImportFile, which share*)
(* no state.                                                               *)
(*                                                                         *)
(* Catalogue: what holds of the rows is inductive once what a request in   *)
(* the middle of its writes has seen and may still rely on is said; the    *)
(* former slugs of a product lead to it because every slug it ever had is  *)
(* one it bears (borne), and only its own requests drop a redirect to it.  *)
(*                                                                         *)
(* Stock alerts: undisturbed, one check is under way at most, and where it *)
(* is tells what the flag and the mails of this dip are (CheckOK).         *)
(*                                                                         *)
(* Categories: a tile that no other request slipped under was counted, and *)
(* the count still holds as long as nobody wrote (CountHolds).             *)
(*                                                                         *)
(* Shipping: what a request was checked for still holds of the rows it is  *)
(* about, or it knows that they were written (UpdateFits, BandFits).       *)
(*                                                                         *)
(* Shopfront: as long as the shop has not changed since a request began,   *)
(* what it has found is what the shop gives now (UpToDate); a list is      *)
(* chosen from a set that can be put in order (RunsThrough), names its     *)
(* members once (Names), and the folds go through it item by item.         *)
(*                                                                         *)
(* Import: where the reader is after a cell, a record and a sheet (At).    *)
(***************************************************************************)
EXTENDS Catalogue, StockAlerts, ImportFile, Categories, Shipping, Shopfront, Sums, SequenceTheorems

-----------------------------------------------------------------------------
(* Products and their addresses: Catalogue.                                *)

AnyFace == Face \cup {Draft(face) : face \in Face}

RowsTypeOK ==
    /\ product \in [Product -> ProductRow]
    /\ \A p \in Product : product[p].made <=> product[p].slug # None
    /\ variant \in [Variant -> VariantRow]
    /\ redirect \in [Slug -> Product \cup {None}]
    /\ links \subseteq Product \X Product
    /\ borne \in [Product -> SUBSET Slug]
    /\ {stale, raced} \subseteq SUBSET Product

(* A product that was made has a face and has had the slug it has.         *)
ProductFits(p) ==
    /\ product[p].live => product[p].made
    /\ product[p].made => product[p].face \in AnyFace /\ product[p].slug \in borne[p]
    /\ ~product[p].made => borne[p] = {}

VariantFits(v) == variant[v].of # None => product[variant[v].of].made

OneDefaultOf(p) ==
    \A v, w \in LiveVariants(p) : variant[v].default /\ variant[w].default => v = w

(* A slug that the product has left, and no other product has had, leads   *)
(* to the product.                                                         *)
Leads(p, s) ==
    s \in borne[p] /\ s # product[p].slug /\ (\A q \in Product \ {p} : s \notin borne[q]) =>
        redirect[s] = p

RowsInv ==
    /\ RowsTypeOK
    /\ \A p \in Product : ProductFits(p)
    /\ \A v \in Variant : VariantFits(v)
    /\ LinksGoBothWays
    /\ \A p \in Product \ raced : OneDefaultOf(p)
    /\ \A p \in Product \ stale : \A s \in Slug : Leads(p, s)

(* The default variants of the product other than the one it writes are    *)
(* among those the request clears.                                         *)
SeesDefaults(job) ==
    \A w \in LiveVariants(job.id) \ {job.row} : variant[w].default => w \in job.seen

(* An update that found no variant finds no default one.                   *)
NoDefault(p) == \A w \in LiveVariants(p) : ~variant[w].default

JobFits(job) ==
    /\ job.at \in {"update", "rewrite"} => product[job.id].made /\ job.was \in borne[job.id]
    /\ job.at = "rewrite" => \A l \in job.seen : <<l[2], l[1]>> \in job.seen
    /\ job.at = "rewrite" /\ job.bare => job.id \in raced \/ NoDefault(job.id)
    /\ job.at = "variant" => product[job.id].made
    /\ job.at = "variant" /\ job.row # None => variant[job.row].of = job.id
    /\ job.at = "variant" /\ job.edit.default = TRUE => job.id \in raced \/ SeesDefaults(job)

CatalogueInv ==
    /\ RowsInv
    /\ admin \in [Admin -> Request]
    /\ \A a \in Admin : JobFits(admin[a])
    /\ writes \in 0..MaxWrites

LEMMA CatalogueInitInv == CatalogueInit => CatalogueInv
<1> SUFFICES ASSUME CatalogueInit PROVE CatalogueInv
  OBVIOUS
<1>1. RowsTypeOK
  BY DEF CatalogueInit, RowsTypeOK, ProductRow, VariantRow
<1>2. (\A p \in Product : ProductFits(p)) /\ (\A v \in Variant : VariantFits(v))
  BY DEF CatalogueInit, ProductFits, VariantFits
<1>3. LinksGoBothWays
  BY DEF CatalogueInit, LinksGoBothWays
<1>4. \A p \in Product : OneDefaultOf(p)
  BY DEF CatalogueInit, OneDefaultOf, LiveVariants
<1>5. \A p \in Product : \A s \in Slug : Leads(p, s)
  BY DEF CatalogueInit, Leads
<1>6. admin \in [Admin -> Request] /\ \A a \in Admin : JobFits(admin[a])
  BY DEF CatalogueInit, Request, JobFits, Idle
<1>7. writes \in 0..MaxWrites
  BY BoundAssumption DEF CatalogueInit
<1> QED
  BY <1>1, <1>2, <1>3, <1>4, <1>5, <1>6, <1>7 DEF CatalogueInv, RowsInv

(* The body of an update is what a form or a file may ask.                 *)
LEMMA AskedIsDto ==
    ASSUME NEW edit \in Asked
    PROVE  ProductDto(edit)
<1>1. CASE edit \in Edit
  BY <1>1, EditAssumption
<1>2. CASE \E file \in File : \E i \in DOMAIN file : edit = file[i]
  <2>1. PICK file \in File : \E i \in DOMAIN file : edit = file[i]
    BY <1>2
  <2>2. \A i \in DOMAIN file : ImportedDto(file[i])
    BY FileAssumption
  <2> QED
    BY <2>1, <2>2 DEF ImportedDto
<1>3. edit \in Edit \/ \E file \in File : \E i \in DOMAIN file : edit = file[i]
  BY DEF Asked
<1> QED
  BY <1>1, <1>2, <1>3

(* What is left of a file: its first row is a row of the file, and without *)
(* it something of the file is left.                                       *)
LEMMA RestOfFile ==
    ASSUME NEW remaining \in Rest, remaining # <<>>
    PROVE  /\ ImportedDto(Head(remaining)) /\ Head(remaining) \in Asked
           /\ Tail(remaining) \in Rest
<1>1. PICK file \in File : \E i \in 1..(Len(file) + 1) : remaining = SubSeq(file, i, Len(file))
  BY DEF Rest
<1>2. PICK i \in 1..(Len(file) + 1) : remaining = SubSeq(file, i, Len(file))
  BY <1>1
<1> DEFINE Row == {file[j] : j \in DOMAIN file}
<1>3. file \in Seq(Row) /\ \A j \in DOMAIN file : ImportedDto(file[j])
  BY FileAssumption
<1> HIDE DEF Row
<1>4. Len(file) \in Nat /\ DOMAIN file = 1..Len(file) /\ i \in Nat \ {0} /\ i <= Len(file) + 1
  BY <1>3
<1>5. remaining \in Seq(Row) /\ Len(remaining) = Len(file) - i + 1
      /\ \A j \in 1..Len(remaining) : remaining[j] = file[i + j - 1]
  BY <1>2, <1>3, <1>4
<1>6. i <= Len(file)
  BY <1>4, <1>5
<1>7. Head(remaining) = file[i]
  BY <1>4, <1>5, <1>6
<1>8. Tail(remaining) = SubSeq(file, i + 1, Len(file))
  BY <1>2, <1>3, <1>4, <1>5, <1>6
<1>9. i + 1 \in 1..(Len(file) + 1) /\ i \in DOMAIN file
  BY <1>4, <1>6
<1>10. Tail(remaining) \in {SubSeq(file, k, Len(file)) : k \in 1..(Len(file) + 1)}
  BY <1>8, <1>9
<1>11. Tail(remaining) \in Rest
  BY <1>10 DEF Rest
<1>12. ImportedDto(Head(remaining)) /\ Head(remaining) \in Asked
  BY <1>3, <1>7, <1>9 DEF Asked
<1> QED
  BY <1>11, <1>12

(* A step that makes or changes the request of one administrator.          *)
LEMMA RequestsKeep ==
    ASSUME CatalogueInv, NEW a \in Admin, NEW new \in Request, admin' = [admin EXCEPT ![a] = new],
           RowsInv', writes' \in 0..MaxWrites, JobFits(new)',
           \A b \in Admin \ {a} : \A job \in Request : job = admin[b] /\ JobFits(job) => JobFits(job)'
    PROVE  CatalogueInv'
<1>1. admin \in [Admin -> Request] /\ \A b \in Admin : JobFits(admin[b])
  BY DEF CatalogueInv
<1>2. admin' \in [Admin -> Request]
  BY <1>1
<1>3. ASSUME NEW b \in Admin PROVE JobFits(admin[b])'
  <2>1. CASE b = a
    <3>1. admin'[b] = new
      BY <1>1, <2>1
    <3> QED
      BY <3>1 DEF JobFits, SeesDefaults, NoDefault, LiveVariants
  <2>2. CASE b # a
    <3>1. admin'[b] = admin[b] /\ admin[b] \in Request
      BY <1>1, <2>2
    <3>2. \A job \in Request : job = admin[b] => JobFits(job)'
      BY <1>1, <2>2
    <3> QED
      BY <3>1, <3>2 DEF JobFits, SeesDefaults, NoDefault, LiveVariants
  <2> QED
    BY <2>1, <2>2
<1> QED
  BY <1>2, <1>3 DEF CatalogueInv

LEMMA IdleFits == Idle \in Request /\ JobFits(Idle) /\ JobFits(Idle)'
BY DEF Idle, Request, JobFits

(* What a request relies on stays when products only come or are renamed,  *)
(* variants keep their product, and the product's default variants only go.*)
LEMMA JobsStay ==
    ASSUME NEW job \in Request, JobFits(job),
           \A p \in Product : /\ product[p].made => product'[p].made
                              /\ borne[p] \subseteq borne'[p],
           \A v \in Variant : variant[v].of # None => variant'[v].of = variant[v].of,
           WritesVariants(job, job.id) =>
               \/ job.id \in raced'
               \/ job.id \notin raced /\
                  \A w \in LiveVariants(job.id)' :
                     variant'[w].default => w \in LiveVariants(job.id) /\ variant[w].default
    PROVE  JobFits(job)'
<1>1. job.at \in {"update", "rewrite", "variant"} => job.id \in Product
  BY DEF Request, Idle
<1>2. job.at = "variant" => job.row \in Variant \cup {None} /\ None \notin Product
  BY NullAssumption DEF Request, Idle
<1>3. job.at \in {"update", "rewrite"} => product'[job.id].made /\ job.was \in borne'[job.id]
  BY <1>1 DEF JobFits
<1>4. job.at = "variant" => product'[job.id].made
  BY <1>1 DEF JobFits
<1>5. job.at = "variant" /\ job.row # None => variant'[job.row].of = job.id
  BY <1>1, <1>2 DEF JobFits
<1>6. job.at = "variant" /\ job.edit.default = TRUE => job.id \in raced' \/ SeesDefaults(job)'
  <2> SUFFICES ASSUME job.at = "variant", job.edit.default = TRUE, job.id \notin raced'
               PROVE  SeesDefaults(job)'
    OBVIOUS
  <2>1. SeesDefaults(job)
    BY DEF JobFits, WritesVariants
  <2> QED
    BY <2>1 DEF SeesDefaults, WritesVariants
<1>7. job.at = "rewrite" /\ job.bare => job.id \in raced' \/ NoDefault(job.id)'
  <2> SUFFICES ASSUME job.at = "rewrite", job.bare, job.id \notin raced'
               PROVE  NoDefault(job.id)'
    OBVIOUS
  <2>1. NoDefault(job.id)
    BY DEF JobFits, WritesVariants
  <2> QED
    BY <2>1 DEF NoDefault, WritesVariants
<1> QED
  BY <1>3, <1>4, <1>5, <1>6, <1>7 DEF JobFits

(* A new product.                                                          *)
LEMMA MakingKeepsRows ==
    ASSUME RowsInv, NEW p \in Product, NEW s \in Slug, NEW face \in AnyFace, ~product[p].made,
           product' = [product EXCEPT ![p] = [made |-> TRUE, live |-> TRUE, slug |-> s, face |-> face]],
           borne' = [borne EXCEPT ![p] = {s}], UNCHANGED <<redirect, stale>>
    PROVE  /\ product' \in [Product -> ProductRow]
           /\ borne' \in [Product -> SUBSET Slug]
           /\ \A q \in Product : product'[q].made <=> product'[q].slug # None
           /\ \A q \in Product : ProductFits(q)'
           /\ \A q \in Product : /\ product[q].made => product'[q].made
                                 /\ borne[q] \subseteq borne'[q]
           /\ \A q \in Product \ stale' : \A t \in Slug : Leads(q, t)'
<1> DEFINE row == [made |-> TRUE, live |-> TRUE, slug |-> s, face |-> face]
<1>1. RowsTypeOK /\ \A q \in Product : ProductFits(q)
  BY DEF RowsInv
<1>2. row \in ProductRow /\ row.made /\ row.live /\ row.slug = s /\ row.face = face /\ s # None
  BY NullAssumption DEF ProductRow, AnyFace
<1> HIDE DEF row
<1>3. /\ product' = [product EXCEPT ![p] = row]
      /\ product'[p] = row /\ \A q \in Product \ {p} : product'[q] = product[q]
      /\ borne'[p] = {s} /\ \A q \in Product \ {p} : borne'[q] = borne[q]
  BY <1>1 DEF RowsTypeOK, row
<1>4. product' \in [Product -> ProductRow] /\ borne' \in [Product -> SUBSET Slug]
  <2>1. product \in [Product -> ProductRow] /\ borne \in [Product -> SUBSET Slug]
    BY <1>1 DEF RowsTypeOK
  <2>2. product' \in [Product -> ProductRow]
    BY ONLY p \in Product, <1>2, <1>3, <2>1
  <2> QED
    BY <2>1, <2>2
<1>5. \A q \in Product : product'[q].made <=> product'[q].slug # None
  BY <1>1, <1>2, <1>3 DEF RowsTypeOK
<1>6. ASSUME NEW q \in Product PROVE ProductFits(q)'
  <2>1. CASE q = p
    BY <1>2, <1>3, <2>1 DEF ProductFits
  <2>2. CASE q # p
    BY <1>1, <1>3, <2>2 DEF ProductFits
  <2> QED
    BY <2>1, <2>2
<1>7. borne[p] = {}
  BY <1>1 DEF ProductFits
<1>8. \A q \in Product : (product[q].made => product'[q].made) /\ borne[q] \subseteq borne'[q]
  BY <1>2, <1>3, <1>7
<1>9. ASSUME NEW q \in Product \ stale', NEW t \in Slug PROVE Leads(q, t)'
  <2>1. CASE q = p
    BY <1>2, <1>3, <2>1 DEF Leads
  <2>2. CASE q # p
    BY <1>3, <1>8, <2>2 DEF RowsInv, Leads
  <2> QED
    BY <2>1, <2>2
<1> QED
  BY <1>4, <1>5, <1>6, <1>8, <1>9

(* A new default variant of a product.                                     *)
LEMMA FirstVariantKeepsRows ==
    ASSUME RowsInv, NEW p \in Product, NEW v \in Unused,
           variant' = [variant EXCEPT ![v] = NewVariant(p, DefaultSlug, TRUE)]
    PROVE  /\ variant' \in [Variant -> VariantRow]
           /\ \A w \in Variant : variant[w].of # None => variant'[w].of = variant[w].of
           /\ \A w \in Variant : variant'[w].of \in {variant[w].of, p}
           /\ NoDefault(p) => OneDefaultOf(p)'
           /\ \A q \in Product \ {p} : /\ LiveVariants(q)' = LiveVariants(q)
                                       /\ \A w \in LiveVariants(q) : variant'[w] = variant[w]
<1>1. RowsTypeOK
  BY DEF RowsInv
<1>2. /\ v \in Variant /\ variant[v].of = None
      /\ NewVariant(p, DefaultSlug, TRUE) \in VariantRow /\ NewVariant(p, DefaultSlug, TRUE).of = p
  BY NullAssumption DEF Unused, NewVariant, VariantRow
<1>3. /\ variant'[v] = NewVariant(p, DefaultSlug, TRUE)
      /\ \A w \in Variant \ {v} : variant'[w] = variant[w]
  BY <1>1, <1>2 DEF RowsTypeOK
<1>4. variant' \in [Variant -> VariantRow]
  BY <1>1, <1>2 DEF RowsTypeOK
<1>5. NoDefault(p) => \A w \in LiveVariants(p)' : variant'[w].default => w = v
  BY <1>3 DEF LiveVariants, NoDefault
<1>6. NoDefault(p) => OneDefaultOf(p)'
  BY <1>5 DEF OneDefaultOf
<1>7. ASSUME NEW q \in Product \ {p}
      PROVE  LiveVariants(q)' = LiveVariants(q) /\ v \notin LiveVariants(q)
  BY <1>2, <1>3, NullAssumption DEF LiveVariants
<1>8. \A q \in Product \ {p} : \A w \in LiveVariants(q) : variant'[w] = variant[w]
  BY <1>3, <1>7 DEF LiveVariants
<1> QED
  BY <1>2, <1>3, <1>4, <1>6, <1>7, <1>8

LEMMA PairsGoBothWays ==
    ASSUME RowsInv, NEW p \in Product, NEW mates \in SUBSET Product, p \notin mates,
           NEW kept \in SUBSET links, \A l \in kept : <<l[2], l[1]>> \in kept,
           NEW all, all = kept \cup Pairs(p, mates)
    PROVE  /\ all \subseteq Product \X Product
           /\ \A l \in all : <<l[2], l[1]>> \in all /\ l[1] # l[2]
<1>1. links \subseteq Product \X Product /\ \A l \in links : l[1] # l[2]
  BY DEF RowsInv, RowsTypeOK, LinksGoBothWays
<1>2. /\ Pairs(p, mates) \subseteq Product \X Product
      /\ \A l \in Pairs(p, mates) : <<l[2], l[1]>> \in Pairs(p, mates) /\ l[1] # l[2]
  BY DEF Pairs
<1> QED
  BY <1>1, <1>2

LEMMA InsertKeepsRows ==
    ASSUME RowsInv, NEW a \in Admin, NEW p \in Product, NEW edit, ProductDto(edit),
           edit.slug # None, edit.face # None, Insert(a, p, edit)
    PROVE  /\ RowsInv'
           /\ \A job \in Request : JobFits(job) => JobFits(job)'
<1>1. RowsTypeOK /\ (\A q \in Product : ProductFits(q)) /\ (\A v \in Variant : VariantFits(v))
  BY DEF RowsInv
<1>2. edit.slug \in Slug /\ edit.face \in AnyFace /\ edit.mates \in (SUBSET Product) \cup {None}
  BY DEF ProductDto, AnyFace
<1>3. /\ ~product[p].made /\ UNCHANGED <<redirect, stale, raced>>
      /\ product' = [product EXCEPT ![p] = [made |-> TRUE, live |-> TRUE, slug |-> edit.slug,
                                            face |-> edit.face]]
      /\ borne' = [borne EXCEPT ![p] = {edit.slug}]
  BY DEF Insert
<1>4. /\ product' \in [Product -> ProductRow] /\ borne' \in [Product -> SUBSET Slug]
      /\ \A q \in Product : product'[q].made <=> product'[q].slug # None
      /\ \A q \in Product : ProductFits(q)'
      /\ \A q \in Product : (product[q].made => product'[q].made) /\ borne[q] \subseteq borne'[q]
      /\ \A q \in Product \ stale' : \A t \in Slug : Leads(q, t)'
  BY <1>2, <1>3, MakingKeepsRows
<1>5. product'[p].made
  BY <1>1, <1>3 DEF RowsTypeOK
<1>6. LiveVariants(p) = {}
  BY <1>1, <1>3, NullAssumption DEF LiveVariants, VariantFits
<1>7. \/ UNCHANGED variant
      \/ \E v \in Unused : variant' = [variant EXCEPT ![v] = NewVariant(p, DefaultSlug, TRUE)]
  BY DEF Insert
<1>8. /\ variant' \in [Variant -> VariantRow]
      /\ \A w \in Variant : variant[w].of # None => variant'[w].of = variant[w].of
      /\ \A w \in Variant : variant'[w].of \in {variant[w].of, p}
      /\ \A q \in Product \ {p} : /\ LiveVariants(q)' = LiveVariants(q)
                                  /\ \A w \in LiveVariants(q) : variant'[w] = variant[w]
      /\ OneDefaultOf(p)'
  <2>1. CASE UNCHANGED variant
    BY <1>1, <1>6, <2>1 DEF RowsTypeOK, LiveVariants, OneDefaultOf
  <2>2. CASE \E v \in Unused : variant' = [variant EXCEPT ![v] = NewVariant(p, DefaultSlug, TRUE)]
    BY <1>6, <2>2, FirstVariantKeepsRows DEF NoDefault
  <2> QED
    BY <1>7, <2>1, <2>2
<1>9. \A w \in Variant : VariantFits(w)'
  BY <1>1, <1>4, <1>5, <1>8 DEF VariantFits, RowsTypeOK, VariantRow
<1>10. \A q \in Product \ raced' : OneDefaultOf(q)'
  BY <1>3, <1>8 DEF RowsInv, OneDefaultOf
<1>11. links' \subseteq Product \X Product /\ LinksGoBothWays'
  <2>1. CASE edit.mates = None
    BY <2>1, <1>1 DEF Insert, RowsInv, RowsTypeOK, LinksGoBothWays
  <2>2. CASE edit.mates # None
    <3>1. edit.mates \in SUBSET Product /\ p \notin edit.mates /\ links' = links \cup Pairs(p, edit.mates)
      BY <1>2, <1>3, <2>2 DEF Insert, Exist
    <3>2. \A l \in links : <<l[2], l[1]>> \in links
      BY DEF RowsInv, LinksGoBothWays
    <3>3. /\ links' \subseteq Product \X Product
          /\ \A l \in links' : <<l[2], l[1]>> \in links' /\ l[1] # l[2]
      BY ONLY RowsInv, p \in Product, <3>1, <3>2, PairsGoBothWays
    <3> QED
      BY <3>3 DEF LinksGoBothWays
  <2> QED
    BY <2>1, <2>2
<1>12. RowsTypeOK'
  BY <1>1, <1>3, <1>4, <1>8, <1>11 DEF RowsTypeOK
<1>13. RowsInv'
  BY <1>4, <1>9, <1>10, <1>11, <1>12 DEF RowsInv
<1>14. ASSUME NEW job \in Request, JobFits(job) PROVE JobFits(job)'
  <2>1. WritesVariants(job, job.id) => job.id \in Product \ {p}
    BY <1>3, <1>14 DEF JobFits, Request, Idle, WritesVariants
  <2>2. WritesVariants(job, job.id) =>
           \/ job.id \in raced'
           \/ job.id \notin raced /\
              \A w \in LiveVariants(job.id)' :
                 variant'[w].default => w \in LiveVariants(job.id) /\ variant[w].default
    BY <1>3, <1>8, <2>1
  <2> QED
    BY <1>4, <1>8, <1>14, <2>2, JobsStay
<1> QED
  BY <1>13, <1>14

(* The redirect is left at a slug the product has had, so that it takes no *)
(* other product's slug, and from the slug the product has when it is not  *)
(* stale.                                                                  *)
LEMMA RenamingKeepsLeads ==
    ASSUME RowsInv, NEW p \in Product, NEW was \in borne[p], NEW asked \in Slug \cup {None},
           NEW slug, slug = IF asked = None THEN product[p].slug ELSE asked, product[p].made,
           redirect' = Forwarded(p, was, asked),
           product'[p].slug = slug, \A q \in Product \ {p} : product'[q].slug = product[q].slug,
           borne' = [borne EXCEPT ![p] = @ \cup {slug}],
           stale' = IF asked # None /\ was # product[p].slug THEN stale \cup {p} ELSE stale
    PROVE  \A q \in Product \ stale' : \A s \in Slug : Leads(q, s)'
<1>1. RowsTypeOK /\ ProductFits(p)
  BY DEF RowsInv
<1>2. /\ borne'[p] = borne[p] \cup {slug} /\ \A q \in Product \ {p} : borne'[q] = borne[q]
      /\ was \in Slug /\ product[p].slug \in borne[p]
  BY <1>1 DEF RowsTypeOK, ProductFits
<1>3. ASSUME NEW q \in Product \ stale', NEW s \in Slug,
             s \in borne'[q], s # product'[q].slug, \A r \in Product \ {q} : s \notin borne'[r]
      PROVE  redirect'[s] = q
  <2>1. q \notin stale /\ \A r \in Product \ {q} : s \notin borne[r]
    BY <1>2, <1>3
  <2>2. CASE q # p
    <3>1. s \in borne[q] /\ s # product[q].slug /\ s # was
      BY <1>2, <1>3, <2>2
    <3>2. redirect[s] = q
      BY <2>1, <3>1 DEF RowsInv, Leads
    <3> QED
      BY <1>1, <1>2, <3>1, <3>2 DEF Forwarded, RowsTypeOK
  <2>3. CASE q = p /\ asked = None
    <3>1. s \in borne[p] /\ s # product[p].slug /\ redirect' = redirect
      BY <1>2, <1>3, <2>3 DEF Forwarded
    <3> QED
      BY <2>1, <2>3, <3>1 DEF RowsInv, Leads
  <2>4. CASE q = p /\ asked # None
    <3>1. was = product[p].slug /\ s \in borne[p] /\ s # asked
      BY <1>2, <1>3, <2>4
    <3>2. CASE s = was
      BY <1>1, <1>2, <2>4, <3>1, <3>2 DEF Forwarded, RowsTypeOK
    <3>3. CASE s # was
      <4>1. redirect[s] = p
        BY <2>1, <2>4, <3>1, <3>3 DEF RowsInv, Leads
      <4> QED
        BY <1>1, <1>2, <2>4, <3>3, <4>1 DEF Forwarded, RowsTypeOK
    <3> QED
      BY <3>2, <3>3
  <2> QED
    BY <2>2, <2>3, <2>4
<1> QED
  BY <1>3 DEF Leads

LEMMA RewriteKeepsRows ==
    ASSUME RowsInv, NEW a \in Admin, NEW own \in Request, own.at = "rewrite", JobFits(own),
           Rewrite(a, own)
    PROVE  /\ RowsInv'
           /\ \A b \in Admin \ {a} : \A job \in Request : job = admin[b] /\ JobFits(job) => JobFits(job)'
<1> DEFINE p == own.id
           was == own.was
           edit == own.edit
           slug == IF edit.slug = None THEN product[p].slug ELSE edit.slug
           face == IF edit.face = None THEN product[p].face ELSE edit.face
           pairs == IF edit.mates = None THEN {} ELSE Pairs(p, edit.mates)
<1>1. RowsTypeOK /\ (\A q \in Product : ProductFits(q)) /\ (\A v \in Variant : VariantFits(v))
  BY DEF RowsInv
<1>0. /\ p \in Product /\ product[p].made /\ was \in borne[p] /\ ProductDto(edit)
      /\ own.bare \in BOOLEAN /\ (own.bare => p \in raced \/ NoDefault(p))
      /\ \A l \in own.seen : <<l[2], l[1]>> \in own.seen
  BY AskedIsDto DEF Request, Idle, JobFits
<1>2. /\ edit.slug \in Slug \cup {None} /\ edit.face \in Face \cup {None}
      /\ edit.mates \in (SUBSET Product) \cup {None}
  BY <1>0 DEF ProductDto
<1>3. slug \in Slug /\ face \in AnyFace /\ slug # None
  BY <1>0, <1>1, <1>2, NullAssumption DEF RowsTypeOK, ProductRow, ProductFits, AnyFace
<1>4. /\ redirect' = Forwarded(p, was, edit.slug)
      /\ product' = [product EXCEPT ![p].slug = slug, ![p].face = face]
      /\ borne' = [borne EXCEPT ![p] = @ \cup {slug}]
      /\ stale' = IF edit.slug # None /\ was # product[p].slug THEN stale \cup {p} ELSE stale
  BY DEF Rewrite
<1>5. Exist(edit.mates) /\ (edit.mates # None => p \notin edit.mates)
      /\ links' = (links \ own.seen) \cup pairs
  BY DEF Rewrite
<1>6. \/ (UNCHANGED <<variant, raced>>)
      \/ /\ own.bare /\ Overlap(a, p)
         /\ \E v \in Unused : variant' = [variant EXCEPT ![v] = NewVariant(p, DefaultSlug, TRUE)]
  BY DEF Rewrite
<1>7. \A q \in Product \ stale' : \A s \in Slug : Leads(q, s)'
  <2>1. product'[p].slug = slug /\ \A q \in Product \ {p} : product'[q].slug = product[q].slug
    BY <1>0, <1>1, <1>4 DEF RowsTypeOK, ProductRow
  <2> QED
    BY <1>0, <1>2, <1>4, <2>1, RenamingKeepsLeads
<1> HIDE DEF slug, face, p, was, edit, pairs
<1>8. /\ product' \in [Product -> ProductRow] /\ product'[p].slug = slug /\ product'[p].face = face
      /\ product'[p].made = product[p].made /\ product'[p].live = product[p].live
      /\ \A q \in Product \ {p} : product'[q] = product[q]
  BY <1>0, <1>1, <1>3, <1>4 DEF RowsTypeOK, ProductRow, AnyFace
<1>9. /\ borne' \in [Product -> SUBSET Slug] /\ borne'[p] = borne[p] \cup {slug}
      /\ \A q \in Product \ {p} : borne'[q] = borne[q]
  BY <1>0, <1>1, <1>3, <1>4 DEF RowsTypeOK
<1>10. \A q \in Product : (product[q].made => product'[q].made) /\ borne[q] \subseteq borne'[q]
  BY <1>8, <1>9
<1>11. \A q \in Product : ProductFits(q)' /\ (product'[q].made <=> product'[q].slug # None)
  BY <1>0, <1>1, <1>3, <1>8, <1>9 DEF ProductFits, RowsTypeOK
<1>12. redirect' \in [Slug -> Product \cup {None}]
  BY <1>0, <1>1, <1>4 DEF Forwarded, RowsTypeOK
<1>13. /\ variant' \in [Variant -> VariantRow]
       /\ \A w \in Variant : variant[w].of # None => variant'[w].of = variant[w].of
       /\ \A w \in Variant : variant'[w].of \in {variant[w].of, p}
       /\ \A q \in Product \ {p} : /\ LiveVariants(q)' = LiveVariants(q)
                                   /\ \A w \in LiveVariants(q) : variant'[w] = variant[w]
       /\ raced \subseteq raced' /\ raced' \subseteq Product
       /\ p \notin raced' => OneDefaultOf(p)'
       /\ UNCHANGED <<variant, raced>> \/ Overlap(a, p)
  <2>1. CASE UNCHANGED <<variant, raced>>
    BY <1>0, <1>1, <2>1 DEF RowsInv, RowsTypeOK, LiveVariants, OneDefaultOf
  <2>2. CASE /\ own.bare /\ Overlap(a, p)
             /\ \E v \in Unused : variant' = [variant EXCEPT ![v] = NewVariant(p, DefaultSlug, TRUE)]
    <3>1. raced \subseteq raced' /\ raced' \subseteq Product
      BY <1>0, <1>1, <2>2 DEF Overlap, RowsTypeOK
    <3>2. p \notin raced' => NoDefault(p)
      BY <1>0, <2>2, <3>1
    <3> QED
      BY <1>0, <2>2, <3>1, <3>2, FirstVariantKeepsRows
  <2> QED
    BY <1>6, <2>1, <2>2
<1>14. \A w \in Variant : VariantFits(w)'
  BY <1>0, <1>1, <1>8, <1>10, <1>13 DEF VariantFits, RowsTypeOK, VariantRow
<1>15. \A q \in Product \ raced' : OneDefaultOf(q)'
  BY <1>13 DEF RowsInv, OneDefaultOf
<1>16. links' \subseteq Product \X Product /\ LinksGoBothWays'
  <2> DEFINE kept == links \ own.seen
  <2>1. kept \in SUBSET links /\ links' = kept \cup pairs
    BY <1>5
  <2>2. ASSUME NEW l \in kept PROVE <<l[2], l[1]>> \in kept
    <3>1. l \in Product \X Product /\ <<l[2], l[1]>> \in links
      BY <1>1 DEF RowsInv, RowsTypeOK, LinksGoBothWays
    <3>2. <<l[2], l[1]>> \notin own.seen
      <4>1. <<l[2], l[1]>>[1] = l[2] /\ <<l[2], l[1]>>[2] = l[1] /\ <<l[1], l[2]>> = l
        BY <3>1
      <4>2. <<l[2], l[1]>> \in own.seen => <<<<l[2], l[1]>>[2], <<l[2], l[1]>>[1]>> \in own.seen
        BY <1>0
      <4> QED
        BY <4>1, <4>2
    <3> QED
      BY <3>1, <3>2
  <2> HIDE DEF kept
  <2>3. CASE edit.mates = None
    <3>1. pairs = {}
      BY <2>3 DEF pairs
    <3> QED
      BY <1>1, <2>1, <2>2, <3>1 DEF RowsInv, RowsTypeOK, LinksGoBothWays
  <2>4. CASE edit.mates # None
    <3>1. edit.mates \in SUBSET Product /\ p \notin edit.mates /\ pairs = Pairs(p, edit.mates)
      BY <1>2, <1>5, <2>4 DEF pairs
    <3>2. /\ links' \subseteq Product \X Product
          /\ \A l \in links' : <<l[2], l[1]>> \in links' /\ l[1] # l[2]
      BY ONLY RowsInv, <1>0, <2>1, <2>2, <3>1, PairsGoBothWays
    <3> QED
      BY <3>2 DEF LinksGoBothWays
  <2> QED
    BY <2>3, <2>4
<1>17. stale' \subseteq Product
  BY <1>0, <1>1, <1>4 DEF RowsTypeOK
<1>18. RowsTypeOK'
  BY <1>8, <1>9, <1>11, <1>12, <1>13, <1>16, <1>17 DEF RowsTypeOK
<1>19. RowsInv'
  BY <1>7, <1>11, <1>14, <1>15, <1>16, <1>18 DEF RowsInv
<1>20. ASSUME NEW b \in Admin \ {a}, NEW job \in Request, job = admin[b], JobFits(job)
       PROVE  JobFits(job)'
  <2>1. WritesVariants(job, job.id) => job.id \in Product
    BY <1>20 DEF Request, Idle, WritesVariants
  <2>2. WritesVariants(job, job.id) =>
           \/ job.id \in raced'
           \/ job.id \notin raced /\
              \A w \in LiveVariants(job.id)' :
                 variant'[w].default => w \in LiveVariants(job.id) /\ variant[w].default
    <3> SUFFICES ASSUME WritesVariants(job, job.id), job.id \notin raced'
                 PROVE  /\ job.id \notin raced
                        /\ \A w \in LiveVariants(job.id)' :
                              variant'[w].default => w \in LiveVariants(job.id) /\ variant[w].default
      OBVIOUS
    <3>1. job.id \notin raced
      BY <1>13
    <3>2. CASE job.id # p
      BY <1>13, <2>1, <3>1, <3>2
    <3>3. CASE job.id = p
      <4>1. UNCHANGED <<variant, raced>>
        BY <1>13, <1>20, <3>3 DEF Overlap
      <4> QED
        BY <1>13, <3>1, <4>1 DEF LiveVariants
    <3> QED
      BY <3>2, <3>3
  <2> QED
    BY <1>10, <1>13, <1>20, <2>2, JobsStay
<1> QED
  BY <1>19, <1>20

LEMMA StartIs ==
    ASSUME CatalogueInv, NEW a \in Admin, NEW new, Start(a, new)
    PROVE  admin[a] = Idle /\ admin' = [admin EXCEPT ![a] = new] /\ writes' \in 0..MaxWrites
BY BoundAssumption DEF CatalogueInv, Start

LEMMA RowsUnchangedKeep ==
    ASSUME RowsInv, UNCHANGED rowsUnchanged
    PROVE  RowsInv' /\ \A job \in Request : JobFits(job) => JobFits(job)'
BY DEF rowsUnchanged, RowsInv, RowsTypeOK, ProductFits, VariantFits, LinksGoBothWays, OneDefaultOf,
       LiveVariants, Leads, JobFits, SeesDefaults, NoDefault

(* After a row of a file the import goes on, or is done.                   *)
LEMMA ProceedIs ==
    ASSUME NEW a, NEW rest \in Rest, Proceed(a, rest)
    PROVE  \E left \in Request : /\ admin' = [admin EXCEPT ![a] = left]
                                 /\ JobFits(left) /\ JobFits(left)'
<1>1. CASE rest = <<>>
  BY <1>1, IdleFits DEF Proceed
<1>2. CASE rest # <<>>
  <2> DEFINE left == [at |-> "import", rows |-> rest]
  <2>1. left \in Request /\ left.at = "import"
    BY DEF Request
  <2>2. admin' = [admin EXCEPT ![a] = left]
    BY <1>2 DEF Proceed
  <2> HIDE DEF left
  <2> QED
    BY <2>1, <2>2 DEF JobFits
<1> QED
  BY <1>1, <1>2

(* What an update has read fits the product it may change.                 *)
LEMMA UpdateFitsRow ==
    ASSUME RowsInv, NEW p \in Product, NEW edit \in Asked, NEW rest \in Rest, MayUpdate(p, edit)
    PROVE  Update(p, edit, rest) \in Request /\ JobFits(Update(p, edit, rest))
<1>1. product[p].made /\ product[p].slug \in Slug /\ product[p].slug \in borne[p]
  BY NullAssumption DEF MayUpdate, RowsInv, RowsTypeOK, ProductRow, ProductFits, Live
<1> QED
  BY <1>1 DEF Update, Request, JobFits

LEMMA CreateKeeps ==
    ASSUME CatalogueInv, NEW a \in Admin, NEW edit \in Edit, Create(a, edit)
    PROVE  CatalogueInv'
<1>1. PICK p \in Product : Insert(a, p, edit)
  BY DEF Create
<1>2. /\ ProductDto(edit) /\ edit.slug # None /\ edit.face # None /\ RowsInv
      /\ Start(a, Idle)
  BY EditAssumption DEF Create, CatalogueInv
<1>3. RowsInv' /\ \A job \in Request : JobFits(job) => JobFits(job)'
  BY <1>1, <1>2, InsertKeepsRows
<1> QED
  BY <1>2, <1>3, StartIs, IdleFits, RequestsKeep

LEMMA BeginUpdateKeeps ==
    ASSUME CatalogueInv, NEW a \in Admin, NEW p \in Product, NEW edit \in Edit, BeginUpdate(a, p, edit)
    PROVE  CatalogueInv'
<1> DEFINE new == Update(p, edit, <<>>)
<1>1. RowsInv /\ Start(a, new) /\ UNCHANGED rowsUnchanged /\ MayUpdate(p, edit)
  BY DEF BeginUpdate, CatalogueInv
<1>2. edit \in Asked /\ <<>> \in Rest
  BY DEF Asked, Rest
<1>3. new \in Request /\ JobFits(new)
  BY <1>1, <1>2, UpdateFitsRow
<1> HIDE DEF new
<1>4. RowsInv' /\ \A job \in Request : JobFits(job) => JobFits(job)'
  BY <1>1, RowsUnchangedKeep
<1> QED
  BY <1>1, <1>3, <1>4, StartIs, RequestsKeep

(* The links deleted go both ways, and without a variant none is default.  *)
LEMMA TransactKeeps ==
    ASSUME CatalogueInv, NEW a \in Admin, Transact(a)
    PROVE  CatalogueInv'
<1> DEFINE job == admin[a]
           seen == IF job.edit.mates = None THEN {} ELSE LinksOf(job.id)
           bare == job.edit.initial /\ LiveVariants(job.id) = {}
           new == [at |-> "rewrite", id |-> job.id, was |-> job.was, edit |-> job.edit,
                   rows |-> job.rows, seen |-> seen, bare |-> bare]
<1>1. /\ RowsInv /\ UNCHANGED rowsUnchanged /\ writes' \in 0..MaxWrites
      /\ job \in Request /\ JobFits(job) /\ job.at = "update"
      /\ admin' = [admin EXCEPT ![a] = new]
  BY DEF Transact, CatalogueInv
<1>2. /\ job.id \in Product /\ job.was \in Slug /\ job.edit \in Asked /\ job.rows \in Rest
      /\ product[job.id].made /\ job.was \in borne[job.id]
  BY <1>1 DEF Request, Idle, JobFits
<1>3. seen \in SUBSET (Product \X Product) /\ \A l \in seen : <<l[2], l[1]>> \in seen
  <2>1. /\ LinksOf(job.id) \subseteq Product \X Product
        /\ \A l \in LinksOf(job.id) : <<l[2], l[1]>> \in LinksOf(job.id)
    BY <1>1 DEF RowsInv, RowsTypeOK, LinksGoBothWays, LinksOf
  <2> QED
    BY <2>1
<1>4. bare \in BOOLEAN /\ (bare => NoDefault(job.id))
  BY <1>2, AskedIsDto DEF ProductDto, NoDefault
<1> HIDE DEF seen, bare, job
<1>5. new \in Request
  BY <1>2, <1>3, <1>4 DEF Request
<1>6. /\ new.at = "rewrite" /\ new.id = job.id /\ new.was = job.was /\ new.seen = seen
      /\ new.bare = bare
  OBVIOUS
<1> HIDE DEF new
<1>7. JobFits(new)
  BY <1>2, <1>3, <1>4, <1>6 DEF JobFits
<1>8. RowsInv' /\ \A other \in Request : JobFits(other) => JobFits(other)'
  BY <1>1, RowsUnchangedKeep
<1> QED
  BY <1>1, <1>5, <1>7, <1>8, RequestsKeep

LEMMA EndUpdateKeeps ==
    ASSUME CatalogueInv, NEW a \in Admin, EndUpdate(a)
    PROVE  CatalogueInv'
<1>1. /\ RowsInv /\ Proceed(a, admin[a].rows) /\ writes' \in 0..MaxWrites
      /\ admin[a] \in Request /\ JobFits(admin[a]) /\ admin[a].at = "rewrite"
  BY DEF EndUpdate, CatalogueInv
<1>2. admin[a].rows \in Rest
  BY <1>1 DEF Request, Idle
<1>3. /\ RowsInv'
      /\ \A b \in Admin \ {a} : \A job \in Request : job = admin[b] /\ JobFits(job) => JobFits(job)'
  <2>1. CASE Rewrite(a, admin[a])
    BY <1>1, <2>1, RewriteKeepsRows
  <2>2. CASE UNCHANGED rowsUnchanged
    BY <1>1, <2>2, RowsUnchangedKeep
  <2> QED
    BY <2>1, <2>2 DEF EndUpdate
<1> QED
  BY <1>1, <1>2, <1>3, ProceedIs, RequestsKeep

LEMMA DuplicateKeeps ==
    ASSUME CatalogueInv, NEW a \in Admin, NEW p \in Product, Duplicate(a, p)
    PROVE  CatalogueInv'
<1>1. PICK q \in Product, s \in Slug :
          /\ ~product[q].made
          /\ product' = [product EXCEPT ![q] = [made |-> TRUE, live |-> TRUE, slug |-> s,
                                                face |-> Draft(product[p].face)]]
          /\ borne' = [borne EXCEPT ![q] = {s}]
  BY DEF Duplicate
<1>2. RowsInv /\ Start(a, Idle) /\ UNCHANGED <<variant, redirect, links, stale, raced>>
  BY DEF Duplicate, CatalogueInv
<1>3. Draft(product[p].face) \in AnyFace
  <2>1. product[p].face \in AnyFace
    BY <1>2 DEF Duplicate, Live, RowsInv, ProductFits
  <2>2. \A face : Draft(Draft(face)) = Draft(face)
    BY DEF Draft
  <2> QED
    BY <2>1, <2>2 DEF AnyFace
<1>4. /\ product' \in [Product -> ProductRow] /\ borne' \in [Product -> SUBSET Slug]
      /\ \A r \in Product : product'[r].made <=> product'[r].slug # None
      /\ \A r \in Product : ProductFits(r)'
      /\ \A r \in Product : (product[r].made => product'[r].made) /\ borne[r] \subseteq borne'[r]
      /\ \A r \in Product \ stale' : \A t \in Slug : Leads(r, t)'
  BY <1>1, <1>2, <1>3, MakingKeepsRows
<1>5. RowsTypeOK'
  BY <1>2, <1>4 DEF RowsInv, RowsTypeOK
<1>6. \A v \in Variant : VariantFits(v)'
  BY <1>2, <1>4 DEF RowsInv, RowsTypeOK, VariantRow, VariantFits
<1>7. RowsInv'
  BY <1>2, <1>4, <1>5, <1>6 DEF RowsInv, LinksGoBothWays, OneDefaultOf, LiveVariants
<1>8. ASSUME NEW job \in Request, JobFits(job) PROVE JobFits(job)'
  BY <1>2, <1>4, <1>8, JobsStay DEF LiveVariants, WritesVariants
<1> QED
  BY <1>2, <1>7, <1>8, StartIs, IdleFits, RequestsKeep

(* A removal takes the product or the variant out of what is on sale.      *)
LEMMA RemovingKeeps ==
    ASSUME CatalogueInv, NEW a \in Admin, Start(a, Idle),
           product' \in [Product -> ProductRow], variant' \in [Variant -> VariantRow],
           \A p \in Product : /\ product'[p].made = product[p].made
                              /\ product'[p].slug = product[p].slug
                              /\ product'[p].face = product[p].face
                              /\ product'[p].live => product[p].live,
           \A v \in Variant : /\ variant'[v].of = variant[v].of
                              /\ variant'[v].live => variant[v].live
                              /\ variant'[v].default => variant[v].default,
           UNCHANGED <<redirect, links, borne, stale, raced>>
    PROVE  CatalogueInv'
<1>1. RowsInv
  BY DEF CatalogueInv
<1>2. RowsTypeOK'
  BY <1>1 DEF RowsInv, RowsTypeOK
<1>3. (\A p \in Product : ProductFits(p)') /\ (\A v \in Variant : VariantFits(v)')
  <2>1. \A p \in Product : ProductFits(p)'
    BY <1>1 DEF RowsInv, ProductFits
  <2>2. \A v \in Variant : VariantFits(v)'
    BY <1>1 DEF RowsInv, RowsTypeOK, VariantRow, VariantFits
  <2> QED
    BY <2>1, <2>2
<1>4. \A p \in Product : LiveVariants(p)' \subseteq LiveVariants(p)
  BY DEF LiveVariants
<1>5. \A p \in Product \ raced' : OneDefaultOf(p)'
  <2> SUFFICES ASSUME NEW p \in Product, p \notin raced PROVE OneDefaultOf(p)'
    OBVIOUS
  <2>1. OneDefaultOf(p)
    BY <1>1 DEF RowsInv
  <2> QED
    BY <1>4, <2>1 DEF OneDefaultOf, LiveVariants
<1>6. \A p \in Product \ stale' : \A s \in Slug : Leads(p, s)'
  <2> SUFFICES ASSUME NEW p \in Product, p \notin stale, NEW s \in Slug PROVE Leads(p, s)'
    OBVIOUS
  <2> QED
    BY <1>1 DEF RowsInv, Leads
<1>7. LinksGoBothWays'
  BY <1>1 DEF RowsInv, LinksGoBothWays
<1>8. RowsInv'
  BY <1>2, <1>3, <1>5, <1>6, <1>7 DEF RowsInv
<1>9. ASSUME NEW job \in Request, JobFits(job) PROVE JobFits(job)'
  <2>1. /\ \A p \in Product : (product[p].made => product'[p].made) /\ borne[p] \subseteq borne'[p]
        /\ \A v \in Variant : variant[v].of # None => variant'[v].of = variant[v].of
    OBVIOUS
  <2>2. WritesVariants(job, job.id) =>
               \/ job.id \in raced'
               \/ job.id \notin raced /\
                  \A w \in LiveVariants(job.id)' :
                     variant'[w].default => w \in LiveVariants(job.id) /\ variant[w].default
    BY DEF LiveVariants
  <2> QED
    BY <1>9, <2>1, <2>2, JobsStay
<1> QED
  BY <1>8, <1>9, StartIs, IdleFits, RequestsKeep

LEMMA DeleteKeeps ==
    ASSUME CatalogueInv, NEW a \in Admin, NEW p \in Product, Delete(a, p)
    PROVE  CatalogueInv'
<1>1. product \in [Product -> ProductRow] /\ variant \in [Variant -> VariantRow]
  BY DEF CatalogueInv, RowsInv, RowsTypeOK
<1>2. /\ product' \in [Product -> ProductRow]
      /\ \A q \in Product : /\ product'[q].made = product[q].made
                            /\ product'[q].slug = product[q].slug
                            /\ product'[q].face = product[q].face
                            /\ product'[q].live => product[q].live
  BY <1>1 DEF Delete, ProductRow
<1>3. /\ variant' \in [Variant -> VariantRow]
      /\ \A v \in Variant : /\ variant'[v].of = variant[v].of
                            /\ variant'[v].live => variant[v].live
                            /\ variant'[v].default => variant[v].default
  BY <1>1 DEF Delete, VariantRow
<1>4. Start(a, Idle) /\ UNCHANGED <<redirect, links, borne, stale, raced>>
  BY DEF Delete
<1> QED
  BY <1>2, <1>3, <1>4, RemovingKeeps

LEMMA DeleteVariantKeeps ==
    ASSUME CatalogueInv, NEW a \in Admin, NEW v \in Variant, DeleteVariant(a, v)
    PROVE  CatalogueInv'
<1>1. product \in [Product -> ProductRow] /\ variant \in [Variant -> VariantRow]
  BY DEF CatalogueInv, RowsInv, RowsTypeOK
<1>2. product' = product
  BY DEF DeleteVariant
<1>3. /\ variant' \in [Variant -> VariantRow]
      /\ \A w \in Variant : /\ variant'[w].of = variant[w].of
                            /\ variant'[w].live => variant[w].live
                            /\ variant'[w].default => variant[w].default
  BY <1>1 DEF DeleteVariant, VariantRow
<1>4. Start(a, Idle) /\ UNCHANGED <<redirect, links, borne, stale, raced>>
  BY DEF DeleteVariant
<1> QED
  BY <1>1, <1>2, <1>3, <1>4, RemovingKeeps

(* A request for a variant sees every other default variant there is.      *)
LEMMA BeginVariantKeeps ==
    ASSUME CatalogueInv, NEW a \in Admin, NEW p \in Product, NEW v \in Variant \cup {None},
           NEW edit \in VariantEdit, BeginVariant(a, p, v, edit)
    PROVE  CatalogueInv'
<1> DEFINE seen == IF edit.default = TRUE THEN {w \in Variant : variant[w].of = p} \ {v} ELSE {}
           new == [at |-> "variant", id |-> p, row |-> v, edit |-> edit, seen |-> seen]
<1>1. /\ RowsInv /\ Start(a, new) /\ UNCHANGED rowsUnchanged
      /\ Live(p) /\ v \in LiveVariants(p) \cup {None}
  BY DEF BeginVariant, CatalogueInv
<1>2. edit.default = TRUE => SeesDefaults(new)
  BY DEF SeesDefaults, LiveVariants
<1>3. product[p].made /\ (v # None => variant[v].of = p)
  BY <1>1 DEF Live, RowsInv, ProductFits, LiveVariants
<1>4. seen \in SUBSET Variant
  OBVIOUS
<1> HIDE DEF seen
<1>5. new \in Request
  BY <1>4 DEF Request
<1>6. JobFits(new)
  BY <1>2, <1>3 DEF JobFits
<1> HIDE DEF new
<1>7. RowsInv' /\ \A job \in Request : JobFits(job) => JobFits(job)'
  BY <1>1, RowsUnchangedKeep
<1> QED
  BY <1>1, <1>5, <1>6, <1>7, StartIs, RequestsKeep

LEMMA ClearedIs ==
    ASSUME RowsTypeOK, NEW seen \in SUBSET Variant
    PROVE  /\ Cleared(seen) \in [Variant -> VariantRow]
           /\ \A w \in Variant : /\ Cleared(seen)[w].of = variant[w].of
                                 /\ Cleared(seen)[w].slug = variant[w].slug
                                 /\ Cleared(seen)[w].live <=> variant[w].live
                                 /\ Cleared(seen)[w].default <=> variant[w].default /\ w \notin seen
<1>1. variant \in [Variant -> VariantRow]
  BY DEF RowsTypeOK
<1>2. ASSUME NEW w \in Variant
      PROVE  /\ Cleared(seen)[w] \in VariantRow
             /\ Cleared(seen)[w].of = variant[w].of
             /\ Cleared(seen)[w].slug = variant[w].slug
             /\ Cleared(seen)[w].live <=> variant[w].live
             /\ Cleared(seen)[w].default <=> variant[w].default /\ w \notin seen
  BY <1>1 DEF Cleared, VariantRow
<1> QED
  BY <1>2 DEF Cleared

(* What the write of a variant does: one variant of the product is default *)
(* if the request asks for it or leaves it, and those it saw are not.      *)
LEMMA EndVariantIs ==
    ASSUME RowsInv, NEW job \in Request, job.at = "variant", JobFits(job),
           \/ /\ job.row = None
              /\ \E v \in Unused : variant' = [Cleared(job.seen) EXCEPT ![v] =
                                        NewVariant(job.id, job.edit.slug, job.edit.default = TRUE)]
           \/ /\ job.row # None
              /\ variant' = [Cleared(job.seen) EXCEPT ![job.row] = Edited(variant[job.row], job.edit)]
    PROVE  /\ variant' \in [Variant -> VariantRow]
           /\ \E v \in Variant :
                 /\ variant'[v].of = job.id
                 /\ variant'[v].default => job.edit.default = TRUE \/ (v = job.row /\ variant[v].default)
                 /\ \/ v = job.row /\ variant[v].of = job.id /\ (variant'[v].live <=> variant[v].live)
                    \/ job.row = None /\ variant[v].of = None
                 /\ \A w \in Variant \ {v} :
                       /\ variant'[w].of = variant[w].of /\ (variant'[w].live <=> variant[w].live)
                       /\ variant'[w].default <=> variant[w].default /\ w \notin job.seen
<1>1. /\ job.id \in Product /\ job.row \in Variant \cup {None} /\ job.seen \in SUBSET Variant
      /\ job.edit.slug \in VariantSlug \cup {None} /\ job.edit.default \in BOOLEAN \cup {None}
  BY VariantEditAssumption DEF Request, Idle, VariantDto
<1> DEFINE cleared == Cleared(job.seen)
           default == (job.edit.default = TRUE)
<1>2. /\ cleared \in [Variant -> VariantRow]
      /\ \A w \in Variant : /\ cleared[w].of = variant[w].of
                            /\ cleared[w].live <=> variant[w].live
                            /\ cleared[w].default <=> variant[w].default /\ w \notin job.seen
  BY <1>1, ClearedIs DEF RowsInv
<1> HIDE DEF cleared, default
<1>3. CASE job.row = None
  <2>1. PICK v \in Unused : variant' = [cleared EXCEPT ![v] = NewVariant(job.id, job.edit.slug, default)]
    BY <1>3 DEF cleared, default
  <2>2. v \in Variant /\ variant[v].of = None
    BY DEF Unused
  <2>3. LET new == NewVariant(job.id, job.edit.slug, default) IN
        new \in VariantRow /\ new.of = job.id /\ new.default = default
    <3>1. default \in BOOLEAN
      BY DEF default
    <3> QED
      BY <1>1, <3>1 DEF NewVariant, VariantRow
  <2>4. /\ variant' \in [Variant -> VariantRow]
        /\ variant'[v].of = job.id /\ variant'[v].default = default
        /\ \A w \in Variant \ {v} : variant'[w] = cleared[w]
    BY <1>2, <2>1, <2>2, <2>3
  <2>5. variant'[v].default => job.edit.default = TRUE
    <3>1. default => job.edit.default = TRUE
      BY DEF default
    <3> QED
      BY <2>4, <3>1
  <2> QED
    BY <1>2, <1>3, <2>2, <2>4, <2>5
<1>4. CASE job.row # None
  <2> DEFINE row == Edited(variant[job.row], job.edit)
  <2>1. variant' = [cleared EXCEPT ![job.row] = row]
    BY <1>4 DEF cleared
  <2>2. job.row \in Variant /\ variant[job.row] \in VariantRow /\ variant[job.row].of = job.id
    BY <1>1, <1>4 DEF JobFits, RowsInv, RowsTypeOK
  <2>3. /\ row \in VariantRow /\ row.of = variant[job.row].of /\ row.live = variant[job.row].live
        /\ row.default = IF job.edit.default = None THEN variant[job.row].default ELSE job.edit.default
    BY <1>1, <2>2, NullAssumption DEF Edited, VariantRow
  <2>4. row.default => default \/ variant[job.row].default
    BY <1>1, <2>3 DEF default
  <2> HIDE DEF row
  <2>5. /\ variant' \in [Variant -> VariantRow]
        /\ variant'[job.row] = row /\ \A w \in Variant \ {job.row} : variant'[w] = cleared[w]
    BY <1>2, <2>1, <2>2, <2>3
  <2> QED
    BY <1>2, <2>2, <2>3, <2>4, <2>5 DEF default
<1> QED
  BY <1>3, <1>4

LEMMA EndVariantKeeps ==
    ASSUME CatalogueInv, NEW a \in Admin, EndVariant(a)
    PROVE  CatalogueInv'
<1> DEFINE job == admin[a]
           p == job.id
<1>1. /\ RowsInv /\ RowsTypeOK /\ admin' = [admin EXCEPT ![a] = Idle] /\ writes' \in 0..MaxWrites
      /\ job \in Request /\ JobFits(job) /\ job.at = "variant"
      /\ UNCHANGED <<product, redirect, links, borne, stale>>
  BY DEF EndVariant, Finish, CatalogueInv, RowsInv
<1>2. p \in Product /\ product[p].made /\ job.seen \in SUBSET Variant /\ None \notin Product
  BY <1>1, NullAssumption DEF Request, Idle, JobFits
<1>3. CASE UNCHANGED <<variant, raced>>
  <2>1. UNCHANGED rowsUnchanged
    BY <1>1, <1>3 DEF rowsUnchanged
  <2>2. RowsInv' /\ \A j \in Request : JobFits(j) => JobFits(j)'
    BY <1>1, <2>1, RowsUnchangedKeep
  <2> QED
    BY <1>1, <2>2, IdleFits, RequestsKeep
<1>4. CASE ~UNCHANGED <<variant, raced>>
  <2>1. /\ Overlap(a, p)
        /\ \/ /\ job.row = None
              /\ \E v \in Unused : variant' = [Cleared(job.seen) EXCEPT ![v] =
                                        NewVariant(job.id, job.edit.slug, job.edit.default = TRUE)]
           \/ /\ job.row # None
              /\ variant' = [Cleared(job.seen) EXCEPT ![job.row] = Edited(variant[job.row], job.edit)]
    BY <1>4 DEF EndVariant
  <2>2. variant' \in [Variant -> VariantRow]
    BY <1>1, <2>1, EndVariantIs
  <2>3. PICK v \in Variant :
           /\ variant'[v].of = p
           /\ variant'[v].default => job.edit.default = TRUE \/ (v = job.row /\ variant[v].default)
           /\ \/ v = job.row /\ variant[v].of = p /\ (variant'[v].live <=> variant[v].live)
              \/ job.row = None /\ variant[v].of = None
           /\ \A w \in Variant \ {v} :
                 /\ variant'[w].of = variant[w].of /\ (variant'[w].live <=> variant[w].live)
                 /\ variant'[w].default <=> variant[w].default /\ w \notin job.seen
    BY <1>1, <2>1, EndVariantIs
  <2> HIDE DEF p
  <2>4. raced \subseteq raced' /\ raced' \subseteq Product
    BY <1>1, <1>2, <2>1 DEF Overlap, RowsTypeOK
  <2>5. /\ \A w \in Variant : variant[w].of # None => variant'[w].of = variant[w].of
        /\ \A q \in Product \ {p} : /\ LiveVariants(q)' = LiveVariants(q)
                                    /\ \A w \in LiveVariants(q)' :
                                          variant'[w].default => variant[w].default
    BY <1>2, <2>3 DEF LiveVariants
  <2>6. \A w \in Variant : VariantFits(w)'
    BY <1>1, <1>2, <2>3 DEF RowsInv, VariantFits
  <2>7. ASSUME NEW q \in Product, q \notin raced' PROVE OneDefaultOf(q)'
    <3>1. OneDefaultOf(q)
      BY <1>1, <2>4, <2>7 DEF RowsInv
    <3>2. CASE q # p
      BY <2>5, <3>1, <3>2 DEF OneDefaultOf
    <3>3. CASE q = p /\ job.edit.default # TRUE
      <4>1. variant'[v].default => variant[v].default /\ variant[v].of = p /\ (variant'[v].live <=> variant[v].live)
        BY <2>3, <3>3, NullAssumption
      <4>2. \A w \in Variant \ {v} :
               variant'[w].default =>
                  variant[w].default /\ variant[w].of = variant'[w].of /\ (variant'[w].live <=> variant[w].live)
        BY <2>3
      <4>3. \A w \in LiveVariants(q)' : variant'[w].default => w \in LiveVariants(q) /\ variant[w].default
        BY <2>3, <3>3, <4>1, <4>2 DEF LiveVariants
      <4> QED
        BY <3>1, <4>3 DEF OneDefaultOf
    <3>4. CASE q = p /\ job.edit.default = TRUE
      <4>1. SeesDefaults(job)
        BY <1>1, <2>4, <2>7, <3>4 DEF JobFits, p
      <4>2. ASSUME NEW w \in LiveVariants(q)', variant'[w].default PROVE w = v
        <5> SUFFICES ASSUME w # v PROVE FALSE
          OBVIOUS
        <5>1. w \in LiveVariants(p) /\ variant[w].default /\ w \notin job.seen
          BY <2>3, <3>4, <4>2 DEF LiveVariants
        <5>2. w # job.row
          BY <1>2, <2>3, <5>1, NullAssumption DEF LiveVariants
        <5> QED
          BY <4>1, <5>1, <5>2 DEF SeesDefaults, p
      <4> QED
        BY <4>2 DEF OneDefaultOf
    <3> QED
      BY <3>2, <3>3, <3>4
  <2>8. RowsTypeOK'
    BY <1>1, <2>2, <2>4 DEF RowsTypeOK
  <2>9. RowsInv'
    BY <1>1, <2>6, <2>7, <2>8 DEF RowsInv, ProductFits, LinksGoBothWays, Leads
  <2>10. ASSUME NEW b \in Admin \ {a}, NEW j \in Request, j = admin[b], JobFits(j)
         PROVE  JobFits(j)'
    <3>1. WritesVariants(j, j.id) => j.id \in Product
      BY <2>10 DEF Request, Idle, WritesVariants
    <3>2. WritesVariants(j, j.id) /\ j.id = p => j.id \in raced'
      BY <2>1, <2>10 DEF Overlap
    <3>3. WritesVariants(j, j.id) =>
             \/ j.id \in raced'
             \/ j.id \notin raced /\
                \A w \in LiveVariants(j.id)' :
                   variant'[w].default => w \in LiveVariants(j.id) /\ variant[w].default
      BY <2>4, <2>5, <3>1, <3>2
    <3>4. \A q \in Product : (product[q].made => product'[q].made) /\ borne[q] \subseteq borne'[q]
      BY <1>1
    <3> QED
      BY <2>5, <2>10, <3>3, <3>4, JobsStay
  <2> QED
    BY <1>1, <2>9, <2>10, IdleFits, RequestsKeep
<1> QED
  BY <1>3, <1>4

LEMMA BeginImportKeeps ==
    ASSUME CatalogueInv, NEW a \in Admin, NEW file \in File, BeginImport(a, file)
    PROVE  CatalogueInv'
<1> DEFINE new == [at |-> "import", rows |-> file]
<1>1. RowsInv /\ Start(a, new) /\ UNCHANGED rowsUnchanged
  BY DEF BeginImport, CatalogueInv
<1>2. file \in Rest
  <2> DEFINE Row == {file[j] : j \in DOMAIN file}
  <2>1. file \in Seq(Row)
    BY FileAssumption
  <2> HIDE DEF Row
  <2>2. file = SubSeq(file, 1, Len(file)) /\ 1 \in 1..(Len(file) + 1)
    BY <2>1
  <2>3. file \in {SubSeq(file, i, Len(file)) : i \in 1..(Len(file) + 1)}
    BY <2>2
  <2> QED
    BY <2>3 DEF Rest
<1>3. new \in Request /\ JobFits(new)
  BY <1>2 DEF Request, JobFits
<1> HIDE DEF new
<1>4. RowsInv' /\ \A job \in Request : JobFits(job) => JobFits(job)'
  BY <1>1, RowsUnchangedKeep
<1> QED
  BY <1>1, <1>3, <1>4, StartIs, RequestsKeep

LEMMA FindRowKeeps ==
    ASSUME CatalogueInv, NEW a \in Admin, FindRow(a)
    PROVE  CatalogueInv'
<1>1. PICK p \in Product \cup {None} :
         admin' = [admin EXCEPT ![a] = [at |-> "row", rows |-> admin[a].rows, id |-> p]]
  BY DEF FindRow
<1> DEFINE new == [at |-> "row", rows |-> admin[a].rows, id |-> p]
<1>2. /\ RowsInv /\ UNCHANGED rowsUnchanged /\ writes' \in 0..MaxWrites
      /\ admin[a] \in Request /\ admin[a].at = "import" /\ admin[a].rows # <<>>
  BY DEF FindRow, CatalogueInv
<1>3. admin[a].rows \in Rest \ {<<>>}
  BY <1>2 DEF Request, Idle
<1>4. new \in Request /\ JobFits(new)
  BY <1>3 DEF Request, JobFits
<1>5. admin' = [admin EXCEPT ![a] = new]
  BY <1>1
<1> HIDE DEF new
<1>6. RowsInv' /\ \A job \in Request : JobFits(job) => JobFits(job)'
  BY <1>2, RowsUnchangedKeep
<1> QED
  BY <1>2, <1>4, <1>5, <1>6, RequestsKeep

LEMMA ReadRowKeeps ==
    ASSUME CatalogueInv, NEW a \in Admin, ReadRow(a)
    PROVE  CatalogueInv'
<1> DEFINE job == admin[a]
<1>1. /\ RowsInv /\ UNCHANGED rowsUnchanged /\ writes' \in 0..MaxWrites
      /\ job \in Request /\ job.at = "row" /\ job.id # None
  BY DEF ReadRow, CatalogueInv
<1>2. job.rows \in Rest /\ job.rows # <<>> /\ job.id \in Product
  BY <1>1 DEF Request, Idle
<1>3. Head(job.rows) \in Asked /\ Tail(job.rows) \in Rest
  BY <1>2, RestOfFile
<1>4. RowsInv' /\ \A other \in Request : JobFits(other) => JobFits(other)'
  BY <1>1, RowsUnchangedKeep
<1>5. CASE MayUpdate(job.id, Head(job.rows))
  <2> DEFINE new == Update(job.id, Head(job.rows), Tail(job.rows))
  <2>1. new \in Request /\ JobFits(new)
    BY <1>1, <1>2, <1>3, <1>5, UpdateFitsRow
  <2>2. admin' = [admin EXCEPT ![a] = new]
    BY <1>5 DEF ReadRow
  <2> HIDE DEF new
  <2> QED
    BY <1>1, <1>4, <2>1, <2>2, RequestsKeep
<1>6. CASE ~MayUpdate(job.id, Head(job.rows))
  <2>1. Proceed(a, Tail(job.rows))
    BY <1>6 DEF ReadRow
  <2> QED
    BY <1>1, <1>3, <1>4, <2>1, ProceedIs, RequestsKeep
<1> QED
  BY <1>5, <1>6

LEMMA WriteRowKeeps ==
    ASSUME CatalogueInv, NEW a \in Admin, WriteRow(a)
    PROVE  CatalogueInv'
<1> DEFINE job == admin[a]
<1>1. /\ RowsInv /\ writes' \in 0..MaxWrites /\ Proceed(a, Tail(job.rows))
      /\ job \in Request /\ job.at = "row"
  BY DEF WriteRow, CatalogueInv
<1>2. job.rows \in Rest /\ job.rows # <<>>
  BY <1>1 DEF Request, Idle
<1>3. ImportedDto(Head(job.rows)) /\ Tail(job.rows) \in Rest
  BY <1>2, RestOfFile
<1>4. ProductDto(Head(job.rows)) /\ Head(job.rows).slug # None /\ Head(job.rows).face # None
  BY <1>3 DEF ImportedDto
<1>5. RowsInv' /\ \A other \in Request : JobFits(other) => JobFits(other)'
  <2>1. CASE \E p \in Product : Insert(a, p, Head(job.rows))
    BY <1>1, <1>4, <2>1, InsertKeepsRows
  <2>2. CASE UNCHANGED rowsUnchanged
    BY <1>1, <2>2, RowsUnchangedKeep
  <2> QED
    BY <2>1, <2>2 DEF WriteRow
<1> QED
  BY <1>1, <1>3, <1>5, ProceedIs, RequestsKeep

LEMMA CatalogueStep == CatalogueInv /\ [CatalogueNext]_catalogueVars => CatalogueInv'
<1> SUFFICES ASSUME CatalogueInv, [CatalogueNext]_catalogueVars PROVE CatalogueInv'
  OBVIOUS
<1>1. CASE UNCHANGED catalogueVars
  BY <1>1 DEF catalogueVars, CatalogueInv, RowsInv, RowsTypeOK, ProductFits, VariantFits,
              LinksGoBothWays, OneDefaultOf, LiveVariants, Leads, JobFits, SeesDefaults,
              NoDefault
<1>2. CASE CatalogueNext
  <2>1. PICK a \in Admin :
        \/ \E edit \in Edit : Create(a, edit)
        \/ \E p \in Product, edit \in Edit : BeginUpdate(a, p, edit)
        \/ Transact(a)
        \/ EndUpdate(a)
        \/ \E p \in Product : Duplicate(a, p)
        \/ \E p \in Product : Delete(a, p)
        \/ \E p \in Product, v \in Variant \cup {None}, edit \in VariantEdit :
              BeginVariant(a, p, v, edit)
        \/ EndVariant(a)
        \/ \E v \in Variant : DeleteVariant(a, v)
        \/ \E file \in File : BeginImport(a, file)
        \/ FindRow(a)
        \/ ReadRow(a)
        \/ WriteRow(a)
    BY <1>2 DEF CatalogueNext
  <2> QED
    BY <2>1, CreateKeeps, BeginUpdateKeeps, TransactKeeps, EndUpdateKeeps, DuplicateKeeps,
       DeleteKeeps,
       BeginVariantKeeps, EndVariantKeeps, DeleteVariantKeeps, BeginImportKeeps, FindRowKeeps,
       ReadRowKeeps, WriteRowKeeps
<1> QED
  BY <1>1, <1>2

LEMMA CatalogueHasInv == CatalogueSpec => []CatalogueInv
BY CatalogueInitInv, CatalogueStep, PTL DEF CatalogueSpec

(* However creations, updates, copies, removals and imports of products and*)
(* variants interleave, rows are rows, compatible products name each other *)
(* and a product has one default variant, but for products of which two    *)
(* writes of variants overlapped (ProductsService, ProductsImportService). *)
THEOREM CatalogueIsSound == CatalogueSpec => []CatalogueSound
<1>1. CatalogueInv => CatalogueSound
  <2> SUFFICES ASSUME CatalogueInv PROVE CatalogueSound
    OBVIOUS
  <2>1. CatalogueTypeOK /\ LinksGoBothWays
    BY DEF CatalogueInv, RowsInv, RowsTypeOK, CatalogueTypeOK
  <2>2. ASSUME NEW p \in Product \ raced
        PROVE  Cardinality({v \in LiveVariants(p) : variant[v].default}) <= 1
    <3> DEFINE defaults == {v \in LiveVariants(p) : variant[v].default}
    <3>1. \A v, w \in defaults : v = w
      BY DEF CatalogueInv, RowsInv, OneDefaultOf
    <3> HIDE DEF defaults
    <3>2. Cardinality(defaults) <= 1
      <4>1. CASE defaults = {}
        BY <4>1, FS_EmptySet
      <4>2. CASE defaults # {}
        <5>1. PICK v \in defaults : TRUE
          BY <4>2
        <5>2. defaults = {v}
          BY <3>1
        <5> QED
          BY <5>2, FS_Singleton
      <4> QED
        BY <4>1, <4>2
    <3> QED
      BY <3>2 DEF defaults
  <2> QED
    BY <2>1, <2>2 DEF CatalogueSound, OneDefault
<1> QED
  BY CatalogueHasInv, <1>1, PTL

(* Every former address of a product on sale leads to it, however often    *)
(* products are renamed, unless another product had the address too or two *)
(* renames overlapped (StorefrontProductsService.resolveSlug).             *)
THEOREM FormerSlugsLead == CatalogueSpec => []OldSlugsLead
<1>1. CatalogueInv => OldSlugsLead
  <2> SUFFICES ASSUME CatalogueInv, NEW p \in Product \ stale, Live(p),
                      product[p].face.status = "ACTIVE", NEW s \in borne[p],
                      \A q \in Product \ {p} : s \notin borne[q]
               PROVE  Routes(s) = {Answer(IF s = product[p].slug THEN "ACTIVE" ELSE "MOVED", p)}
    BY DEF OldSlugsLead
  <2>1. RowsInv /\ RowsTypeOK /\ s \in Slug
    BY DEF CatalogueInv, RowsInv, RowsTypeOK
  <2> DEFINE found == {q \in Product : product[q].made /\ product[q].slug = s}
  <2>2. found \subseteq {p} /\ (p \in found <=> s = product[p].slug)
    BY <2>1 DEF RowsInv, ProductFits, Live
  <2>3. CASE s = product[p].slug
    <3>1. found = {p}
      BY <2>2, <2>3
    <3>2. RouteForProduct(p) = Answer("ACTIVE", p)
      BY DEF RouteForProduct
    <3> HIDE DEF found
    <3>3. Routes(s) = {RouteForProduct(q) : q \in found}
      BY <3>1 DEF Routes, found
    <3> QED
      BY <2>3, <3>1, <3>2, <3>3
  <2>4. CASE s # product[p].slug
    <3>1. found = {}
      BY <2>2, <2>4
    <3>2. redirect[s] = p /\ p # None
      BY <2>1, <2>4, NullAssumption DEF RowsInv, Leads
    <3> QED
      BY <2>4, <3>1, <3>2 DEF Routes
  <2> QED
    BY <2>3, <2>4
<1> QED
  BY CatalogueHasInv, <1>1, PTL

-----------------------------------------------------------------------------
(* Alerts on low stock: StockAlerts.                                       *)

AlertTypeOK ==
    /\ stock \in 0..MaxStock /\ alerted \in BOOLEAN
    /\ checker \in [Checker -> {"idle", "called", "clear", "send", "mark"}]
    /\ told \in Nat /\ failed \in Nat /\ unaddressed \in BOOLEAN /\ disturbed \in BOOLEAN

(* Undisturbed, one check is under way at most, and where it is tells what *)
(* the flag and the attempts to mail in this dip are.                      *)
CheckOK(c) ==
    /\ \A d \in Checker : checker[d] # "idle" => d = c
    /\ checker[c] = "called" => (IsLow(stock) => told + failed = IF alerted THEN 1 ELSE 0)
    /\ checker[c] = "clear" => ~IsLow(stock)
    /\ checker[c] = "send" => IsLow(stock) /\ ~alerted /\ told + failed = 0
    /\ checker[c] = "mark" => IsLow(stock) /\ told + failed = 1

(* What MailPerDip says of a stock at rest.                                *)
Settled ==
    /\ alerted <=> (IsLow(stock) /\ told + failed = 1)
    /\ IsLow(stock) => alerted \/ unaddressed

OneByOne ==
    ~disturbed /\ unwatched = {} =>
        /\ told + failed <= 1
        /\ Quiet => Settled
        /\ \A c \in Checker : checker[c] # "idle" => CheckOK(c)

AlertInv == AlertTypeOK /\ OneByOne

LEMMA AlertInitInv == AlertInit => AlertInv
<1> SUFFICES ASSUME AlertInit PROVE AlertInv
  OBVIOUS
<1>1. AlertTypeOK
  <2>1. MaxStock \in 0..MaxStock
    BY StockAssumption
  <2> QED
    BY <2>1 DEF AlertInit, AlertTypeOK
<1>2. ~IsLow(stock)
  BY StockAssumption DEF AlertInit, IsLow
<1>3. \A c \in Checker : checker[c] = "idle"
  BY DEF AlertInit
<1>4. OneByOne
  BY <1>2, <1>3 DEF AlertInit, OneByOne, Settled
<1> QED
  BY <1>1, <1>4 DEF AlertInv

(* A write of the stock that calls a check disturbs nothing when none is   *)
(* under way.                                                              *)
LEMMA CalledMove ==
    ASSUME AlertInv, NEW q \in 0..MaxStock, Move(q), Call, UNCHANGED <<alerted, unwatched>>
    PROVE  AlertInv'
<1>1. AlertTypeOK
  BY DEF AlertInv
<1>2. PICK c \in Checker : checker[c] = "idle" /\ checker' = [checker EXCEPT ![c] = "called"]
  BY DEF Call
<1>3. AlertTypeOK'
  <2>1. told' \in Nat /\ failed' \in Nat /\ unaddressed' \in BOOLEAN
    <3>1. CASE ~IsLow(stock) /\ IsLow(q)
      <4>1. told' = 0 /\ failed' = 0
        BY <3>1 DEF Move
      <4>2. unaddressed' = FALSE
        BY <3>1 DEF Move
      <4> QED
        BY <4>1, <4>2
    <3>2. CASE ~(~IsLow(stock) /\ IsLow(q))
      <4>1. told' = told /\ failed' = failed /\ unaddressed' = unaddressed
        BY <3>2 DEF Move, mailVars
      <4>2. told \in Nat /\ failed \in Nat /\ unaddressed \in BOOLEAN
        BY <1>1 DEF AlertTypeOK
      <4> QED
        BY <4>1, <4>2
    <3> QED
      BY <3>1, <3>2
  <2>2. stock' \in 0..MaxStock /\ alerted' \in BOOLEAN /\ disturbed' \in BOOLEAN
    BY <1>1 DEF Move, AlertTypeOK
  <2>3. checker' \in [Checker -> {"idle", "called", "clear", "send", "mark"}]
    BY <1>1, <1>2 DEF AlertTypeOK
  <2> QED
    BY <2>1, <2>2, <2>3 DEF AlertTypeOK
<1>4. ASSUME ~disturbed', unwatched' = {}
      PROVE  /\ told' + failed' <= 1
             /\ Quiet' => Settled'
             /\ \A d \in Checker : checker'[d] # "idle" => CheckOK(d)'
  <2>1. ~disturbed /\ \A d \in Checker : checker[d] = "idle"
    BY <1>4 DEF Move, Running
  <2>2. told + failed <= 1 /\ (alerted <=> (IsLow(stock) /\ told + failed = 1))
    BY <1>4, <2>1 DEF AlertInv, OneByOne, Quiet, Settled
  <2>3. \A d \in Checker : checker'[d] # "idle" => d = c
    BY <1>1, <1>2, <2>1 DEF AlertTypeOK
  <2>4. checker'[c] = "called"
    BY <1>1, <1>2 DEF AlertTypeOK
  <2>5. told' + failed' <= 1 /\ (IsLow(stock)' => told' + failed' = IF alerted' THEN 1 ELSE 0)
    <3>1. stock' = q /\ alerted' = alerted /\ told \in Nat /\ failed \in Nat
      BY <1>1 DEF Move, AlertTypeOK
    <3>2. IsLow(stock)' <=> IsLow(q)
      BY <3>1 DEF IsLow
    <3>3. CASE ~IsLow(stock) /\ IsLow(q)
      BY <2>2, <3>1, <3>3 DEF Move
    <3>4. CASE ~(~IsLow(stock) /\ IsLow(q))
      <4>1. told' = told /\ failed' = failed
        BY <3>4 DEF Move, mailVars
      <4> QED
        BY <2>2, <3>1, <3>2, <3>4, <4>1
    <3> QED
      BY <3>3, <3>4
  <2>6. CheckOK(c)'
    BY <2>3, <2>4, <2>5 DEF CheckOK
  <2> QED
    BY <2>3, <2>4, <2>5, <2>6 DEF Quiet
<1> QED
  BY <1>3, <1>4 DEF AlertInv, OneByOne

(* One that calls none is no part of the promise.                          *)
LEMMA UnwatchedMove ==
    ASSUME AlertInv, NEW q \in 0..MaxStock, Move(q), UNCHANGED <<alerted, checker>>, unwatched' # {}
    PROVE  AlertInv'
<1>1. told' \in Nat /\ failed' \in Nat /\ unaddressed' \in BOOLEAN
  <2>1. CASE ~IsLow(stock) /\ IsLow(q)
    <3>1. told' = 0 /\ failed' = 0
      BY <2>1 DEF Move
    <3>2. unaddressed' = FALSE
      BY <2>1 DEF Move
    <3> QED
      BY <3>1, <3>2
  <2>2. CASE ~(~IsLow(stock) /\ IsLow(q))
    <3>1. told' = told /\ failed' = failed /\ unaddressed' = unaddressed
      BY <2>2 DEF Move, mailVars
    <3>2. told \in Nat /\ failed \in Nat /\ unaddressed \in BOOLEAN
      BY DEF AlertInv, AlertTypeOK
    <3> QED
      BY <3>1, <3>2
  <2> QED
    BY <2>1, <2>2
<1>2. /\ stock' \in 0..MaxStock /\ alerted' \in BOOLEAN /\ disturbed' \in BOOLEAN
      /\ checker' \in [Checker -> {"idle", "called", "clear", "send", "mark"}]
  BY DEF AlertInv, AlertTypeOK, Move
<1> QED
  BY <1>1, <1>2 DEF AlertInv, AlertTypeOK, OneByOne

(* A step of a check, alone.                                               *)
LEMMA CheckStep ==
    ASSUME AlertInv, NEW c \in Checker,
           Read(c) \/ Clear(c) \/ NoAddress(c) \/ Send(c) \/ SendFails(c) \/ Mark(c)
    PROVE  AlertInv'
<1>1. AlertTypeOK
  BY DEF AlertInv
<1>2. AlertTypeOK'
  <2>1. CASE Read(c)
    BY <1>1, <2>1 DEF AlertTypeOK, Read, Step, mailVars
  <2>2. CASE Clear(c)
    BY <1>1, <2>2 DEF AlertTypeOK, Clear, Step, mailVars
  <2>3. CASE NoAddress(c)
    BY <1>1, <2>3 DEF AlertTypeOK, NoAddress, Step
  <2>4. CASE Send(c)
    BY <1>1, <2>4 DEF AlertTypeOK, Send, Step, OneMore
  <2>5. CASE SendFails(c)
    BY <1>1, <2>5 DEF AlertTypeOK, SendFails, Step, OneMore
  <2>6. CASE Mark(c)
    BY <1>1, <2>6 DEF AlertTypeOK, Mark, Step, mailVars
  <2> QED
    BY <2>1, <2>2, <2>3, <2>4, <2>5, <2>6
<1>3. ASSUME ~disturbed', unwatched' = {}
      PROVE  /\ told' + failed' <= 1
             /\ Quiet' => Settled'
             /\ \A d \in Checker : checker'[d] # "idle" => CheckOK(d)'
  <2>1. /\ ~disturbed /\ unwatched = {} /\ checker[c] # "idle"
        /\ UNCHANGED stock /\ \A d \in Checker \ {c} : checker'[d] = checker[d]
    BY <1>1, <1>3 DEF AlertTypeOK, Read, Clear, NoAddress, Send, SendFails, Mark, Step
  <2>2. told + failed <= 1 /\ CheckOK(c)
    BY <2>1 DEF AlertInv, OneByOne
  <2>3. \A d \in Checker : checker'[d] # "idle" => d = c
    BY <2>1, <2>2 DEF CheckOK
  <2>4. told \in Nat /\ failed \in Nat /\ (IsLow(stock)' <=> IsLow(stock))
    BY <1>1, <2>1 DEF AlertTypeOK, IsLow
  <2>5. /\ told' + failed' <= 1
        /\ checker'[c] = "idle" => Settled'
        /\ checker'[c] # "called"
        /\ checker'[c] = "clear" => ~IsLow(stock)'
        /\ checker'[c] = "send" => IsLow(stock)' /\ ~alerted' /\ told' + failed' = 0
        /\ checker'[c] = "mark" => IsLow(stock)' /\ told' + failed' = 1
    <3>1. CASE Read(c)
      BY <1>1, <2>2, <2>4, <3>1 DEF Read, Step, CheckOK, AlertTypeOK, Settled, mailVars
    <3>2. CASE Clear(c)
      BY <1>1, <2>2, <2>4, <3>2 DEF Clear, Step, CheckOK, AlertTypeOK, Settled, mailVars
    <3>3. CASE NoAddress(c)
      BY <1>1, <2>2, <2>4, <3>3 DEF NoAddress, Step, CheckOK, AlertTypeOK, Settled
    <3>4. CASE Send(c)
      <4>1. told = 0 /\ failed = 0 /\ IsLow(stock)
        BY <2>2, <2>4, <3>4 DEF Send, Step, CheckOK
      <4>2. told' = 1 /\ failed' = 0 /\ checker'[c] = "mark"
        BY <1>1, <3>4, <4>1, StockAssumption DEF Send, Step, OneMore, AlertTypeOK
      <4> QED
        BY <2>4, <4>1, <4>2
    <3>5. CASE SendFails(c)
      <4>1. told = 0 /\ failed = 0 /\ IsLow(stock)
        BY <2>2, <2>4, <3>5 DEF SendFails, Step, CheckOK
      <4>2. told' = 0 /\ failed' = 1 /\ checker'[c] = "mark"
        BY <1>1, <3>5, <4>1, StockAssumption DEF SendFails, Step, OneMore, AlertTypeOK
      <4> QED
        BY <2>4, <4>1, <4>2
    <3>6. CASE Mark(c)
      BY <1>1, <2>2, <2>4, <3>6 DEF Mark, Step, CheckOK, AlertTypeOK, Settled, mailVars
    <3> QED
      BY <3>1, <3>2, <3>3, <3>4, <3>5, <3>6
  <2>6. checker'[c] # "idle" => CheckOK(c)'
    BY <2>3, <2>5 DEF CheckOK
  <2> QED
    BY <2>3, <2>5, <2>6 DEF Quiet
<1> QED
  BY <1>2, <1>3 DEF AlertInv, OneByOne

LEMMA AlertStep == AlertInv /\ [AlertNext]_alertVars => AlertInv'
<1> SUFFICES ASSUME AlertInv, [AlertNext]_alertVars PROVE AlertInv'
  OBVIOUS
<1>1. AlertTypeOK
  BY DEF AlertInv
<1>2. ASSUME NEW n \in 1..MaxStock, Sell(n) \/ CancelledOrder(n) \/ ExpiredOrder(n)
      PROVE  AlertInv'
  <2>1. CASE Sell(n)
    <3>1. stock - n \in 0..MaxStock
      BY <1>1, <2>1, StockAssumption DEF Sell, AlertTypeOK
    <3> QED
      BY <2>1, <3>1, CalledMove DEF Sell
  <2>2. CASE CancelledOrder(n)
    <3>1. stock + n \in 0..MaxStock
      BY <1>1, <2>2, StockAssumption DEF CancelledOrder, AlertTypeOK
    <3> QED
      BY <2>2, <3>1, CalledMove DEF CancelledOrder
  <2>3. CASE ExpiredOrder(n)
    <3>1. stock + n \in 0..MaxStock /\ unwatched' # {}
      BY <1>1, <2>3, StockAssumption DEF ExpiredOrder, AlertTypeOK
    <3> QED
      BY <2>3, <3>1, UnwatchedMove DEF ExpiredOrder
  <2> QED
    BY <1>2, <2>1, <2>2, <2>3
<1>3. ASSUME NEW q \in 0..MaxStock, UpdateStock(q) \/ SaveForm(q) PROVE AlertInv'
  <2>1. CASE UpdateStock(q)
    BY <2>1, CalledMove DEF UpdateStock
  <2>2. CASE SaveForm(q)
    <3>1. unwatched' # {}
      BY <2>2 DEF SaveForm
    <3> QED
      BY <2>2, <3>1, UnwatchedMove DEF SaveForm
  <2> QED
    BY <1>3, <2>1, <2>2
<1>4. ASSUME NEW dead \in SUBSET Checker, Die(dead) PROVE AlertInv'
  <2>1. disturbed' = TRUE
    BY <1>4 DEF Die
  <2> QED
    BY <1>1, <1>4, <2>1 DEF Die, AlertInv, AlertTypeOK, OneByOne, mailVars
<1>5. CASE UNCHANGED alertVars
  BY <1>5 DEF alertVars, AlertInv, AlertTypeOK, OneByOne, Quiet, CheckOK, Settled, IsLow
<1> QED
  BY <1>2, <1>3, <1>4, <1>5, CheckStep DEF AlertNext

(* A dip of the stock is announced by one attempt to mail, and by the time *)
(* the checks have ended, unless they found no address, as long as they    *)
(* were not overtaken, did not die and every write called one              *)
(* (LowStockAlertService.checkAndNotify).                                  *)
THEOREM DipsAreAnnouncedOnce == AlertSpec => []MailPerDip
<1>1. AlertInv => MailPerDip
  BY DEF AlertInv, OneByOne, Settled, MailPerDip
<1> QED
  BY AlertInitInv, AlertStep, <1>1, PTL DEF AlertSpec

-----------------------------------------------------------------------------
(* Categories and the tiles of the home page: Categories.                  *)

CategoryField == {"live", "slug", "parent", "shown", "faqs", "slipped"}

EditorRow == [step : {"create", "update"}, row : Category, edit : CategoryEdit, crossed : BOOLEAN]
             \cup [step : {"remove"}, row : Category, edit : {<<>>}, crossed : BOOLEAN]

CategoriesTypeOK ==
    /\ DOMAIN category = Category /\ \A c \in Category : DOMAIN category[c] = CategoryField
    /\ editor \in [Editor -> EditorRow \cup {AtRest}]

(* What was counted for a request still counts as long as nobody wrote.    *)
CountHolds(e) ==
    editor[e].step \in {"create", "update"} /\ ~editor[e].crossed /\ Counted(e) =>
        SlotFree(After(e).parent, editor[e].row)

GoodTiles == {c \in Tiles : ~category[c].slipped}

CategoriesInv ==
    /\ CategoriesTypeOK
    /\ \A e \in Editor : CountHolds(e)
    /\ GridHolds

LEMMA TilesAreFinite == IsFiniteSet(Tiles) /\ IsFiniteSet(GoodTiles) /\ Cardinality(Tiles) \in Nat
<1>1. Tiles \subseteq Category /\ GoodTiles \subseteq Tiles
  BY DEF Tiles, GoodTiles
<1> QED
  BY <1>1, CategoryEditAssumption, FS_Subset, FS_CardinalityType

LEMMA NewRowFields ==
    ASSUME NEW edit
    PROVE  DOMAIN NewRow(edit) = CategoryField
BY DEF NewRow, NoCategory, CategoryField

LEMMA CategoriesInitInv == CategoriesInit => CategoriesInv
<1> SUFFICES ASSUME CategoriesInit PROVE CategoriesInv
  OBVIOUS
<1>1. CategoriesTypeOK
  BY DEF CategoriesInit, CategoriesTypeOK, NoCategory, CategoryField
<1>2. \A e \in Editor : CountHolds(e)
  BY DEF CategoriesInit, CountHolds, AtRest
<1>3. GoodTiles = {}
  BY DEF CategoriesInit, GoodTiles, Tiles, Tile, NoCategory
<1>4. Cardinality(GoodTiles) = 0
  BY <1>3, FS_EmptySet, Zenon
<1>5. 0 <= Limit
  BY CategoryEditAssumption
<1>6. Cardinality(GoodTiles) <= Limit
  BY <1>4, <1>5
<1>7. GridHolds
  BY <1>6 DEF GridHolds, GoodTiles
<1> QED
  BY <1>1, <1>2, <1>7 DEF CategoriesInv

(* A request that has looked and nobody crossed.                           *)
LEMMA LookingKeepsTheGrid ==
    ASSUME CategoriesInv, NEW e \in Editor, NEW c \in Category, NEW edit, NEW step,
           Started(e, step, c, edit), UNCHANGED category,
           \/ /\ step = "create" /\ edit \in CategoryEdit
              /\ NewRow(edit).shown => SlotFree(NewRow(edit).parent, c)
           \/ /\ step = "update" /\ edit \in CategoryEdit
              /\ "shown" \in DOMAIN edit /\ edit.shown =>
                    SlotFree(IF "parent" \in DOMAIN edit THEN edit.parent ELSE category[c].parent, c)
           \/ step = "remove" /\ edit = <<>>
    PROVE  CategoriesInv'
<1>1. CategoriesTypeOK
  BY DEF CategoriesInv
<1>2. /\ editor'[e] = [step |-> step, row |-> c, edit |-> edit, crossed |-> FALSE]
      /\ \A d \in Editor \ {e} : editor'[d] = editor[d]
  BY <1>1 DEF Started, CategoriesTypeOK
<1>3. CategoriesTypeOK'
  BY <1>1 DEF Started, CategoriesTypeOK, EditorRow
<1>4. ASSUME NEW d \in Editor PROVE CountHolds(d)'
  <2>1. CASE d # e
    BY <1>2, <2>1 DEF CategoriesInv, CountHolds, Counted, After, SlotFree, Tiles
  <2>2. CASE d = e /\ step = "create"
    <3>1. After(e)' = NewRow(edit) /\ editor'[e].row = c
      BY <1>2, <2>2 DEF After
    <3> QED
      BY <2>2, <3>1 DEF CountHolds, Counted, SlotFree, Tiles
  <2>3. CASE d = e /\ step = "update"
    <3>1. After(e)' = Merged(category[c], edit) /\ editor'[e].row = c /\ editor'[e].edit = edit
      BY <1>2, <2>3 DEF After
    <3>2. DOMAIN category[c] = CategoryField
      BY <1>1 DEF CategoriesTypeOK
    <3>3. /\ After(e)'.parent = IF "parent" \in DOMAIN edit THEN edit.parent ELSE category[c].parent
          /\ "shown" \in DOMAIN edit => After(e)'.shown = edit.shown
      BY <3>1, <3>2 DEF Merged, CategoryField
    <3>4. Counted(e)' => "shown" \in DOMAIN edit /\ edit.shown
      <4>1. editor'[e].edit = edit /\ editor'[e].step # "create"
        BY <1>2, <2>3
      <4>2. Counted(e)' <=> After(e)'.shown /\ "shown" \in DOMAIN edit
        BY <4>1 DEF Counted
      <4>3. SUFFICES ASSUME Counted(e)' PROVE "shown" \in DOMAIN edit /\ edit.shown
        OBVIOUS
      <4> QED
        BY <3>3, <4>2, <4>3, Zenon
    <3>5. Counted(e)' => SlotFree(After(e)'.parent, c)
      BY <2>3, <3>3, <3>4
    <3> QED
      BY <2>3, <3>1, <3>5 DEF CountHolds, SlotFree, Tiles
  <2>4. CASE d = e /\ step = "remove"
    BY <1>2, <2>4 DEF CountHolds
  <2> QED
    BY <2>1, <2>2, <2>3, <2>4
<1>5. GridHolds'
  BY DEF CategoriesInv, GridHolds, Tiles
<1> QED
  BY <1>3, <1>4, <1>5 DEF CategoriesInv

(* A write crosses every request under way.                                *)
LEMMA DoneCrosses ==
    ASSUME CategoriesTypeOK, NEW e \in Editor, Done(e)
    PROVE  /\ editor' \in [Editor -> EditorRow \cup {AtRest}]
           /\ \A d \in Editor : editor'[d] # AtRest => editor'[d].crossed
<1>1. ASSUME NEW d \in Editor
      PROVE  /\ editor'[d] \in EditorRow \cup {AtRest}
             /\ editor'[d] # AtRest => editor'[d].crossed
  <2>1. CASE d = e \/ editor[d] = AtRest
    BY <2>1 DEF Done
  <2>2. CASE d # e /\ editor[d] # AtRest
    BY <2>2 DEF Done, CategoriesTypeOK, EditorRow
  <2> QED
    BY <2>1, <2>2
<1> QED
  BY <1>1 DEF Done

(* The tiles after a write of one row are those before, but for the row.   *)
LEMMA WritingKeepsTheGrid ==
    ASSUME CategoriesInv, NEW e \in Editor, WriteCategory(e)
    PROVE  CategoriesInv'
<1> DEFINE c == editor[e].row
           new == Marked(After(e), category[c], Counted(e), editor[e].crossed)
<1>1. CategoriesTypeOK
  BY DEF CategoriesInv
<1>2. editor[e].step \in {"create", "update"} /\ c \in Category /\ editor[e].crossed \in BOOLEAN
  BY <1>1 DEF WriteCategory, CategoriesTypeOK, EditorRow, AtRest
<1>3. DOMAIN After(e) = CategoryField
  BY <1>1, <1>2, NewRowFields DEF After, Merged, CategoriesTypeOK
<1>4. /\ DOMAIN new = CategoryField
      /\ Tile(new) <=> Tile(After(e))
      /\ new.slipped <=> /\ Tile(After(e))
                         /\ IF Counted(e) THEN editor[e].crossed
                            ELSE Tile(category[c]) => category[c].slipped
  BY <1>3 DEF Marked, CategoryField, Tile
<1>5. category' = [category EXCEPT ![c] = new] /\ Done(e)
  BY DEF WriteCategory
<1> HIDE DEF new
<1>6. /\ DOMAIN category' = Category /\ category'[c] = new
      /\ \A d \in Category \ {c} : category'[d] = category[d]
  BY <1>1, <1>2, <1>5 DEF CategoriesTypeOK
<1>7. CategoriesTypeOK'
  BY <1>1, <1>4, <1>5, <1>6, DoneCrosses DEF CategoriesTypeOK
<1>8. ASSUME NEW d \in Editor PROVE CountHolds(d)'
  BY <1>1, <1>5, DoneCrosses DEF CountHolds, AtRest
<1>9. GridHolds'
  <2>1. \A d \in Category \ {c} : d \in GoodTiles' <=> d \in GoodTiles
    BY <1>6 DEF GoodTiles, Tiles
  <2>2. c \in GoodTiles' <=> Tile(new) /\ ~new.slipped
    BY <1>2, <1>6 DEF GoodTiles, Tiles
  <2>3. GoodTiles \subseteq Category /\ GoodTiles' \subseteq Category /\ GoodTiles \subseteq Tiles
    BY DEF GoodTiles, Tiles
  <2>4. CASE c \notin GoodTiles' \/ c \in GoodTiles
    <3>1. GoodTiles' \subseteq GoodTiles
      BY <2>1, <2>3, <2>4
    <3>2. /\ Cardinality(GoodTiles') <= Cardinality(GoodTiles)
          /\ Cardinality(GoodTiles') \in Nat /\ Cardinality(GoodTiles) \in Nat
      BY <3>1, TilesAreFinite, FS_Subset, FS_CardinalityType
    <3> QED
      BY <3>2, CategoryEditAssumption DEF CategoriesInv, GridHolds, GoodTiles
  <2>5. CASE c \in GoodTiles' /\ c \notin GoodTiles
    <3>1. Tile(After(e)) /\ Counted(e) /\ ~editor[e].crossed
      BY <1>2, <1>4, <2>2, <2>5 DEF GoodTiles, Tiles
    <3>2. SlotFree(After(e).parent, c)
      BY <1>2, <3>1 DEF CategoriesInv, CountHolds
    <3>3. Cardinality(Tiles \ {c}) < Limit
      BY <3>1, <3>2 DEF SlotFree, Tile
    <3>4. GoodTiles' = GoodTiles \cup {c} /\ GoodTiles \subseteq Tiles \ {c}
      BY <2>1, <2>3, <2>5
    <3>5. /\ Cardinality(GoodTiles) <= Cardinality(Tiles \ {c})
          /\ Cardinality(GoodTiles) \in Nat /\ Cardinality(Tiles \ {c}) \in Nat
      BY <3>4, TilesAreFinite, FS_Subset, FS_CardinalityType
    <3>6. Cardinality(GoodTiles') = Cardinality(GoodTiles) + 1
      BY <2>5, <3>4, TilesAreFinite, FS_AddElement
    <3>7. Cardinality(GoodTiles') <= Limit
      BY <3>3, <3>5, <3>6, CategoryEditAssumption
    <3> QED
      BY <3>7 DEF GridHolds, GoodTiles
  <2> QED
    BY <2>4, <2>5
<1> QED
  BY <1>7, <1>8, <1>9 DEF CategoriesInv

LEMMA RemovingKeepsTheGrid ==
    ASSUME CategoriesInv, NEW e \in Editor, RemoveCategory(e)
    PROVE  CategoriesInv'
<1> DEFINE c == editor[e].row
<1>1. CategoriesTypeOK
  BY DEF CategoriesInv
<1>2. c \in Category /\ Done(e)
  BY <1>1 DEF RemoveCategory, CategoriesTypeOK, EditorRow, AtRest
<1>3. /\ DOMAIN category' = Category /\ DOMAIN category'[c] = CategoryField
      /\ ~category'[c].live /\ \A d \in Category \ {c} : category'[d] = category[d]
  BY <1>1, <1>2 DEF RemoveCategory, CategoriesTypeOK, CategoryField
<1>4. CategoriesTypeOK'
  BY <1>1, <1>2, <1>3, DoneCrosses DEF CategoriesTypeOK
<1>5. ASSUME NEW d \in Editor PROVE CountHolds(d)'
  BY <1>1, <1>2, DoneCrosses DEF CountHolds, AtRest
<1>6. GoodTiles' \subseteq GoodTiles
  BY <1>3 DEF GoodTiles, Tiles, Tile
<1>7. /\ Cardinality(GoodTiles') <= Cardinality(GoodTiles)
      /\ Cardinality(GoodTiles') \in Nat /\ Cardinality(GoodTiles) \in Nat
  BY <1>6, TilesAreFinite, FS_Subset, FS_CardinalityType
<1>8. GridHolds'
  BY <1>7, CategoryEditAssumption DEF CategoriesInv, GridHolds, GoodTiles
<1> QED
  BY <1>4, <1>5, <1>8 DEF CategoriesInv

LEMMA CategoriesStep == CategoriesInv /\ [CategoriesNext]_categoryVars => CategoriesInv'
<1> SUFFICES ASSUME CategoriesInv, [CategoriesNext]_categoryVars PROVE CategoriesInv'
  OBVIOUS
<1>1. ASSUME NEW e \in Editor, NEW c \in Category, NEW edit \in CategoryEdit,
             CheckCreate(e, c, edit) \/ CheckEdit(e, c, edit)
      PROVE  CategoriesInv'
  <2>1. CASE CheckCreate(e, c, edit)
    BY <2>1, LookingKeepsTheGrid DEF CheckCreate
  <2>2. CASE CheckEdit(e, c, edit)
    BY <2>2, LookingKeepsTheGrid DEF CheckEdit
  <2> QED
    BY <1>1, <2>1, <2>2
<1>2. ASSUME NEW e \in Editor, NEW c \in Category, CheckRemove(e, c) PROVE CategoriesInv'
  BY <1>2, LookingKeepsTheGrid DEF CheckRemove
<1>3. ASSUME NEW e \in Editor, GiveUp(e) PROVE CategoriesInv'
  <2>1. /\ editor'[e] = AtRest /\ UNCHANGED category
        /\ \A d \in Editor \ {e} : editor'[d] = editor[d]
    BY <1>3 DEF GiveUp, CategoriesInv, CategoriesTypeOK
  <2>2. CategoriesTypeOK'
    BY <1>3 DEF GiveUp, CategoriesInv, CategoriesTypeOK
  <2>3. ASSUME NEW d \in Editor PROVE CountHolds(d)'
    <3>1. CASE d = e
      BY <2>1, <3>1 DEF CountHolds, AtRest
    <3>2. CASE d # e
      BY <2>1, <3>2 DEF CategoriesInv, CountHolds, Counted, After, SlotFree, Tiles
    <3> QED
      BY <3>1, <3>2
  <2>4. GridHolds'
    BY <2>1 DEF CategoriesInv, GridHolds, Tiles
  <2> QED
    BY <2>2, <2>3, <2>4 DEF CategoriesInv
<1>4. CASE UNCHANGED categoryVars
  BY <1>4 DEF categoryVars, CategoriesInv, CategoriesTypeOK, CountHolds, Counted, After, SlotFree,
              Tiles, GridHolds
<1> QED
  BY <1>1, <1>2, <1>3, <1>4, WritingKeepsTheGrid, RemovingKeepsTheGrid DEF CategoriesNext

(* However edits of the tree interleave, the homepage has no more tiles    *)
(* than it has room for, but for the categories that slipped in            *)
(* (CategoriesService.create, update and remove).                          *)
THEOREM GridSound == CategoriesSpec => []GridHolds
<1>1. CategoriesInv => GridHolds
  BY DEF CategoriesInv
<1> QED
  BY CategoriesInitInv, CategoriesStep, <1>1, PTL DEF CategoriesSpec

-----------------------------------------------------------------------------
(* Methods, bands and parcels: Shipping.                                   *)

MethodRow == [kind : Kind \cup {"none", "gone"}, flat : Rate \cup {NoRate},
              bands : SUBSET [min : Nat, max : Nat, crossed : BOOLEAN], nulled : BOOLEAN]

ClerkRow ==
    [step : {"update"}, row : Method, kind : Kind \cup {"absent"}, flat : Sent, crossed : BOOLEAN]
    \cup [step : {"remove"}, row : Method, crossed : BOOLEAN]
    \cup [step : {"band"}, row : Method, band : Band, crossed : BOOLEAN]
    \cup [step : {"ship"}, order : Sale, key : Key, crossed : BOOLEAN]
    \cup {Free}

MethodsTypeOK == method \in [Method -> MethodRow]

SaleField == {"pay", "status", "method"}

SalesTypeOK == DOMAIN sale = Sale /\ \A o \in Sale : DOMAIN sale[o] = SaleField

ClerksTypeOK == clerk \in [Clerk -> ClerkRow]

(* What an update was checked for still holds of the row.                  *)
UpdateFits(ask) ==
    LET now == method[ask.row] IN
    Offered(ask.row) /\ (IF ask.kind = "absent" THEN now.kind ELSE ask.kind) = "FLAT" =>
        (IF ask.flat \in {NoRate, "absent"} THEN now.flat ELSE ask.flat) # NoRate

BandFits(ask) == \A b \in method[ask.row].bands : ~BandsOverlap(ask.band, b)

(* A request holds what it looked at, or knows that it was written.        *)
RowFits(ask) ==
    /\ ask.step \in {"update", "band"} => method[ask.row].kind # "none"
    /\ ask.step = "update" => ask.crossed \/ UpdateFits(ask)
    /\ ask.step = "band" => ask.crossed \/ BandFits(ask)
    /\ ask.step = "remove" => ask.crossed \/ Ordered(ask.row) = {}
    /\ ask.step = "ship" => ask.crossed \/ Shippable(ask.order)

ShippingInv ==
    /\ MethodsTypeOK /\ SalesTypeOK /\ ClerksTypeOK
    /\ \A c \in Clerk : RowFits(clerk[c])
    /\ BandsApart /\ FlatIsPriced

LEMMA ShippingInitInv == ShippingInit => ShippingInv
<1> SUFFICES ASSUME ShippingInit PROVE ShippingInv
  OBVIOUS
<1>1. MethodsTypeOK
  BY DEF ShippingInit, MethodsTypeOK, MethodRow, NoMethod
<1>2. SalesTypeOK /\ ClerksTypeOK
  BY DEF ShippingInit, SalesTypeOK, ClerksTypeOK, ClerkRow, SaleField, Unplaced
<1>3. \A c \in Clerk : RowFits(clerk[c])
  BY DEF ShippingInit, RowFits, Free
<1>4. BandsApart /\ FlatIsPriced
  BY DEF ShippingInit, BandsApart, FlatIsPriced, NoMethod
<1> QED
  BY <1>1, <1>2, <1>3, <1>4 DEF ShippingInv

(* Telling a request keeps its type and what it is for.                    *)
LEMMA TellingKeeps ==
    ASSUME ClerksTypeOK, NEW step, NEW field, NEW what, NEW c \in Clerk
    PROVE  LET heard == Told(step, field, what)[c] IN
           /\ heard \in ClerkRow
           /\ \/ heard = clerk[c] /\ ~(clerk[c].step = step /\ clerk[c][field] = what)
              \/ heard = [clerk[c] EXCEPT !.crossed = TRUE] /\ clerk[c].step = step
<1>1. clerk[c] \in ClerkRow
  BY DEF ClerksTypeOK
<1>2. PICK heard : heard = Told(step, field, what)[c]
  OBVIOUS
<1>3. \/ heard = clerk[c] /\ ~(clerk[c].step = step /\ clerk[c][field] = what)
      \/ heard = [clerk[c] EXCEPT !.crossed = TRUE] /\ clerk[c].step = step
  BY <1>2 DEF Told
<1>4. [clerk[c] EXCEPT !.crossed = TRUE] \in ClerkRow
  BY <1>1 DEF ClerkRow, Free
<1> QED
  BY <1>1, <1>2, <1>3, <1>4

(* A request that knows it was crossed, of a method that was there.        *)
LEMMA CrossedFits ==
    ASSUME NEW ask, ask.crossed, ask.step \in {"update", "band"} => method[ask.row].kind # "none"
    PROVE  RowFits(ask)
BY DEF RowFits

LEMMA CreateMethodKeeps ==
    ASSUME ShippingInv, NEW m \in Method, NEW kind \in Kind, NEW flat \in Sent,
           CreateMethod(m, kind, flat)
    PROVE  ShippingInv'
<1> DEFINE row == [kind |-> kind, flat |-> IF flat = "absent" THEN NoRate ELSE flat,
                   bands |-> {}, nulled |-> flat = NoRate]
<1>1. MethodsTypeOK /\ SalesTypeOK /\ ClerksTypeOK
  BY DEF ShippingInv
<1>2. row \in MethodRow
  BY DEF MethodRow, Sent
<1>3. method'[m] = row /\ \A n \in Method \ {m} : method'[n] = method[n]
  BY <1>1 DEF CreateMethod, MethodsTypeOK
<1>4. MethodsTypeOK' /\ SalesTypeOK' /\ ClerksTypeOK'
  BY <1>1, <1>2 DEF CreateMethod, MethodsTypeOK, SalesTypeOK, ClerksTypeOK
<1>5. ASSUME NEW c \in Clerk PROVE RowFits(clerk[c])'
  <2>1. RowFits(clerk[c]) /\ clerk'[c] = clerk[c] /\ clerk[c] \in ClerkRow /\ sale' = sale
    BY <1>1 DEF ShippingInv, CreateMethod, ClerksTypeOK
  <2>2. clerk[c].step \in {"update", "band"} => clerk[c].row # m /\ clerk[c].row \in Method
    BY <2>1 DEF RowFits, CreateMethod, NoMethod, ClerkRow, Free
  <2>3. clerk[c].step \in {"update", "band"} => method'[clerk[c].row] = method[clerk[c].row]
    BY <1>3, <2>2
  <2> QED
    BY <2>1, <2>3 DEF RowFits, UpdateFits, BandFits, Offered, Ordered, Shippable
<1>6. BandsApart'
  BY <1>3 DEF ShippingInv, BandsApart
<1>7. FlatIsPriced'
  <2>1. kind = "FLAT" => row.flat # NoRate \/ row.nulled
    BY DEF CreateMethod
  <2> HIDE DEF row
  <2>2. row.kind = kind
    BY DEF row
  <2> QED
    BY <1>3, <2>1, <2>2 DEF ShippingInv, FlatIsPriced
<1> QED
  BY <1>4, <1>5, <1>6, <1>7 DEF ShippingInv

(* A request that has just looked.                                         *)
LEMMA LookingKeeps ==
    ASSUME ShippingInv, NEW c \in Clerk, NEW ask \in ClerkRow, RowFits(ask),
           clerk' = [clerk EXCEPT ![c] = ask], UNCHANGED <<method, sale, parcel>>
    PROVE  ShippingInv'
<1>1. MethodsTypeOK /\ SalesTypeOK /\ ClerksTypeOK
  BY DEF ShippingInv
<1>2. MethodsTypeOK' /\ SalesTypeOK' /\ ClerksTypeOK'
  BY <1>1 DEF MethodsTypeOK, SalesTypeOK, ClerksTypeOK
<1>3. ASSUME NEW d \in Clerk PROVE RowFits(clerk[d])'
  <2>1. clerk'[d] = IF d = c THEN ask ELSE clerk[d]
    BY <1>1 DEF ClerksTypeOK
  <2>2. RowFits(clerk'[d])
    BY <2>1 DEF ShippingInv
  <2> QED
    BY <2>2 DEF RowFits, UpdateFits, BandFits, Offered, Ordered, Shippable
<1>4. BandsApart' /\ FlatIsPriced'
  BY DEF ShippingInv, BandsApart, FlatIsPriced
<1> QED
  BY <1>2, <1>3, <1>4 DEF ShippingInv

LEMMA CheckUpdateKeeps ==
    ASSUME ShippingInv, NEW c \in Clerk, NEW m \in Method, NEW kind \in Kind \cup {"absent"},
           NEW flat \in Sent, CheckUpdate(c, m, kind, flat)
    PROVE  ShippingInv'
<1> DEFINE ask == [step |-> "update", row |-> m, kind |-> kind, flat |-> flat, crossed |-> FALSE]
<1>1. ask \in ClerkRow
  BY DEF ClerkRow
<1>2. UpdateFits(ask)
  BY DEF UpdateFits, CheckUpdate
<1>3. RowFits(ask)
  BY <1>2 DEF RowFits, CheckUpdate, Offered, Kind
<1> HIDE DEF ask
<1>4. clerk' = [clerk EXCEPT ![c] = ask] /\ UNCHANGED <<method, sale, parcel>>
  BY DEF CheckUpdate, ask
<1> QED
  BY <1>1, <1>3, <1>4, LookingKeeps

LEMMA CheckUnusedKeeps ==
    ASSUME ShippingInv, NEW c \in Clerk, NEW m \in Method, CheckUnused(c, m)
    PROVE  ShippingInv'
<1> DEFINE ask == [step |-> "remove", row |-> m, crossed |-> FALSE]
<1>1. ask \in ClerkRow
  BY DEF ClerkRow
<1>2. RowFits(ask)
  BY DEF RowFits, CheckUnused
<1> HIDE DEF ask
<1>3. clerk' = [clerk EXCEPT ![c] = ask] /\ UNCHANGED <<method, sale, parcel>>
  BY DEF CheckUnused, ask
<1> QED
  BY <1>1, <1>2, <1>3, LookingKeeps

LEMMA CheckBandKeeps ==
    ASSUME ShippingInv, NEW c \in Clerk, NEW m \in Method, NEW band \in Band, CheckBand(c, m, band)
    PROVE  ShippingInv'
<1> DEFINE ask == [step |-> "band", row |-> m, band |-> band, crossed |-> FALSE]
<1>1. ask \in ClerkRow
  BY DEF ClerkRow
<1>2. BandFits(ask)
  BY DEF BandFits, CheckBand
<1>3. RowFits(ask)
  BY <1>2 DEF RowFits, CheckBand, Offered, Kind
<1> HIDE DEF ask
<1>4. clerk' = [clerk EXCEPT ![c] = ask] /\ UNCHANGED <<method, sale, parcel>>
  BY DEF CheckBand, ask
<1> QED
  BY <1>1, <1>3, <1>4, LookingKeeps

LEMMA ReadOrderKeeps ==
    ASSUME ShippingInv, NEW c \in Clerk, NEW o \in Sale, NEW key \in Key, ReadOrder(c, o, key)
    PROVE  ShippingInv'
<1> DEFINE ask == [step |-> "ship", order |-> o, key |-> key, crossed |-> FALSE]
<1>1. ask \in ClerkRow
  BY DEF ClerkRow
<1>2. RowFits(ask)
  BY DEF RowFits, ReadOrder
<1> HIDE DEF ask
<1>3. clerk' = [clerk EXCEPT ![c] = ask] /\ UNCHANGED <<method, sale, parcel>>
  BY DEF ReadOrder, ask
<1> QED
  BY <1>1, <1>2, <1>3, LookingKeeps

LEMMA ChangedRow ==
    ASSUME NEW row \in MethodRow, NEW ask, ask.kind \in Kind \cup {"absent"}, ask.flat \in Sent,
           ask.crossed \in BOOLEAN
    PROVE  LET after == Changed(row, ask) IN
           /\ after \in MethodRow
           /\ after.kind = IF ask.kind = "absent" THEN row.kind ELSE ask.kind
           /\ after.flat = IF ask.flat = "absent" THEN row.flat ELSE ask.flat
           /\ after.bands = row.bands
           /\ row.nulled \/ ask.flat = NoRate \/ ask.crossed => after.nulled
<1> DEFINE kind == IF ask.kind = "absent" THEN row.kind ELSE ask.kind
           flat == IF ask.flat = "absent" THEN row.flat ELSE ask.flat
           nulled == row.nulled \/ ask.flat = NoRate \/ ask.crossed
<1>1. kind \in Kind \cup {"none", "gone"} /\ flat \in Rate \cup {NoRate} /\ nulled \in BOOLEAN
  BY DEF MethodRow, Sent
<1>2. Changed(row, ask) = [row EXCEPT !.kind = kind, !.flat = flat, !.nulled = nulled]
  BY DEF Changed
<1> HIDE DEF kind, flat, nulled
<1>3. LET after == Changed(row, ask) IN
      /\ after \in MethodRow /\ after.kind = kind /\ after.flat = flat
      /\ after.bands = row.bands /\ after.nulled = nulled
  BY <1>1, <1>2 DEF MethodRow
<1> QED
  BY <1>3 DEF kind, flat, nulled

(* An update that nobody crossed leaves a flat-rate method with a rate; the*)
(* other updates of the row are heard.                                      *)
LEMMA UpdateMethodKeeps ==
    ASSUME ShippingInv, NEW c \in Clerk, UpdateMethod(c)
    PROVE  ShippingInv'
<1> DEFINE ask == clerk[c]
           m == ask.row
<1>1. MethodsTypeOK /\ SalesTypeOK /\ ClerksTypeOK
  BY DEF ShippingInv
<1>2. /\ m \in Method /\ ask.kind \in Kind \cup {"absent"} /\ ask.flat \in Sent
      /\ ask.crossed \in BOOLEAN
  BY <1>1 DEF UpdateMethod, ClerksTypeOK, ClerkRow, Free
<1>3. /\ method' \in [Method -> {method'[n] : n \in Method}]
      /\ \A n \in Method \ {m} : method'[n] = method[n]
      /\ IF Offered(m) THEN method'[m] = Changed(method[m], ask) ELSE method'[m] = method[m]
      /\ sale' = sale
  BY <1>1, <1>2 DEF UpdateMethod, MethodsTypeOK
<1>4. Offered(m) => /\ method'[m] \in MethodRow
                    /\ method'[m].kind = IF ask.kind = "absent" THEN method[m].kind ELSE ask.kind
                    /\ method'[m].flat = IF ask.flat = "absent" THEN method[m].flat ELSE ask.flat
                    /\ method'[m].bands = method[m].bands
                    /\ method[m].nulled \/ ask.flat = NoRate \/ ask.crossed => method'[m].nulled
  <2>1. method[m] \in MethodRow
    BY <1>1, <1>2 DEF MethodsTypeOK
  <2> QED
    BY <1>2, <1>3, <2>1, ChangedRow
<1>5. MethodsTypeOK'
  BY <1>1, <1>2, <1>3, <1>4 DEF MethodsTypeOK
<1>6. \A n \in Method : /\ method'[n].bands = method[n].bands
                        /\ method'[n].kind = "none" => method[n].kind = "none"
  BY <1>2, <1>3, <1>4 DEF Kind, Offered
<1>7. ASSUME NEW d \in Clerk
      PROVE  clerk'[d] = IF d = c THEN Free ELSE Told("update", "row", m)[d]
  BY <1>1 DEF UpdateMethod, Told, ClerksTypeOK
<1>8. ClerksTypeOK'
  <2>1. ASSUME NEW d \in Clerk PROVE clerk'[d] \in ClerkRow
    <3>1. Told("update", "row", m)[d] \in ClerkRow
      BY <1>1, TellingKeeps
    <3>2. Free \in ClerkRow
      BY DEF ClerkRow
    <3> QED
      BY <1>7, <3>1, <3>2
  <2> QED
    BY <2>1 DEF UpdateMethod, Told, ClerksTypeOK
<1>9. ASSUME NEW d \in Clerk PROVE RowFits(clerk[d])'
  <2>1. CASE d = c
    BY <1>7, <2>1 DEF RowFits, Free
  <2>2. CASE d # c
    <3>1. RowFits(clerk[d]) /\ clerk[d] \in ClerkRow
      BY <1>1 DEF ShippingInv, ClerksTypeOK
    <3>2. CASE clerk'[d] = clerk[d] /\ ~(clerk[d].step = "update" /\ clerk[d].row = m)
      <4>1. clerk[d].step \in {"update", "band"} => clerk[d].row \in Method
        BY <3>1 DEF ClerkRow, Free
      <4>2. clerk[d].step = "update" => method'[clerk[d].row] = method[clerk[d].row]
        BY <1>3, <3>2, <4>1
      <4> QED
        BY <1>3, <1>6, <3>1, <3>2, <4>1, <4>2
           DEF RowFits, UpdateFits, BandFits, Offered, Ordered, Shippable
    <3>3. CASE clerk'[d] = [clerk[d] EXCEPT !.crossed = TRUE] /\ clerk[d].step = "update"
      <4>1. /\ clerk'[d].crossed /\ clerk'[d].step = "update" /\ clerk'[d].row = clerk[d].row
            /\ clerk[d].row \in Method
        BY <3>1, <3>3 DEF ClerkRow, Free
      <4>2. method'[clerk'[d].row].kind # "none"
        BY <1>6, <3>1, <3>3, <4>1 DEF RowFits
      <4> QED
        BY <4>1, <4>2 DEF RowFits
    <3>4. clerk'[d] = Told("update", "row", m)[d]
      BY <1>7, <2>2
    <3>5. \/ clerk'[d] = clerk[d] /\ ~(clerk[d].step = "update" /\ clerk[d].row = m)
          \/ clerk'[d] = [clerk[d] EXCEPT !.crossed = TRUE] /\ clerk[d].step = "update"
      <4> DEFINE heard == Told("update", "row", m)[d]
      <4>1. \/ heard = clerk[d] /\ ~(clerk[d].step = "update" /\ clerk[d]["row"] = m)
            \/ heard = [clerk[d] EXCEPT !.crossed = TRUE] /\ clerk[d].step = "update"
        BY <1>1, TellingKeeps
      <4> HIDE DEF heard
      <4> QED
        BY <3>4, <4>1 DEF heard
    <3> QED
      BY <3>2, <3>3, <3>5
  <2> QED
    BY <2>1, <2>2
<1>10. BandsApart'
  BY <1>6 DEF ShippingInv, BandsApart
<1>11. ASSUME NEW n \in Method, method'[n].kind = "FLAT"
       PROVE  method'[n].flat # NoRate \/ method'[n].nulled
  <2>1. CASE n # m \/ ~Offered(m)
    BY <1>3, <1>11, <2>1 DEF ShippingInv, FlatIsPriced
  <2>2. CASE n = m /\ Offered(m) /\ (ask.crossed \/ ask.flat = NoRate)
    BY <1>4, <2>2
  <2>3. CASE n = m /\ Offered(m) /\ ~ask.crossed /\ ask.flat # NoRate
    <3>1. UpdateFits(ask)
      BY <2>3 DEF ShippingInv, RowFits, UpdateMethod
    <3> QED
      BY <1>4, <1>11, <2>3, <3>1 DEF UpdateFits
  <2> QED
    BY <2>1, <2>2, <2>3
<1>12. SalesTypeOK'
  BY <1>1, <1>3 DEF SalesTypeOK
<1> QED
  BY <1>5, <1>8, <1>9, <1>10, <1>11, <1>12 DEF ShippingInv, FlatIsPriced

(* Nothing a request looked at is left of a method that is gone.           *)
LEMMA RemoveMethodKeeps ==
    ASSUME ShippingInv, NEW c \in Clerk, RemoveMethod(c)
    PROVE  ShippingInv'
<1> DEFINE m == clerk[c].row
           gone == [NoMethod EXCEPT !.kind = "gone"]
<1>1. MethodsTypeOK /\ SalesTypeOK /\ ClerksTypeOK
  BY DEF ShippingInv
<1>2. m \in Method
  BY <1>1 DEF RemoveMethod, ClerksTypeOK, ClerkRow, Free
<1>3. gone \in MethodRow /\ gone.kind = "gone" /\ gone.bands = {}
  BY DEF NoMethod, MethodRow
<1> HIDE DEF gone
<1>4. method' = [method EXCEPT ![m] = gone]
  BY DEF RemoveMethod, gone
<1>5. method'[m] = gone /\ \A n \in Method \ {m} : method'[n] = method[n]
  BY <1>1, <1>2, <1>4 DEF MethodsTypeOK
<1>6. MethodsTypeOK'
  BY <1>1, <1>3, <1>4 DEF MethodsTypeOK
<1>7. /\ DOMAIN sale' = Sale
      /\ \A o \in Sale : /\ DOMAIN sale'[o] = SaleField /\ sale'[o].pay = sale[o].pay
                         /\ sale'[o].status = sale[o].status
                         /\ sale'[o].method \in {sale[o].method, Lost}
  BY <1>1 DEF RemoveMethod, SalesTypeOK, SaleField
<1>8. ClerksTypeOK'
  BY <1>1 DEF RemoveMethod, ClerksTypeOK, ClerkRow
<1>9. ASSUME NEW d \in Clerk PROVE RowFits(clerk[d])'
  <2>1. CASE d = c
    BY <1>1, <2>1 DEF RemoveMethod, ClerksTypeOK, RowFits, Free
  <2>2. CASE d # c
    <3>1. RowFits(clerk[d]) /\ clerk[d] \in ClerkRow /\ clerk'[d] = clerk[d]
      BY <1>1, <2>2 DEF ShippingInv, ClerksTypeOK, RemoveMethod
    <3>2. clerk[d].step \in {"update", "band", "remove"} => clerk[d].row \in Method
      BY <3>1 DEF ClerkRow, Free
    <3>3. clerk[d].step = "ship" => clerk[d].order \in Sale
      BY <3>1 DEF ClerkRow, Free
    <3>4. clerk[d].step \in {"update", "band"} => method'[clerk[d].row].kind # "none"
      BY <1>3, <1>5, <3>1, <3>2 DEF RowFits
    <3>5. clerk[d].step = "update" => clerk[d].crossed \/ UpdateFits(clerk[d])'
      BY <1>3, <1>5, <3>1, <3>2 DEF RowFits, UpdateFits, Offered, Kind
    <3>6. clerk[d].step = "band" => clerk[d].crossed \/ BandFits(clerk[d])'
      BY <1>3, <1>5, <3>1, <3>2 DEF RowFits, BandFits
    <3>7. clerk[d].step = "remove" => clerk[d].crossed \/ Ordered(clerk[d].row)' = {}
      BY <1>7, <3>1, <3>2, BandAssumption DEF RowFits, Ordered
    <3>8. clerk[d].step = "ship" => clerk[d].crossed \/ Shippable(clerk[d].order)'
      BY <1>7, <3>1, <3>3 DEF RowFits, Shippable
    <3> QED
      BY <3>1, <3>4, <3>5, <3>6, <3>7, <3>8 DEF RowFits
  <2> QED
    BY <2>1, <2>2
<1>10. BandsApart'
  BY <1>3, <1>5 DEF ShippingInv, BandsApart
<1>11. FlatIsPriced'
  BY <1>3, <1>5 DEF ShippingInv, FlatIsPriced
<1>12. SalesTypeOK'
  BY <1>7 DEF SalesTypeOK
<1> QED
  BY <1>6, <1>8, <1>9, <1>10, <1>11, <1>12 DEF ShippingInv

(* A band that nobody crossed overlaps none of those it comes to; the other*)
(* requests for a band of the method are heard.                             *)
LEMMA AddBandKeeps ==
    ASSUME ShippingInv, NEW c \in Clerk, AddBand(c)
    PROVE  ShippingInv'
<1> DEFINE ask == clerk[c]
           m == ask.row
           new == [min |-> ask.band.min, max |-> ask.band.max, crossed |-> ask.crossed]
<1>1. MethodsTypeOK /\ SalesTypeOK /\ ClerksTypeOK
  BY DEF ShippingInv
<1>2. m \in Method /\ ask.band \in Band /\ ask.crossed \in BOOLEAN
  BY <1>1 DEF AddBand, ClerksTypeOK, ClerkRow, Free
<1>3. /\ new \in [min : Nat, max : Nat, crossed : BOOLEAN]
      /\ new.min = ask.band.min /\ new.max = ask.band.max /\ (new.crossed <=> ask.crossed)
  BY <1>2, BandAssumption DEF RateBandDto
<1>4. /\ method' = IF ~Offered(m) THEN method
                   ELSE [method EXCEPT ![m].bands = @ \cup {new}]
      /\ sale' = sale
  BY DEF AddBand
<1> HIDE DEF new
<1>5. /\ \A n \in Method : /\ method'[n].kind = method[n].kind /\ method'[n].flat = method[n].flat
                           /\ method'[n].nulled = method[n].nulled
      /\ \A n \in Method \ {m} : method'[n].bands = method[n].bands
      /\ method'[m].bands \subseteq method[m].bands \cup {new}
      /\ ~Offered(m) => method'[m].bands = method[m].bands
  BY <1>1, <1>2, <1>4 DEF MethodsTypeOK, MethodRow
<1>6. MethodsTypeOK'
  BY <1>1, <1>2, <1>3, <1>4 DEF MethodsTypeOK, MethodRow
<1>7. ASSUME NEW d \in Clerk
      PROVE  clerk'[d] = IF d = c THEN Free ELSE Told("band", "row", m)[d]
  BY <1>1 DEF AddBand, Told, ClerksTypeOK
<1>8. ClerksTypeOK'
  <2>1. ASSUME NEW d \in Clerk PROVE clerk'[d] \in ClerkRow
    <3>1. Told("band", "row", m)[d] \in ClerkRow
      BY <1>1, TellingKeeps
    <3>2. Free \in ClerkRow
      BY DEF ClerkRow
    <3> QED
      BY <1>7, <3>1, <3>2
  <2> QED
    BY <2>1 DEF AddBand, Told, ClerksTypeOK
<1>9. ASSUME NEW d \in Clerk PROVE RowFits(clerk[d])'
  <2>1. CASE d = c
    BY <1>7, <2>1 DEF RowFits, Free
  <2>2. CASE d # c
    <3>1. RowFits(clerk[d]) /\ clerk[d] \in ClerkRow
      BY <1>1 DEF ShippingInv, ClerksTypeOK
    <3>2. CASE clerk'[d] = clerk[d] /\ ~(clerk[d].step = "band" /\ clerk[d].row = m)
      <4>1. clerk[d].step \in {"update", "band"} => clerk[d].row \in Method
        BY <3>1 DEF ClerkRow, Free
      <4>2. clerk[d].step = "band" => method'[clerk[d].row].bands = method[clerk[d].row].bands
        BY <1>5, <3>2, <4>1
      <4> QED
        BY <1>4, <1>5, <3>1, <3>2, <4>1, <4>2
           DEF RowFits, UpdateFits, BandFits, Offered, Ordered, Shippable
    <3>3. CASE clerk'[d] = [clerk[d] EXCEPT !.crossed = TRUE] /\ clerk[d].step = "band"
      <4>1. /\ clerk'[d].crossed /\ clerk'[d].step = "band" /\ clerk'[d].row = clerk[d].row
            /\ clerk[d].row \in Method
        BY <3>1, <3>3 DEF ClerkRow, Free
      <4>2. method'[clerk'[d].row].kind # "none"
        BY <1>5, <3>1, <3>3, <4>1 DEF RowFits
      <4> QED
        BY <4>1, <4>2 DEF RowFits
    <3>4. clerk'[d] = Told("band", "row", m)[d]
      BY <1>7, <2>2
    <3>5. \/ clerk'[d] = clerk[d] /\ ~(clerk[d].step = "band" /\ clerk[d].row = m)
          \/ clerk'[d] = [clerk[d] EXCEPT !.crossed = TRUE] /\ clerk[d].step = "band"
      <4> DEFINE heard == Told("band", "row", m)[d]
      <4>1. \/ heard = clerk[d] /\ ~(clerk[d].step = "band" /\ clerk[d]["row"] = m)
            \/ heard = [clerk[d] EXCEPT !.crossed = TRUE] /\ clerk[d].step = "band"
        BY <1>1, TellingKeeps
      <4> HIDE DEF heard
      <4> QED
        BY <3>4, <4>1 DEF heard
    <3> QED
      BY <3>2, <3>3, <3>5
  <2> QED
    BY <2>1, <2>2
<1>10. ASSUME NEW n \in Method, NEW a \in method'[n].bands, NEW b \in method'[n].bands, a # b,
              BandsOverlap(a, b)
       PROVE  a.crossed \/ b.crossed
  <2>1. CASE a \in method[n].bands /\ b \in method[n].bands
    BY <1>10, <2>1 DEF ShippingInv, BandsApart
  <2>2. CASE ~(a \in method[n].bands /\ b \in method[n].bands)
    <3>1. n = m /\ Offered(m) /\ (a = new \/ b = new)
      BY <1>5, <1>10, <2>2
    <3>2. PICK old \in method[m].bands : \/ a = new /\ b = old
                                         \/ b = new /\ a = old
      BY <1>5, <1>10, <3>1
    <3>3. old \in [min : Nat, max : Nat, crossed : BOOLEAN]
      BY <1>1, <1>2 DEF MethodsTypeOK, MethodRow
    <3>4. ask.band \in RateBandDto
      BY <1>2, BandAssumption
    <3>5. BandsOverlap(ask.band, old)
      BY <1>3, <1>10, <3>2, <3>3, <3>4 DEF BandsOverlap, RateBandDto
    <3>6. ask.crossed
      BY <3>5, <1>2 DEF ShippingInv, RowFits, BandFits, AddBand
    <3>7. new.crossed
      BY <1>3, <3>6
    <3> QED
      BY <3>2, <3>7
  <2> QED
    BY <2>1, <2>2
<1>11. FlatIsPriced'
  BY <1>5 DEF ShippingInv, FlatIsPriced
<1>12. SalesTypeOK'
  BY <1>1, <1>4 DEF SalesTypeOK
<1> QED
  BY <1>6, <1>8, <1>9, <1>10, <1>11, <1>12 DEF ShippingInv, BandsApart

LEMMA RemoveBandKeeps ==
    ASSUME ShippingInv, NEW m \in Method, NEW b \in method[m].bands, RemoveBand(m, b)
    PROVE  ShippingInv'
<1>1. MethodsTypeOK /\ SalesTypeOK /\ ClerksTypeOK
  BY DEF ShippingInv
<1>2. /\ \A n \in Method : /\ method'[n].kind = method[n].kind /\ method'[n].flat = method[n].flat
                           /\ method'[n].nulled = method[n].nulled
                           /\ method'[n].bands \subseteq method[n].bands
      /\ clerk' = clerk /\ sale' = sale
  BY <1>1 DEF RemoveBand, MethodsTypeOK, MethodRow
<1>3. MethodsTypeOK' /\ SalesTypeOK' /\ ClerksTypeOK'
  BY <1>1 DEF RemoveBand, MethodsTypeOK, MethodRow, SalesTypeOK, ClerksTypeOK
<1>4. ASSUME NEW d \in Clerk PROVE RowFits(clerk[d])'
  <2>1. RowFits(clerk[d]) /\ clerk[d] \in ClerkRow
    BY <1>1 DEF ShippingInv, ClerksTypeOK
  <2>2. clerk[d].step \in {"update", "band"} => clerk[d].row \in Method
    BY <2>1 DEF ClerkRow, Free
  <2> QED
    BY <1>2, <2>1, <2>2 DEF RowFits, UpdateFits, BandFits, Offered, Ordered, Shippable
<1>5. BandsApart' /\ FlatIsPriced'
  BY <1>2 DEF ShippingInv, BandsApart, FlatIsPriced
<1> QED
  BY <1>3, <1>4, <1>5 DEF ShippingInv

(* An order that is placed crosses the removal of its method; one that     *)
(* changes its status crosses the parcels on their way out.                *)
LEMMA OrdersKeep ==
    ASSUME ShippingInv, NEW o \in Sale, NEW step, NEW field, NEW what,
           clerk' = Told(step, field, what), UNCHANGED method,
           DOMAIN sale' = Sale, \A q \in Sale : DOMAIN sale'[q] = SaleField,
           \A q \in Sale \ {o} : sale'[q] = sale[q],
           sale'[o].method = sale[o].method \/ (step = "remove" /\ field = "row" /\ sale'[o].method = what),
           ~Shippable(o) \/ (step = "ship" /\ field = "order" /\ what = o)
    PROVE  ShippingInv'
<1>1. MethodsTypeOK /\ SalesTypeOK /\ ClerksTypeOK
  BY DEF ShippingInv
<1>2. ASSUME NEW d \in Clerk
      PROVE  /\ clerk'[d] \in ClerkRow
             /\ \/ clerk'[d] = clerk[d] /\ ~(clerk[d].step = step /\ clerk[d][field] = what)
                \/ clerk'[d] = [clerk[d] EXCEPT !.crossed = TRUE] /\ clerk[d].step = step
  <2> DEFINE heard == Told(step, field, what)[d]
  <2>1. /\ heard \in ClerkRow
        /\ \/ heard = clerk[d] /\ ~(clerk[d].step = step /\ clerk[d][field] = what)
           \/ heard = [clerk[d] EXCEPT !.crossed = TRUE] /\ clerk[d].step = step
    BY ONLY <1>1, d \in Clerk, TellingKeeps
  <2>2. clerk'[d] = heard
    OBVIOUS
  <2> HIDE DEF heard
  <2> QED
    BY <2>1, <2>2
<1>3. MethodsTypeOK' /\ SalesTypeOK' /\ ClerksTypeOK'
  BY <1>1, <1>2 DEF MethodsTypeOK, SalesTypeOK, ClerksTypeOK, Told
<1>4. ASSUME NEW d \in Clerk PROVE RowFits(clerk[d])'
  <2>1. RowFits(clerk[d]) /\ clerk[d] \in ClerkRow
    BY <1>1 DEF ShippingInv, ClerksTypeOK
  <2>2. CASE clerk'[d] = clerk[d] /\ ~(clerk[d].step = step /\ clerk[d][field] = what)
    <3>1. /\ clerk[d].step \in {"update", "band"} => method'[clerk[d].row].kind # "none"
          /\ clerk[d].step = "update" => clerk[d].crossed \/ UpdateFits(clerk[d])'
          /\ clerk[d].step = "band" => clerk[d].crossed \/ BandFits(clerk[d])'
      BY <2>1, <2>2 DEF RowFits, UpdateFits, BandFits, Offered
    <3>2. clerk[d].step = "remove" => clerk[d].crossed \/ Ordered(clerk[d].row)' = {}
      <4> SUFFICES ASSUME clerk[d].step = "remove", ~clerk[d].crossed
                   PROVE  Ordered(clerk[d].row)' = {}
        OBVIOUS
      <4>1. Ordered(clerk[d].row) = {}
        BY <2>1 DEF RowFits
      <4>2. sale'[o].method # clerk[d].row
        BY <2>2, <4>1 DEF Ordered
      <4> QED
        BY <2>2, <4>1, <4>2 DEF Ordered
    <3>3. clerk[d].step = "ship" => clerk[d].crossed \/ Shippable(clerk[d].order)'
      <4> SUFFICES ASSUME clerk[d].step = "ship", ~clerk[d].crossed
                   PROVE  Shippable(clerk[d].order)'
        OBVIOUS
      <4>1. Shippable(clerk[d].order) /\ clerk[d].order \in Sale
        BY <2>1 DEF RowFits, ClerkRow, Free
      <4>2. clerk[d].order # o
        BY <2>2, <4>1
      <4> QED
        BY <2>2, <4>1, <4>2 DEF Shippable
    <3> QED
      BY <2>2, <3>1, <3>2, <3>3 DEF RowFits
  <2>3. CASE clerk'[d] = [clerk[d] EXCEPT !.crossed = TRUE]
    <3>1. /\ clerk[d].step # "idle" => clerk'[d].crossed
          /\ clerk'[d].step = clerk[d].step
          /\ clerk[d].step \in {"update", "band"} => clerk'[d].row = clerk[d].row
      BY <2>1, <2>3 DEF ClerkRow, Free
    <3>2. clerk'[d].step \in {"update", "band"} => method'[clerk'[d].row].kind # "none"
      BY <2>1, <3>1 DEF RowFits
    <3> QED
      BY <3>1, <3>2 DEF RowFits
  <2> QED
    BY <1>2, <2>2, <2>3
<1>5. BandsApart' /\ FlatIsPriced'
  BY DEF ShippingInv, BandsApart, FlatIsPriced
<1> QED
  BY <1>3, <1>4, <1>5 DEF ShippingInv

LEMMA PlaceKeeps ==
    ASSUME ShippingInv, NEW o \in Sale, NEW m \in Method, Place(o, m)
    PROVE  ShippingInv'
<1>1. SalesTypeOK
  BY DEF ShippingInv
<1>2. /\ DOMAIN sale' = Sale /\ \A q \in Sale : DOMAIN sale'[q] = SaleField
      /\ \A q \in Sale \ {o} : sale'[q] = sale[q]
      /\ sale'[o].method = m
  BY <1>1 DEF Place, SalesTypeOK, SaleField
<1>3. ~Shippable(o) /\ clerk' = Told("remove", "row", m) /\ UNCHANGED method
  BY DEF Place, Shippable, Unplaced
<1> DEFINE step == "remove"
           field == "row"
<1>4. /\ clerk' = Told(step, field, m)
      /\ sale'[o].method = sale[o].method \/ (step = "remove" /\ field = "row" /\ sale'[o].method = m)
      /\ ~Shippable(o) \/ (step = "ship" /\ field = "order" /\ m = o)
  BY <1>2, <1>3
<1> HIDE DEF step, field
<1> QED
  BY <1>2, <1>3, <1>4, OrdersKeep

LEMMA SettleKeeps ==
    ASSUME ShippingInv, NEW o \in Sale, NEW pay, NEW status, Settle(o, pay, status)
    PROVE  ShippingInv'
<1>1. SalesTypeOK
  BY DEF ShippingInv
<1>2. /\ DOMAIN sale' = Sale /\ \A q \in Sale : DOMAIN sale'[q] = SaleField
      /\ \A q \in Sale \ {o} : sale'[q] = sale[q]
      /\ sale'[o].method = sale[o].method
  BY <1>1 DEF Settle, SalesTypeOK, SaleField
<1>3. clerk' = Told("ship", "order", o) /\ UNCHANGED method
  BY DEF Settle
<1> DEFINE step == "ship"
           field == "order"
<1>4. /\ clerk' = Told(step, field, o)
      /\ sale'[o].method = sale[o].method \/ (step = "remove" /\ field = "row" /\ sale'[o].method = o)
      /\ ~Shippable(o) \/ (step = "ship" /\ field = "order" /\ o = o)
  BY <1>2, <1>3
<1> HIDE DEF step, field
<1> QED
  BY <1>2, <1>3, <1>4, OrdersKeep

LEMMA ShipKeeps ==
    ASSUME ShippingInv, NEW c \in Clerk, Ship(c)
    PROVE  ShippingInv'
<1>1. MethodsTypeOK /\ SalesTypeOK /\ ClerksTypeOK
  BY DEF ShippingInv
<1>2. MethodsTypeOK' /\ SalesTypeOK' /\ ClerksTypeOK'
  BY <1>1 DEF Ship, MethodsTypeOK, SalesTypeOK, ClerksTypeOK, ClerkRow
<1>3. ASSUME NEW d \in Clerk PROVE RowFits(clerk[d])'
  <2>1. clerk'[d] = IF d = c THEN Free ELSE clerk[d]
    BY <1>1 DEF Ship, ClerksTypeOK
  <2>2. RowFits(clerk'[d])
    BY <2>1 DEF ShippingInv, RowFits, Free
  <2> QED
    BY <2>2 DEF Ship, RowFits, UpdateFits, BandFits, Offered, Ordered, Shippable
<1>4. BandsApart' /\ FlatIsPriced'
  BY DEF ShippingInv, Ship, BandsApart, FlatIsPriced
<1> QED
  BY <1>2, <1>3, <1>4 DEF ShippingInv

LEMMA ShippingStep == ShippingInv /\ [ShippingNext]_shippingVars => ShippingInv'
<1> SUFFICES ASSUME ShippingInv, [ShippingNext]_shippingVars PROVE ShippingInv'
  OBVIOUS
<1>1. ASSUME NEW c \in Clerk, NEW m \in Method,
             \/ \E kind \in Kind \cup {"absent"}, flat \in Sent : CheckUpdate(c, m, kind, flat)
             \/ CheckUnused(c, m)
             \/ \E band \in Band : CheckBand(c, m, band)
      PROVE  ShippingInv'
  BY <1>1, CheckUpdateKeeps, CheckUnusedKeeps, CheckBandKeeps
<1>2. ASSUME NEW c \in Clerk, UpdateMethod(c) \/ RemoveMethod(c) \/ AddBand(c) \/ Ship(c)
      PROVE  ShippingInv'
  BY <1>2, UpdateMethodKeeps, RemoveMethodKeeps, AddBandKeeps, ShipKeeps
<1>3. ASSUME NEW o \in Sale,
             \/ \E m \in Method : Place(o, m)
             \/ Settle(o, "PAID", "PROCESSING") \/ Settle(o, "PAID", "CANCELLED")
             \/ Settle(o, "REFUNDED", "PROCESSING")
      PROVE  ShippingInv'
  BY <1>3, PlaceKeeps, SettleKeeps
<1>4. CASE UNCHANGED shippingVars
  BY <1>4 DEF shippingVars, ShippingInv, MethodsTypeOK, SalesTypeOK, ClerksTypeOK, BandsApart,
              FlatIsPriced, RowFits, UpdateFits, BandFits, Offered, Ordered, Shippable
<1> QED
  BY <1>1, <1>2, <1>3, <1>4, CreateMethodKeeps, RemoveBandKeeps, ReadOrderKeeps DEF ShippingNext

(* However requests of administrators and checkouts interleave, bands are  *)
(* apart, flat rates priced, methods in use kept and parcels paid for, but *)
(* for the requests that another write crossed (ShippingMethodsService,    *)
(* ShipmentsService).                                                      *)
THEOREM ShippingSound == ShippingSpec => []ShippingHolds
<1>1. ShippingInv => ShippingHolds
  BY DEF ShippingInv, ShippingHolds, RemovalSparesOrders, ParcelsArePaidFor, RowFits
<1> QED
  BY ShippingInitInv, ShippingStep, <1>1, PTL DEF ShippingSpec

-----------------------------------------------------------------------------
(* Folds over lists, and the order in which a finite set can be listed.    *)

LEMMA PrefixWithin ==
    ASSUME NEW m \in Nat, NEW n \in 1..m
    PROVE  1..n \in SUBSET (1..m) /\ 1..n # {} /\ n \in Nat /\ n # 0
<1>1. n \in 1..n
  OBVIOUS
<1> QED
  BY <1>1

LEMMA MaxOfPrefix ==
    ASSUME NEW n \in Nat, n # 0
    PROVE  Max(1..n) = n /\ (1..n) \ {n} = 1..(n - 1)
<1>1. n \in 1..n /\ \A y \in 1..n : n >= y
  OBVIOUS
<1>2. \A x \in 1..n : (\A y \in 1..n : x >= y) => x = n
  OBVIOUS
<1>3. Max(1..n) = n
  BY <1>1, <1>2 DEF Max
<1> QED
  BY <1>3

(* What it means for g to fold seq by next, from base, over the subsets of its domain. *)
FoldsBy(g, next, base, seq) ==
    g = [s \in SUBSET DOMAIN seq |->
            IF s = {} THEN base ELSE LET x == Max(s) IN next[<<g[s \ {x}], seq[x]>>]]

LEMMA MaxOfSubset ==
    ASSUME NEW n \in Nat, NEW s \in SUBSET (1..n), s # {}
    PROVE  IsFiniteSet(s) /\ Max(s) \in s
<1>1. IsFiniteSet(s)
  <2>1. IsFiniteSet(1..n)
    BY FS_Interval
  <2> QED
    BY <2>1, FS_Subset
<1>2. s \subseteq Int
  OBVIOUS
<1> QED
  BY <1>1, <1>2, MaxIsMember

LEMMA FoldExists ==
    ASSUME NEW Acc, NEW Elem, NEW base \in Acc, NEW seq \in Seq(Elem),
           NEW next \in [Acc \X Elem -> Acc]
    PROVE  \E g \in [SUBSET DOMAIN seq -> Acc] : FoldsBy(g, next, base, seq)
<1> DEFINE D == DOMAIN seq
           small(n) == {s \in SUBSET D : Cardinality(s) <= n}
           step(g, s) == IF s = {} THEN base ELSE LET x == Max(s) IN next[<<g[s \ {x}], seq[x]>>]
           fine == {n \in Nat : \E g \in [small(n) -> Acc] : g = [s \in small(n) |-> step(g, s)]}
<1>a. IsFiniteSet(D) /\ D = 1..Len(seq) /\ Len(seq) \in Nat /\ \A x \in D : seq[x] \in Elem
  BY FS_Interval
<1>0. \A s \in SUBSET D : /\ IsFiniteSet(s) /\ Cardinality(s) \in Nat
                          /\ Cardinality(s) = 0 => s = {}
                          /\ s # {} => Max(s) \in s
  BY <1>a, FS_Subset, FS_CardinalityType, FS_EmptySet, MaxOfSubset
<1>1. 0 \in fine
  <2> DEFINE g0 == [s \in small(0) |-> base]
  <2>1. \A s \in small(0) : s = {}
    BY <1>0
  <2>2. g0 = [s \in small(0) |-> step(g0, s)]
    BY <2>1
  <2> QED
    BY <2>2
<1>2. ASSUME NEW n \in Nat, n \in fine PROVE n + 1 \in fine
  <2>1. PICK g \in [small(n) -> Acc] : g = [s \in small(n) |-> step(g, s)]
    BY <1>2
  <2> DEFINE k == [s \in small(n + 1) |-> step(g, s)]
  <2>2. ASSUME NEW s \in small(n + 1), s # {}, NEW x \in s
        PROVE  s \ {x} \in small(n) /\ g[s \ {x}] = k[s \ {x}] /\ g[s \ {x}] \in Acc
    <3>1. Cardinality(s \ {x}) = Cardinality(s) - 1
      BY <1>0, <2>2, FS_RemoveElement
    <3>2. s \ {x} \in small(n) /\ s \ {x} \in small(n + 1)
      BY <1>0, <3>1
    <3>3. g[s \ {x}] = step(g, s \ {x})
      <4> HIDE DEF step, small
      <4> QED
        BY <2>1, <3>2
    <3>4. k[s \ {x}] = step(g, s \ {x})
      <4> HIDE DEF step, small
      <4> QED
        BY <3>2
    <3> QED
      BY <3>2, <3>3, <3>4
  <2>3. ASSUME NEW s \in small(n + 1) PROVE step(g, s) = step(k, s) /\ step(g, s) \in Acc
    <3>1. CASE s = {}
      BY <3>1
    <3>2. CASE s # {}
      <4> DEFINE x == Max(s)
      <4>1. x \in s /\ x \in D
        BY <1>0, <3>2
      <4>2. g[s \ {x}] = k[s \ {x}] /\ g[s \ {x}] \in Acc
        <5> HIDE DEF x, k, small
        <5> QED
          BY <2>2, <3>2, <4>1
      <4>3. next[<<g[s \ {x}], seq[x]>>] \in Acc
        <5> HIDE DEF x, k, small, D
        <5> QED
          BY <4>1, <4>2, <1>a
      <4> HIDE DEF k, small
      <4> QED
        BY <3>2, <4>2, <4>3
    <3> QED
      BY <3>1, <3>2
  <2>4. k = [s \in small(n + 1) |-> step(k, s)]
    <3>1. \A s \in small(n + 1) : step(g, s) = step(k, s)
      BY <2>3
    <3> DEFINE kk == [s \in small(n + 1) |-> step(k, s)]
    <3>2. kk = k
      <4> HIDE DEF step, small
      <4> QED
        BY <3>1
    <3> QED
      BY <3>2
  <2>5. k \in [small(n + 1) -> Acc]
    <3> HIDE DEF step, small
    <3> QED
      BY <2>3
  <2> HIDE DEF k, step, small
  <2> QED
    BY <2>4, <2>5
<1>3. Cardinality(D) \in fine
  <2> HIDE DEF fine
  <2>1. Nat \subseteq fine
    BY <1>1, <1>2, NatSetInduction
  <2> QED
    BY <2>1, <1>a, FS_CardinalityType
<1>4. small(Cardinality(D)) = SUBSET D
  BY <1>a, FS_Subset
<1> QED
  BY <1>3, <1>4 DEF FoldsBy

-----------------------------------------------------------------------------
(* Orders. R puts the members of S one after the other.                    *)
RunsThrough(R, S) ==
    /\ \A a, b \in S : a = b \/ <<a, b>> \in R \/ <<b, a>> \in R
    /\ \A a, b, d \in S : <<a, b>> \in R /\ <<b, d>> \in R => <<a, d>> \in R

LEMMA LastExists ==
    ASSUME NEW S, IsFiniteSet(S), NEW R, RunsThrough(R, S)
    PROVE  S # {} => \E m \in S : \A y \in S \ {m} : <<y, m>> \in R
<1> DEFINE fine == {T \in SUBSET S : T # {} => \E m \in T : \A y \in T \ {m} : <<y, m>> \in R}
<1>1. {} \in fine
  OBVIOUS
<1>2. ASSUME NEW T \in SUBSET S, NEW x \in S \ T, T \in fine PROVE T \cup {x} \in fine
  <2>1. CASE T = {}
    <3>1. x \in T \cup {x} /\ \A y \in (T \cup {x}) \ {x} : <<y, x>> \in R
      BY <2>1
    <3> QED
      BY <3>1
  <2>2. CASE T # {}
    <3>1. PICK m \in T : \A y \in T \ {m} : <<y, m>> \in R
      BY <1>2, <2>2
    <3>2. CASE <<x, m>> \in R
      <4>1. \A y \in (T \cup {x}) \ {m} : <<y, m>> \in R
        BY <3>1, <3>2
      <4> QED
        BY <4>1
    <3>3. CASE <<m, x>> \in R
      <4>1. \A y \in (T \cup {x}) \ {x} : <<y, x>> \in R
        <5> SUFFICES ASSUME NEW y \in T PROVE <<y, x>> \in R
          OBVIOUS
        <5>1. CASE y = m
          BY <3>3, <5>1
        <5>2. CASE y # m
          <6>1. <<y, m>> \in R
            BY <3>1, <5>2
          <6> QED
            BY <3>3, <6>1 DEF RunsThrough
        <5> QED
          BY <5>1, <5>2
      <4> QED
        BY <4>1
    <3> QED
      BY <3>2, <3>3 DEF RunsThrough
  <2> QED
    BY <2>1, <2>2
<1>3. S \in fine
  <2> HIDE DEF fine
  <2> QED
    BY <1>1, <1>2, SetInduction
<1> QED
  BY <1>3

(* ids lists S in the order of R.                                            *)
SortedBy(ids, R, S) ==
    /\ ids \in [1..Cardinality(S) -> S]
    /\ \A i, j \in 1..Cardinality(S) : i # j => ids[i] # ids[j]
    /\ \A i, j \in 1..Cardinality(S) : i < j => <<ids[i], ids[j]>> \in R

LEMMA SortExists ==
    ASSUME NEW S, IsFiniteSet(S), NEW R, RunsThrough(R, S)
    PROVE  \E ids : SortedBy(ids, R, S)
<1> DEFINE fine == {n \in Nat : \A T \in SUBSET S : IsFiniteSet(T) /\ Cardinality(T) = n =>
                                    \E ids : SortedBy(ids, R, T)}
<1>1. 0 \in fine
  <2> SUFFICES ASSUME NEW T \in SUBSET S, IsFiniteSet(T), Cardinality(T) = 0
               PROVE  \E ids : SortedBy(ids, R, T)
    OBVIOUS
  <2>1. SortedBy([i \in 1..0 |-> 0], R, T)
    BY DEF SortedBy
  <2> QED
    BY <2>1
<1>2. ASSUME NEW n \in Nat, n \in fine PROVE n + 1 \in fine
  <2> SUFFICES ASSUME NEW T \in SUBSET S, IsFiniteSet(T), Cardinality(T) = n + 1
               PROVE  \E ids : SortedBy(ids, R, T)
    OBVIOUS
  <2>1. T # {} /\ RunsThrough(R, T)
    BY FS_EmptySet DEF RunsThrough
  <2>2. PICK m \in T : \A y \in T \ {m} : <<y, m>> \in R
    BY <2>1, LastExists
  <2> DEFINE U == T \ {m}
  <2>3. U \in SUBSET S /\ IsFiniteSet(U) /\ Cardinality(U) = n
    <3>1. IsFiniteSet(U) /\ Cardinality(U) = (n + 1) - 1
      BY <2>2, FS_RemoveElement
    <3>2. (n + 1) - 1 = n
      OBVIOUS
    <3> HIDE DEF U
    <3>3. U \in SUBSET S
      BY DEF U
    <3> QED
      BY <3>1, <3>2, <3>3
  <2>0. \A i \in 1..n + 1 : i = n + 1 \/ (i \in 1..n /\ i # n + 1)
    OBVIOUS
  <2>4. PICK ids : SortedBy(ids, R, U)
    BY <1>2, <2>3
  <2> DEFINE all == [i \in 1..n + 1 |-> IF i = n + 1 THEN m ELSE ids[i]]
  <2>5. \A i \in 1..n : ids[i] \in U /\ all[i] = ids[i] /\ ids[i] # m /\ <<ids[i], m>> \in R
    <3>1. ids \in [1..n -> U]
      BY <2>3, <2>4 DEF SortedBy
    <3> QED
      BY <3>1, <2>2
  <2>6. all[n + 1] = m
    OBVIOUS
  <2>7. all \in [1..n + 1 -> T]
    <3>1. \A i \in 1..n + 1 : (IF i = n + 1 THEN m ELSE ids[i]) \in T
      <4> SUFFICES ASSUME NEW i \in 1..n + 1, i # n + 1 PROVE ids[i] \in T
        OBVIOUS
      <4>1. ids[i] \in U
        BY <2>0, <2>5
      <4> QED
        BY <4>1
    <3> QED
      BY <3>1
  <2>8. \A i, j \in 1..n : i # j => ids[i] # ids[j]
    BY <2>3, <2>4 DEF SortedBy
  <2>9. \A i, j \in 1..n : i < j => <<ids[i], ids[j]>> \in R
    BY <2>3, <2>4 DEF SortedBy
  <2> HIDE DEF all, U
  <2>10. \A i, j \in 1..n + 1 : i # j => all[i] # all[j]
    <3> SUFFICES ASSUME NEW i \in 1..n + 1, NEW j \in 1..n + 1, i # j PROVE all[i] # all[j]
      OBVIOUS
    <3>1. CASE i = n + 1
      BY <3>1, <2>0, <2>5, <2>6
    <3>2. CASE j = n + 1
      BY <3>2, <2>0, <2>5, <2>6
    <3>3. CASE i # n + 1 /\ j # n + 1
      BY <3>3, <2>0, <2>5, <2>8
    <3> QED
      BY <3>1, <3>2, <3>3
  <2>11. \A i, j \in 1..n + 1 : i < j => <<all[i], all[j]>> \in R
    <3> SUFFICES ASSUME NEW i \in 1..n + 1, NEW j \in 1..n + 1, i < j PROVE <<all[i], all[j]>> \in R
      OBVIOUS
    <3>1. CASE j = n + 1
      <4>1. i \in 1..n
        BY <3>1
      <4> QED
        BY <3>1, <4>1, <2>5, <2>6
    <3>2. CASE j \in 1..n
      <4>1. i \in 1..n
        BY <3>2
      <4> QED
        BY <3>2, <4>1, <2>5, <2>9
    <3> QED
      BY <3>1, <3>2
  <2>12. SortedBy(all, R, T)
    BY <2>7, <2>10, <2>11 DEF SortedBy
  <2> QED
    BY <2>12
<1>3. Cardinality(S) \in fine
  <2> HIDE DEF fine
  <2>1. Nat \subseteq fine
    BY <1>1, <1>2, NatSetInduction
  <2> QED
    BY <2>1, FS_CardinalityType
<1> QED
  BY <1>3

-----------------------------------------------------------------------------
(* What the storefront shows: Shopfront.                                   *)

(* What a list of products may come from.                                  *)
Origin == {"curated", "bought-together", "same-platform", "same-category", "best-seller",
           "best-sellers", "top-rated", "featured", "together", "compatible", "advice"}


-----------------------------------------------------------------------------
(* What fetchProductsByIds keeps.                                          *)

FetchedBy(g, ids) ==
    g = [s \in SUBSET DOMAIN ids |->
            IF s = {} THEN <<>>
            ELSE LET x == Max(s) IN IF onSale[ids[x]] THEN Append(g[s \ {x}], ids[x]) ELSE g[s \ {x}]]

(* The values h that the fold passes through.                              *)
FetchedPath(h, ids) ==
    /\ h \in [0..Len(ids) -> Seq(Article)]
    /\ h[0] = <<>> /\ Fetched(ids) = h[Len(ids)]
    /\ \A n \in 1..Len(ids) : h[n] = IF onSale[ids[n]] THEN Append(h[n - 1], ids[n]) ELSE h[n - 1]

LEMMA FetchedSteps ==
    ASSUME NEW ids \in Seq(Article)
    PROVE  \E h : FetchedPath(h, ids)
<1> DEFINE Acc == Seq(Article)
           Elem == Article
           next == [x \in Acc \X Elem |-> IF onSale[x[2]] THEN Append(x[1], x[2]) ELSE x[1]]
<1>0. ids \in Seq(Elem) /\ DOMAIN ids = 1..Len(ids) /\ Len(ids) \in Nat
  BY LenProperties
<1>1. next \in [Acc \X Elem -> Acc] /\ <<>> \in Acc
  OBVIOUS
<1>2. \A a \in Acc, e \in Elem : next[<<a, e>>] = IF onSale[e] THEN Append(a, e) ELSE a
  OBVIOUS
<1>2a. \A a \in Acc, e \in Elem : next[<<a, e>>] \in Acc
  <2> HIDE DEF Acc, Elem, next
  <2> QED
    BY <1>1
<1> HIDE DEF next
<1>3. \E g \in [SUBSET DOMAIN ids -> Acc] : FoldsBy(g, next, <<>>, ids)
  <2> HIDE DEF Acc, Elem
  <2> QED
    BY <1>0, <1>1, FoldExists
<1>4. ASSUME NEW g \in [SUBSET DOMAIN ids -> Acc]
      PROVE  FoldsBy(g, next, <<>>, ids) <=> FetchedBy(g, ids)
  <2> DEFINE one(s) == IF s = {} THEN <<>> ELSE LET x == Max(s) IN next[<<g[s \ {x}], ids[x]>>]
             two(s) == IF s = {} THEN <<>>
                       ELSE LET x == Max(s) IN IF onSale[ids[x]] THEN Append(g[s \ {x}], ids[x]) ELSE g[s \ {x}]
  <2>1. \A s \in SUBSET DOMAIN ids : one(s) = two(s)
    <3> SUFFICES ASSUME NEW s \in SUBSET DOMAIN ids, s # {} PROVE one(s) = two(s)
      OBVIOUS
    <3>1. Max(s) \in s
      BY <1>0, MaxOfSubset
    <3>2. \A x \in s : g[s \ {x}] \in Acc /\ ids[x] \in Elem
      <4> HIDE DEF Acc, Elem
      <4> QED
        BY <1>0
    <3> HIDE DEF Acc, Elem
    <3> QED
      BY <3>1, <3>2, <1>2
  <2>2. [s \in SUBSET DOMAIN ids |-> one(s)] = [s \in SUBSET DOMAIN ids |-> two(s)]
    <3> HIDE DEF one, two
    <3> QED
      BY <2>1
  <2> QED
    BY <2>2 DEF FoldsBy, FetchedBy
<1> DEFINE f == CHOOSE g : FetchedBy(g, ids)
<1>5. Fetched(ids) = f[DOMAIN ids]
  BY DEF Fetched, FoldLeft, MapThenFoldSet, FetchedBy
<1>6. FetchedBy(f, ids)
  <2>1. \E g : FetchedBy(g, ids)
    <3> HIDE DEF Acc
    <3> QED
      BY <1>3, <1>4
  <2> QED
    BY <2>1
<1> HIDE DEF f
<1> DEFINE step(s) == IF s = {} THEN <<>>
                      ELSE LET x == Max(s) IN IF onSale[ids[x]] THEN Append(f[s \ {x}], ids[x]) ELSE f[s \ {x}]
<1>7. \A s \in SUBSET DOMAIN ids : f[s] = step(s)
  BY <1>6 DEF FetchedBy
<1>8. f[{}] = <<>>
  BY <1>7
<1>9. ASSUME NEW n \in 1..Len(ids) PROVE f[1..n] = IF onSale[ids[n]] THEN Append(f[1..(n - 1)], ids[n]) ELSE f[1..(n - 1)]
  <2>1. 1..n \in SUBSET DOMAIN ids /\ 1..n # {} /\ n \in Nat /\ n # 0
    BY <1>0, PrefixWithin
  <2>2. Max(1..n) = n /\ (1..n) \ {n} = 1..(n - 1)
    BY <2>1, MaxOfPrefix
  <2>3. step(1..n) = IF onSale[ids[n]] THEN Append(f[1..(n - 1)], ids[n]) ELSE f[1..(n - 1)]
    BY <2>1, <2>2
  <2> HIDE DEF step
  <2> QED
    BY <1>7, <2>1, <2>3
<1> DEFINE h == [n \in 0..Len(ids) |-> f[1..n]]
           typed == {n \in Nat : n <= Len(ids) => h[n] \in Acc}
<1>10. h[0] = <<>>
  <2>1. 1..0 = {} /\ 0 \in 0..Len(ids)
    BY <1>0
  <2> QED
    BY <1>8, <2>1
<1>11. \A n \in 1..Len(ids) : h[n] = IF onSale[ids[n]] THEN Append(h[n - 1], ids[n]) ELSE h[n - 1]
  <2> SUFFICES ASSUME NEW n \in 1..Len(ids) PROVE h[n] = IF onSale[ids[n]] THEN Append(h[n - 1], ids[n]) ELSE h[n - 1]
    OBVIOUS
  <2>1. h[n] = f[1..n] /\ h[n - 1] = f[1..(n - 1)]
    BY <1>0
  <2> HIDE DEF h
  <2> QED
    BY <1>9, <2>1
<1> HIDE DEF h
<1>12. 0 \in typed
  <2> HIDE DEF Acc
  <2> QED
    BY <1>1, <1>10
<1>13. ASSUME NEW n \in Nat, n \in typed PROVE n + 1 \in typed
  <2> SUFFICES ASSUME n + 1 <= Len(ids) PROVE h[n + 1] \in Acc
    OBVIOUS
  <2>1. n + 1 \in 1..Len(ids) /\ (n + 1) - 1 = n /\ h[n] \in Acc /\ ids[n + 1] \in Elem
    <3> HIDE DEF Acc, Elem
    <3> QED
      BY <1>0, <1>13
  <2>2. h[n + 1] = next[<<h[n], ids[n + 1]>>]
    <3>1. h[n + 1] = IF onSale[ids[n + 1]] THEN Append(h[n], ids[n + 1]) ELSE h[n]
      BY <2>1, <1>11
    <3> HIDE DEF Acc, Elem
    <3> QED
      BY <2>1, <3>1, <1>2
  <2> HIDE DEF Acc, Elem
  <2> QED
    BY <2>1, <2>2, <1>2a
<1>14. Nat \subseteq typed
  <2> HIDE DEF typed
  <2> QED
    BY <1>12, <1>13, NatSetInduction
<1>15. h \in [0..Len(ids) -> Acc]
  <2>1. \A n \in 0..Len(ids) : h[n] \in Acc
    BY <1>0, <1>14
  <2> QED
    BY <2>1 DEF h
<1>16. Fetched(ids) = h[Len(ids)]
  BY <1>0, <1>5 DEF h
<1> QED
  BY <1>10, <1>11, <1>15, <1>16 DEF FetchedPath

(* What is kept is on sale; where all is on sale, all is kept.             *)
LEMMA FetchedOnSale ==
    ASSUME NEW ids \in Seq(Article)
    PROVE  /\ Fetched(ids) \in Seq(Article)
           /\ \A i \in DOMAIN Fetched(ids) : onSale[Fetched(ids)[i]]
           /\ (\A i \in DOMAIN ids : onSale[ids[i]]) => Fetched(ids) = ids
<1>p. PICK h : FetchedPath(h, ids)
  BY FetchedSteps
<1>1. /\ h \in [0..Len(ids) -> Seq(Article)]
      /\ h[0] = <<>> /\ Fetched(ids) = h[Len(ids)]
      /\ \A n \in 1..Len(ids) :
            h[n] = IF onSale[ids[n]] THEN Append(h[n - 1], ids[n]) ELSE h[n - 1]
  BY <1>p DEF FetchedPath
<1> DEFINE sold(n) == \A i \in DOMAIN h[n] : onSale[h[n][i]]
           same(n) == (\A i \in DOMAIN ids : onSale[ids[i]]) =>
                          Len(h[n]) = n /\ \A i \in 1..n : h[n][i] = ids[i]
           fine == {n \in Nat : n <= Len(ids) => sold(n) /\ same(n)}
<1>2. 0 \in fine
  BY <1>1
<1>3. ASSUME NEW n \in Nat, n \in fine PROVE n + 1 \in fine
  <2> SUFFICES ASSUME n + 1 <= Len(ids) PROVE sold(n + 1) /\ same(n + 1)
    OBVIOUS
  <2>1. /\ n + 1 \in 1..Len(ids) /\ n + 1 \in DOMAIN ids /\ (n + 1) - 1 = n
        /\ ids[n + 1] \in Article /\ n \in 0..Len(ids) /\ n + 1 \in 0..Len(ids)
    OBVIOUS
  <2>2. sold(n) /\ same(n) /\ h[n] \in Seq(Article) /\ h[n + 1] \in Seq(Article)
    BY <1>1, <1>3, <2>1
  <2>3. h[n + 1] = IF onSale[ids[n + 1]] THEN Append(h[n], ids[n + 1]) ELSE h[n]
    BY <1>1, <2>1
  <2>4. sold(n + 1)
    BY <2>1, <2>2, <2>3
  <2>5. same(n + 1)
    <3> SUFFICES ASSUME \A i \in DOMAIN ids : onSale[ids[i]]
                 PROVE  Len(h[n + 1]) = n + 1 /\ \A i \in 1..n + 1 : h[n + 1][i] = ids[i]
      OBVIOUS
    <3>1. h[n + 1] = Append(h[n], ids[n + 1]) /\ Len(h[n]) = n /\ \A i \in 1..n : h[n][i] = ids[i]
      BY <2>1, <2>2, <2>3
    <3> QED
      BY <2>1, <2>2, <3>1
  <2> QED
    BY <2>4, <2>5
<1>4. Nat \subseteq fine
  <2> HIDE DEF fine
  <2> QED
    BY <1>2, <1>3, NatSetInduction
<1>5. Len(ids) \in Nat /\ Len(ids) \in 0..Len(ids) /\ h[Len(ids)] \in Seq(Article)
  BY <1>1
<1>6. sold(Len(ids)) /\ same(Len(ids))
  BY <1>4, <1>5
<1>7. ASSUME \A i \in DOMAIN ids : onSale[ids[i]] PROVE h[Len(ids)] = ids
  <2>1. Len(h[Len(ids)]) = Len(ids) /\ \A i \in 1..Len(ids) : h[Len(ids)][i] = ids[i]
    BY <1>6, <1>7
  <2> QED
    BY <1>5, <2>1, SeqEqual
<1> QED
  BY <1>1, <1>5, <1>6, <1>7

-----------------------------------------------------------------------------
(* What a source adds to the recommendations.                              *)

PickedBy(g, p, picked, ids, source) ==
    g = [s \in SUBSET DOMAIN ids |->
            IF s = {} THEN picked
            ELSE LET x == Max(s) IN IF ids[x] = p \/ Len(g[s \ {x}]) >= ListSize \/ \E i \in DOMAIN g[s \ {x}] : g[s \ {x}][i][1] = ids[x] THEN g[s \ {x}] ELSE Append(g[s \ {x}], <<ids[x], source>>)]

(* The values h that the fold passes through.                              *)
PickPath(h, p, picked, ids, source) ==
    /\ h \in [0..Len(ids) -> Seq(Article \X Origin)]
    /\ h[0] = picked /\ Pick(p, picked, ids, source) = h[Len(ids)]
    /\ \A n \in 1..Len(ids) : h[n] = IF ids[n] = p \/ Len(h[n - 1]) >= ListSize \/ \E i \in DOMAIN h[n - 1] : h[n - 1][i][1] = ids[n] THEN h[n - 1] ELSE Append(h[n - 1], <<ids[n], source>>)

LEMMA PickSteps ==
    ASSUME NEW p, NEW ids \in Seq(Article), NEW source \in Origin, NEW picked \in Seq(Article \X Origin)
    PROVE  \E h : PickPath(h, p, picked, ids, source)
<1> DEFINE Acc == Seq(Article \X Origin)
           Elem == Article
           next == [x \in Acc \X Elem |-> IF x[2] = p \/ Len(x[1]) >= ListSize \/ \E i \in DOMAIN x[1] : x[1][i][1] = x[2] THEN x[1] ELSE Append(x[1], <<x[2], source>>)]
<1>0. ids \in Seq(Elem) /\ DOMAIN ids = 1..Len(ids) /\ Len(ids) \in Nat
  BY LenProperties
<1>1. next \in [Acc \X Elem -> Acc] /\ picked \in Acc
  OBVIOUS
<1>2. \A a \in Acc, e \in Elem : next[<<a, e>>] = IF e = p \/ Len(a) >= ListSize \/ \E i \in DOMAIN a : a[i][1] = e THEN a ELSE Append(a, <<e, source>>)
  OBVIOUS
<1>2a. \A a \in Acc, e \in Elem : next[<<a, e>>] \in Acc
  <2> HIDE DEF Acc, Elem, next
  <2> QED
    BY <1>1
<1> HIDE DEF next
<1>3. \E g \in [SUBSET DOMAIN ids -> Acc] : FoldsBy(g, next, picked, ids)
  <2> HIDE DEF Acc, Elem
  <2> QED
    BY <1>0, <1>1, FoldExists
<1>4. ASSUME NEW g \in [SUBSET DOMAIN ids -> Acc]
      PROVE  FoldsBy(g, next, picked, ids) <=> PickedBy(g, p, picked, ids, source)
  <2> DEFINE one(s) == IF s = {} THEN picked ELSE LET x == Max(s) IN next[<<g[s \ {x}], ids[x]>>]
             two(s) == IF s = {} THEN picked
                       ELSE LET x == Max(s) IN IF ids[x] = p \/ Len(g[s \ {x}]) >= ListSize \/ \E i \in DOMAIN g[s \ {x}] : g[s \ {x}][i][1] = ids[x] THEN g[s \ {x}] ELSE Append(g[s \ {x}], <<ids[x], source>>)
  <2>1. \A s \in SUBSET DOMAIN ids : one(s) = two(s)
    <3> SUFFICES ASSUME NEW s \in SUBSET DOMAIN ids, s # {} PROVE one(s) = two(s)
      OBVIOUS
    <3>1. Max(s) \in s
      BY <1>0, MaxOfSubset
    <3>2. \A x \in s : g[s \ {x}] \in Acc /\ ids[x] \in Elem
      <4> HIDE DEF Acc, Elem
      <4> QED
        BY <1>0
    <3> HIDE DEF Acc, Elem
    <3> QED
      BY <3>1, <3>2, <1>2
  <2>2. [s \in SUBSET DOMAIN ids |-> one(s)] = [s \in SUBSET DOMAIN ids |-> two(s)]
    <3> HIDE DEF one, two
    <3> QED
      BY <2>1
  <2> QED
    BY <2>2 DEF FoldsBy, PickedBy
<1> DEFINE f == CHOOSE g : PickedBy(g, p, picked, ids, source)
<1>5. Pick(p, picked, ids, source) = f[DOMAIN ids]
  BY DEF Pick, FoldLeft, MapThenFoldSet, PickedBy
<1>6. PickedBy(f, p, picked, ids, source)
  <2>1. \E g : PickedBy(g, p, picked, ids, source)
    <3> HIDE DEF Acc
    <3> QED
      BY <1>3, <1>4
  <2> QED
    BY <2>1
<1> HIDE DEF f
<1> DEFINE step(s) == IF s = {} THEN picked
                      ELSE LET x == Max(s) IN IF ids[x] = p \/ Len(f[s \ {x}]) >= ListSize \/ \E i \in DOMAIN f[s \ {x}] : f[s \ {x}][i][1] = ids[x] THEN f[s \ {x}] ELSE Append(f[s \ {x}], <<ids[x], source>>)
<1>7. \A s \in SUBSET DOMAIN ids : f[s] = step(s)
  BY <1>6 DEF PickedBy
<1>8. f[{}] = picked
  BY <1>7
<1>9. ASSUME NEW n \in 1..Len(ids) PROVE f[1..n] = IF ids[n] = p \/ Len(f[1..(n - 1)]) >= ListSize \/ \E i \in DOMAIN f[1..(n - 1)] : f[1..(n - 1)][i][1] = ids[n] THEN f[1..(n - 1)] ELSE Append(f[1..(n - 1)], <<ids[n], source>>)
  <2>1. 1..n \in SUBSET DOMAIN ids /\ 1..n # {} /\ n \in Nat /\ n # 0
    BY <1>0, PrefixWithin
  <2>2. Max(1..n) = n /\ (1..n) \ {n} = 1..(n - 1)
    BY <2>1, MaxOfPrefix
  <2>3. step(1..n) = IF ids[n] = p \/ Len(f[1..(n - 1)]) >= ListSize \/ \E i \in DOMAIN f[1..(n - 1)] : f[1..(n - 1)][i][1] = ids[n] THEN f[1..(n - 1)] ELSE Append(f[1..(n - 1)], <<ids[n], source>>)
    BY <2>1, <2>2
  <2> HIDE DEF step
  <2> QED
    BY <1>7, <2>1, <2>3
<1> DEFINE h == [n \in 0..Len(ids) |-> f[1..n]]
           typed == {n \in Nat : n <= Len(ids) => h[n] \in Acc}
<1>10. h[0] = picked
  <2>1. 1..0 = {} /\ 0 \in 0..Len(ids)
    BY <1>0
  <2> QED
    BY <1>8, <2>1
<1>11. \A n \in 1..Len(ids) : h[n] = IF ids[n] = p \/ Len(h[n - 1]) >= ListSize \/ \E i \in DOMAIN h[n - 1] : h[n - 1][i][1] = ids[n] THEN h[n - 1] ELSE Append(h[n - 1], <<ids[n], source>>)
  <2> SUFFICES ASSUME NEW n \in 1..Len(ids) PROVE h[n] = IF ids[n] = p \/ Len(h[n - 1]) >= ListSize \/ \E i \in DOMAIN h[n - 1] : h[n - 1][i][1] = ids[n] THEN h[n - 1] ELSE Append(h[n - 1], <<ids[n], source>>)
    OBVIOUS
  <2>1. h[n] = f[1..n] /\ h[n - 1] = f[1..(n - 1)]
    BY <1>0
  <2> HIDE DEF h
  <2> QED
    BY <1>9, <2>1
<1> HIDE DEF h
<1>12. 0 \in typed
  <2> HIDE DEF Acc
  <2> QED
    BY <1>1, <1>10
<1>13. ASSUME NEW n \in Nat, n \in typed PROVE n + 1 \in typed
  <2> SUFFICES ASSUME n + 1 <= Len(ids) PROVE h[n + 1] \in Acc
    OBVIOUS
  <2>1. n + 1 \in 1..Len(ids) /\ (n + 1) - 1 = n /\ h[n] \in Acc /\ ids[n + 1] \in Elem
    <3> HIDE DEF Acc, Elem
    <3> QED
      BY <1>0, <1>13
  <2>2. h[n + 1] = next[<<h[n], ids[n + 1]>>]
    <3>1. h[n + 1] = IF ids[n + 1] = p \/ Len(h[n]) >= ListSize \/ \E i \in DOMAIN h[n] : h[n][i][1] = ids[n + 1] THEN h[n] ELSE Append(h[n], <<ids[n + 1], source>>)
      BY <2>1, <1>11
    <3> HIDE DEF Acc, Elem
    <3> QED
      BY <2>1, <3>1, <1>2
  <2> HIDE DEF Acc, Elem
  <2> QED
    BY <2>1, <2>2, <1>2a
<1>14. Nat \subseteq typed
  <2> HIDE DEF typed
  <2> QED
    BY <1>12, <1>13, NatSetInduction
<1>15. h \in [0..Len(ids) -> Acc]
  <2>1. \A n \in 0..Len(ids) : h[n] \in Acc
    BY <1>0, <1>14
  <2> QED
    BY <2>1 DEF h
<1>16. Pick(p, picked, ids, source) = h[Len(ids)]
  BY <1>0, <1>5 DEF h
<1> QED
  BY <1>10, <1>11, <1>15, <1>16 DEF PickPath

(* Room for ListSize products, each once, and never p itself.              *)
Fair(p, picked) ==
    /\ picked \in Seq(Article \X Origin) /\ Len(picked) <= ListSize
    /\ \A i \in DOMAIN picked : picked[i][1] # p
    /\ \A i, j \in DOMAIN picked : i # j => picked[i][1] # picked[j][1]

Extends(more, picked) == Len(picked) <= Len(more) /\ \A i \in 1..Len(picked) : more[i] = picked[i]

LEMMA PickKeeps ==
    ASSUME NEW p, NEW ids \in Seq(Article), NEW source \in Origin, NEW picked, Fair(p, picked)
    PROVE  Fair(p, Pick(p, picked, ids, source)) /\ Extends(Pick(p, picked, ids, source), picked)
<1>0. picked \in Seq(Article \X Origin) /\ ListSize \in Nat
  BY LimitAssumption DEF Fair
<1>p. PICK h : PickPath(h, p, picked, ids, source)
  BY <1>0, PickSteps
<1>1. /\ h \in [0..Len(ids) -> Seq(Article \X Origin)]
      /\ h[0] = picked /\ Pick(p, picked, ids, source) = h[Len(ids)]
      /\ \A n \in 1..Len(ids) : h[n] =
            IF ids[n] = p \/ Len(h[n - 1]) >= ListSize \/ \E i \in DOMAIN h[n - 1] : h[n - 1][i][1] = ids[n]
            THEN h[n - 1] ELSE Append(h[n - 1], <<ids[n], source>>)
  BY <1>p DEF PickPath
<1> DEFINE fine == {n \in Nat : n <= Len(ids) => Fair(p, h[n]) /\ Extends(h[n], picked)}
<1>2. 0 \in fine
  <2>1. Extends(picked, picked)
    BY <1>0 DEF Extends
  <2> QED
    BY <1>1, <2>1
<1>3. ASSUME NEW n \in Nat, n \in fine PROVE n + 1 \in fine
  <2> SUFFICES ASSUME n + 1 <= Len(ids) PROVE Fair(p, h[n + 1]) /\ Extends(h[n + 1], picked)
    OBVIOUS
  <2> DEFINE full == \/ ids[n + 1] = p \/ Len(h[n]) >= ListSize
                     \/ \E i \in DOMAIN h[n] : h[n][i][1] = ids[n + 1]
             e == <<ids[n + 1], source>>
  <2>1. n + 1 \in 1..Len(ids) /\ (n + 1) - 1 = n /\ ids[n + 1] \in Article /\ n <= Len(ids)
    OBVIOUS
  <2>2. Fair(p, h[n]) /\ Extends(h[n], picked)
    BY <1>3, <2>1
  <2>3. h[n + 1] = IF full THEN h[n] ELSE Append(h[n], e)
    BY <1>1, <2>1
  <2>4. CASE full
    BY <2>2, <2>3, <2>4
  <2>5. CASE ~full
    <3>1. e \in Article \X Origin /\ e[1] = ids[n + 1]
      BY <2>1
    <3>2. /\ h[n] \in Seq(Article \X Origin) /\ Len(h[n]) <= ListSize
          /\ \A i \in DOMAIN h[n] : h[n][i][1] # p
          /\ \A i, j \in DOMAIN h[n] : i # j => h[n][i][1] # h[n][j][1]
      BY <2>2 DEF Fair
    <3> HIDE DEF e
    <3> DEFINE k == h[n]
               m == Append(k, e)
    <3>3. /\ m \in Seq(Article \X Origin) /\ Len(m) = Len(k) + 1 /\ Len(k) \in Nat
          /\ \A i \in 1..Len(k) : m[i] = k[i]
          /\ m[Len(k) + 1] = e /\ DOMAIN m = 1..Len(k) + 1 /\ DOMAIN k = 1..Len(k)
      BY <3>1, <3>2, AppendProperties
    <3>4. /\ Len(k) < ListSize /\ e[1] # p
          /\ \A i \in DOMAIN k : k[i][1] # e[1]
      BY <2>5, <3>1, <3>2, <1>0, <3>3
    <3>a. h[n + 1] = m
      BY <2>3, <2>5
    <3>b. Len(k) <= ListSize /\ (\A i \in DOMAIN k : k[i][1] # p)
          /\ \A i, j \in DOMAIN k : i # j => k[i][1] # k[j][1]
      BY <3>2
    <3>c. Extends(k, picked)
      BY <2>2
    <3> HIDE DEF m, k
    <3>5. \A i \in 1..Len(k) + 1 : i = Len(k) + 1 \/ i \in 1..Len(k)
      BY <3>3
    <3>6. \A i \in DOMAIN m : m[i][1] # p
      BY <3>3, <3>4, <3>5, <3>b
    <3>7. \A i, j \in DOMAIN m : i # j => m[i][1] # m[j][1]
      BY <3>3, <3>4, <3>5, <3>b
    <3>8. Len(m) <= ListSize
      BY <3>3, <3>4, <1>0
    <3>9. Extends(m, picked)
      <4>1. Len(picked) \in Nat
        BY <1>0
      <4>2. Len(picked) <= Len(k) /\ \A i \in 1..Len(picked) : k[i] = picked[i]
        BY <3>c DEF Extends
      <4>3. \A i \in 1..Len(picked) : i \in 1..Len(k)
        BY <4>1, <4>2, <3>3
      <4>4. \A i \in 1..Len(picked) : m[i] = picked[i]
        BY <4>2, <4>3, <3>3
      <4>5. Len(picked) <= Len(m)
        BY <4>1, <4>2, <3>3
      <4> QED
        BY <4>4, <4>5 DEF Extends
    <3> QED
      BY <3>a, <3>3, <3>6, <3>7, <3>8, <3>9 DEF Fair
  <2> QED
    BY <2>4, <2>5
<1>4. Nat \subseteq fine
  <2> HIDE DEF fine
  <2> QED
    BY <1>2, <1>3, NatSetInduction
<1>5. Len(ids) \in Nat
  OBVIOUS
<1> QED
  BY <1>1, <1>4, <1>5

(* The first picks, to the limit, come at once, in the editor's order.     *)
AllFrom(x, source) == \A k \in 1..Len(x) : x[k][2] = source

Has(x, ids, i, source) == \E k \in 1..i : k <= Len(x) /\ x[k] = <<ids[i], source>>

FirstIn(x, p, ids, n, source) ==
    /\ Len(x) <= n /\ AllFrom(x, source)
    /\ \A i \in 1..n : i <= ListSize /\ ids[i] # p => Has(x, ids, i, source)

(* An article the recommendations pass by.                                 *)
Passed(p, picked, id) ==
    id = p \/ Len(picked) >= ListSize \/ \E i \in DOMAIN picked : picked[i][1] = id

LEMMA FirstInKept ==
    ASSUME NEW p, NEW ids, NEW source, NEW n \in Nat,
           NEW E, \A e \in E : e = <<e[1], e[2]>>,
           NEW x \in Seq(E), FirstIn(x, p, ids, n, source),
           Passed(p, x, ids[n + 1])
    PROVE  FirstIn(x, p, ids, n + 1, source)
<1>1. /\ Len(x) \in Nat /\ Len(x) <= n /\ AllFrom(x, source) /\ ListSize \in Nat
      /\ \A i \in 1..n : i <= ListSize /\ ids[i] # p => Has(x, ids, i, source)
  BY LimitAssumption DEF FirstIn
<1>2. \A i \in 1..n + 1 : i = n + 1 \/ i \in 1..n
  OBVIOUS
<1>3. CASE ids[n + 1] = p \/ Len(x) >= ListSize
  <2>1. ~ (n + 1 <= ListSize /\ ids[n + 1] # p)
    BY <1>1, <1>3
  <2> QED
    BY <1>1, <1>2, <2>1 DEF FirstIn
<1>4. CASE \E i \in DOMAIN x : x[i][1] = ids[n + 1]
  <2>1. PICK k \in 1..Len(x) : x[k][1] = ids[n + 1]
    BY <1>1, <1>4
  <2>2. k \in 1..Len(x) /\ k \in 1..n + 1 /\ k <= Len(x) /\ x[k] \in E
    BY <1>1
  <2>3. x[k][2] = source
    BY <1>1, <2>2 DEF AllFrom
  <2>4. x[k] = <<ids[n + 1], source>>
    BY <2>1, <2>2, <2>3
  <2>5. Has(x, ids, n + 1, source)
    BY <2>2, <2>4 DEF Has
  <2> QED
    BY <1>1, <1>2, <2>5 DEF FirstIn
<1> QED
  BY <1>3, <1>4 DEF Passed

LEMMA FirstInMore ==
    ASSUME NEW p, NEW ids, NEW source,
           NEW n \in Nat, NEW E, NEW e \in E, e = <<ids[n + 1], source>>,
           NEW x \in Seq(E), FirstIn(x, p, ids, n, source)
    PROVE  FirstIn(Append(x, e), p, ids, n + 1, source)
<1> DEFINE y == Append(x, e)
<1>1. /\ Len(x) \in Nat /\ Len(x) <= n /\ AllFrom(x, source) /\ ListSize \in Nat
      /\ \A i \in 1..n : i <= ListSize /\ ids[i] # p => Has(x, ids, i, source)
  BY LimitAssumption DEF FirstIn
<1>2. \A i \in 1..n + 1 : i = n + 1 \/ i \in 1..n
  OBVIOUS
<1>3. /\ Len(y) = Len(x) + 1 /\ y[Len(x) + 1] = e
      /\ \A i \in 1..Len(x) : y[i] = x[i]
  BY AppendProperties
<1> HIDE DEF y
<1>4. AllFrom(y, source)
  <2>1. \A k \in 1..Len(x) + 1 : k = Len(x) + 1 \/ k \in 1..Len(x)
    BY <1>1
  <2>2. e[2] = source
    OBVIOUS
  <2> QED
    BY <1>1, <1>3, <2>1, <2>2 DEF AllFrom
<1>5. Has(y, ids, n + 1, source)
  <2>1. Len(x) + 1 \in 1..n + 1 /\ Len(x) + 1 <= Len(y)
    BY <1>1, <1>3
  <2> QED
    BY <1>3, <2>1 DEF Has
<1>6. ASSUME NEW i \in 1..n, Has(x, ids, i, source) PROVE Has(y, ids, i, source)
  <2>1. PICK k \in 1..i : k <= Len(x) /\ x[k] = <<ids[i], source>>
    BY <1>6 DEF Has
  <2>2. k \in 1..Len(x) /\ k <= Len(y)
    BY <1>1, <1>3, <2>1
  <2>3. y[k] = <<ids[i], source>>
    BY <1>3, <2>1, <2>2
  <2> QED
    BY <2>2, <2>3 DEF Has
<1>7. Len(y) <= n + 1
  BY <1>1, <1>3
<1>8. \A i \in 1..n : i <= ListSize /\ ids[i] # p => Has(y, ids, i, source)
  BY <1>1, <1>6
<1>9. FirstIn(y, p, ids, n + 1, source)
  BY <1>2, <1>4, <1>5, <1>7, <1>8 DEF FirstIn
<1> QED
  BY <1>9 DEF y

LEMMA PickFirst ==
    ASSUME NEW p \in Article, NEW ids \in Seq(Article), NEW source \in Origin
    PROVE  FirstIn(Pick(p, <<>>, ids, source), p, ids, Len(ids), source)
<1>0. <<>> \in Seq(Article \X Origin) /\ Len(ids) \in Nat
  OBVIOUS
<1>p. PICK h : PickPath(h, p, <<>>, ids, source)
  BY <1>0, PickSteps
<1>1. /\ h \in [0..Len(ids) -> Seq(Article \X Origin)]
      /\ h[0] = <<>> /\ Pick(p, <<>>, ids, source) = h[Len(ids)]
      /\ \A n \in 1..Len(ids) : h[n] = IF Passed(p, h[n - 1], ids[n]) THEN h[n - 1] ELSE Append(h[n - 1], <<ids[n], source>>)
  BY <1>p DEF PickPath, Passed
<1> DEFINE fine == {n \in Nat : n <= Len(ids) => FirstIn(h[n], p, ids, n, source)}
<1>2. 0 \in fine
  <2>1. FirstIn(<<>>, p, ids, 0, source)
    BY DEF FirstIn, AllFrom
  <2> QED
    BY <1>1, <2>1
<1>3. ASSUME NEW n \in Nat, n \in fine PROVE n + 1 \in fine
  <2>0. SUFFICES ASSUME n + 1 <= Len(ids) PROVE FirstIn(h[n + 1], p, ids, n + 1, source)
    <3>1. n + 1 <= Len(ids) => FirstIn(h[n + 1], p, ids, n + 1, source)
      BY <2>0
    <3>2. n + 1 \in Nat
      OBVIOUS
    <3> QED
      BY <3>1, <3>2, Zenon
  <2>1. n + 1 \in 1..Len(ids) /\ (n + 1) - 1 = n /\ n <= Len(ids)
    BY <1>0, <2>0
  <2>2. FirstIn(h[n], p, ids, n, source)
    BY <1>3, <2>1
  <2>3. h[n + 1] = IF Passed(p, h[n], ids[n + 1]) THEN h[n] ELSE Append(h[n], <<ids[n + 1], source>>)
    BY <1>1, <2>1
  <2>4. h[n] \in Seq(Article \X Origin) /\ ids[n + 1] \in Article
    <3>1. n \in 0..Len(ids)
      BY <2>1
    <3> QED
      BY <1>1, <2>1, <3>1
  <2>5. CASE Passed(p, h[n], ids[n + 1])
    <3> DEFINE E == Article \X Origin
    <3>1. \A e \in E : e = <<e[1], e[2]>>
      OBVIOUS
    <3> HIDE DEF E
    <3>2. FirstIn(h[n], p, ids, n + 1, source)
      BY <2>2, <2>4, <2>5, <3>1, FirstInKept DEF E
    <3> QED
      BY <2>3, <2>5, <3>2
  <2>6. CASE ~Passed(p, h[n], ids[n + 1])
    <3>1. <<ids[n + 1], source>> \in Article \X Origin
      BY <2>4
    <3>2. FirstIn(Append(h[n], <<ids[n + 1], source>>), p, ids, n + 1, source)
      BY <2>2, <2>4, <3>1, FirstInMore
    <3> QED
      BY <2>3, <2>6, <3>2
  <2> QED
    BY <2>5, <2>6
<1>4. Nat \subseteq fine
  <2> HIDE DEF fine
  <2> QED
    BY <1>2, <1>3, NatSetInduction
<1>5. FirstIn(h[Len(ids)], p, ids, Len(ids), source)
  <2>1. Len(ids) \in fine
    <3> HIDE DEF fine
    <3> QED
      BY <1>0, <1>4
  <2>2. Len(ids) <= Len(ids)
    BY <1>0
  <2> QED
    BY <2>1, <2>2, Zenon
<1> HIDE DEF fine
<1> QED
  BY <1>1, <1>5

-----------------------------------------------------------------------------
(* The orders of a listing.                                                *)

(* ids names every member of S once.                                       *)
Names(ids, S) ==
    /\ ids \in Seq(S) /\ Len(ids) = Cardinality(S)
    /\ \A i, j \in DOMAIN ids : i # j => ids[i] # ids[j]

LEMMA NamesMeans ==
    ASSUME NEW S, IsFiniteSet(S), NEW ids
    PROVE  ids \in SetToSeqs(S) <=> Names(ids, S)
<1>1. Cardinality(S) \in Nat
  BY FS_CardinalityType
<1>2. ASSUME ids \in SetToSeqs(S) PROVE Names(ids, S)
  <2>1. ids \in [1..Cardinality(S) -> S] /\ \A i, j \in 1..Cardinality(S) : i # j => ids[i] # ids[j]
    BY <1>2 DEF SetToSeqs
  <2>2. ids \in Seq(S) /\ Len(ids) = Cardinality(S) /\ DOMAIN ids = 1..Cardinality(S)
    BY <1>1, <2>1
  <2> QED
    BY <2>1, <2>2 DEF Names
<1>3. ASSUME Names(ids, S) PROVE ids \in SetToSeqs(S)
  <2>1. ids \in Seq(S) /\ Len(ids) = Cardinality(S)
        /\ \A i, j \in DOMAIN ids : i # j => ids[i] # ids[j]
    BY <1>3 DEF Names
  <2>2. DOMAIN ids = 1..Cardinality(S) /\ ids \in [1..Cardinality(S) -> S]
    BY <2>1, LenProperties
  <2> QED
    BY <2>1, <2>2 DEF SetToSeqs
<1> QED
  BY <1>2, <1>3

LEMMA InOrderExists ==
    ASSUME NEW S, IsFiniteSet(S), NEW R, RunsThrough(R, S)
    PROVE  \E ids \in SetToSeqs(S) : \A i, j \in DOMAIN ids : i < j => <<ids[i], ids[j]>> \in R
<1>1. PICK ids : SortedBy(ids, R, S)
  BY SortExists
<1>2. DOMAIN ids = 1..Cardinality(S)
  BY <1>1 DEF SortedBy
<1>3. ids \in SetToSeqs(S)
  BY <1>1 DEF SortedBy, SetToSeqs
<1>4. \A i, j \in DOMAIN ids : i < j => <<ids[i], ids[j]>> \in R
  BY <1>1, <1>2 DEF SortedBy
<1> QED
  BY <1>3, <1>4

(* By a value, equal ones by number.                                       *)
ByValue(v, S) == {x \in S \X S : v[x[1]] < v[x[2]] \/ (v[x[1]] = v[x[2]] /\ x[1] < x[2])}

LEMMA ByValueRuns ==
    ASSUME NEW S, S \subseteq Nat, NEW v, \A x \in S : v[x] \in Int
    PROVE  /\ RunsThrough(ByValue(v, S), S)
           /\ \A a, b \in S : <<a, b>> \in ByValue(v, S) <=> v[a] < v[b] \/ (v[a] = v[b] /\ a < b)
<1>1. \A a, b \in S : <<a, b>> \in ByValue(v, S) <=> v[a] < v[b] \/ (v[a] = v[b] /\ a < b)
  BY DEF ByValue
<1>2. \A a, b \in S : a = b \/ <<a, b>> \in ByValue(v, S) \/ <<b, a>> \in ByValue(v, S)
  <2> SUFFICES ASSUME NEW a \in S, NEW b \in S, a # b
               PROVE  <<a, b>> \in ByValue(v, S) \/ <<b, a>> \in ByValue(v, S)
    OBVIOUS
  <2>1. v[a] \in Int /\ v[b] \in Int /\ a \in Nat /\ b \in Nat
    OBVIOUS
  <2>2. v[a] < v[b] \/ v[b] < v[a] \/ (v[a] = v[b] /\ (a < b \/ b < a))
    BY <2>1
  <2> QED
    BY <1>1, <2>2
<1>3. \A a, b, d \in S : <<a, b>> \in ByValue(v, S) /\ <<b, d>> \in ByValue(v, S) => <<a, d>> \in ByValue(v, S)
  BY <1>1
<1> QED
  BY <1>1, <1>2, <1>3 DEF RunsThrough

(* By a fraction, the largest first, equal ones by number.                 *)
ByFraction(n, d, S) ==
    {x \in S \X S : \/ n[x[1]] * d[x[2]] > n[x[2]] * d[x[1]]
                    \/ ~ (n[x[2]] * d[x[1]] > n[x[1]] * d[x[2]]) /\ x[1] < x[2]}

LEMMA Cross ==
    ASSUME NEW a \in Int, NEW b \in Int, NEW c \in Int, NEW p \in Int, NEW q \in Int, NEW r \in Int,
           p > 0, q > 0, r > 0, a * q >= b * p, b * r >= c * q
    PROVE  a * r >= c * p
<1>1. (a * q) * r >= (b * p) * r
  BY Z3
<1>2. (b * r) * p >= (c * q) * p
  BY Z3
<1>3. (a * q) * r = q * (a * r) /\ (c * q) * p = q * (c * p) /\ (b * r) * p = (b * p) * r
  BY Z3
<1>4. q * (a * r) >= q * (c * p)
  BY <1>1, <1>2, <1>3
<1>5. a * r \in Int /\ c * p \in Int
  OBVIOUS
<1> QED
  BY <1>4, <1>5, Z3

LEMMA CrossStrictly ==
    ASSUME NEW a \in Int, NEW b \in Int, NEW c \in Int, NEW p \in Int, NEW q \in Int, NEW r \in Int,
           p > 0, q > 0, r > 0, a * q >= b * p, b * r >= c * q, a * q > b * p \/ b * r > c * q
    PROVE  a * r > c * p
<1>1. ASSUME c * p >= a * r PROVE b * p >= a * q /\ c * q >= b * r
  <2>1. b * p >= a * q
    BY <1>1, Cross
  <2>2. c * q >= b * r
    BY <1>1, Cross
  <2> QED
    BY <2>1, <2>2
<1>2. a * r \in Int /\ c * p \in Int /\ a * q \in Int /\ b * p \in Int /\ b * r \in Int /\ c * q \in Int
  OBVIOUS
<1>3. ~ (c * p >= a * r)
  <2> SUFFICES ASSUME c * p >= a * r PROVE FALSE
    OBVIOUS
  <2>1. b * p >= a * q /\ c * q >= b * r
    BY <1>1
  <2> QED
    BY <1>2, <2>1
<1> QED
  BY <1>2, <1>3

LEMMA ByFractionRuns ==
    ASSUME NEW S, S \subseteq Nat, NEW n, NEW d, \A x \in S : n[x] \in Int /\ d[x] \in Int /\ d[x] > 0
    PROVE  /\ RunsThrough(ByFraction(n, d, S), S)
           /\ \A a, b \in S : <<a, b>> \in ByFraction(n, d, S) <=>
                  \/ n[a] * d[b] > n[b] * d[a]
                  \/ ~ (n[b] * d[a] > n[a] * d[b]) /\ a < b
<1> DEFINE R == ByFraction(n, d, S)
<1>1. \A a, b \in S : <<a, b>> \in R <=> \/ n[a] * d[b] > n[b] * d[a]
                                         \/ ~ (n[b] * d[a] > n[a] * d[b]) /\ a < b
  BY DEF ByFraction
<1> HIDE DEF R
<1>2. ASSUME NEW a \in S, NEW b \in S, a # b PROVE <<a, b>> \in R \/ <<b, a>> \in R
  <2>1. /\ n[a] * d[b] \in Int /\ n[b] * d[a] \in Int /\ a \in Nat /\ b \in Nat
    <3>1. n[a] \in Int /\ d[b] \in Int /\ n[b] \in Int /\ d[a] \in Int
      OBVIOUS
    <3> QED
      BY <3>1
  <2>2. \/ n[a] * d[b] > n[b] * d[a] \/ n[b] * d[a] > n[a] * d[b]
        \/ ~ (n[b] * d[a] > n[a] * d[b]) /\ ~ (n[a] * d[b] > n[b] * d[a]) /\ (a < b \/ b < a)
    BY <1>2, <2>1
  <2> QED
    BY <1>1, <2>2
<1>3. ASSUME NEW a \in S, NEW b \in S, NEW e \in S, <<a, b>> \in R, <<b, e>> \in R PROVE <<a, e>> \in R
  <2>1. /\ n[a] \in Int /\ n[b] \in Int /\ n[e] \in Int /\ d[a] \in Int /\ d[b] \in Int /\ d[e] \in Int
        /\ d[a] > 0 /\ d[b] > 0 /\ d[e] > 0
    OBVIOUS
  <2>2. /\ n[a] * d[b] \in Int /\ n[b] * d[a] \in Int /\ n[b] * d[e] \in Int /\ n[e] * d[b] \in Int
        /\ n[a] * d[e] \in Int /\ n[e] * d[a] \in Int /\ a \in Nat /\ b \in Nat /\ e \in Nat
    BY <2>1
  <2>3. n[a] * d[b] >= n[b] * d[a] /\ n[b] * d[e] >= n[e] * d[b]
    BY <1>1, <1>3, <2>2
  <2>4. n[a] * d[e] >= n[e] * d[a]
    BY <2>1, <2>3, Cross
  <2>5. n[a] * d[b] > n[b] * d[a] \/ n[b] * d[e] > n[e] * d[b] => n[a] * d[e] > n[e] * d[a]
    BY <2>1, <2>3, CrossStrictly
  <2>6. n[a] * d[b] > n[b] * d[a] \/ n[b] * d[e] > n[e] * d[b] \/ a < e
    BY <1>1, <1>3, <2>2
  <2>7. \/ n[a] * d[e] > n[e] * d[a]
        \/ ~ (n[e] * d[a] > n[a] * d[e]) /\ a < e
    BY <2>2, <2>4, <2>5, <2>6
  <2> QED
    BY <1>1, <2>7
<1>4. RunsThrough(R, S)
  BY <1>2, <1>3 DEF RunsThrough
<1> QED
  BY <1>1, <1>4 DEF R

OffersOK == offers \in [Article -> Seq(Variation)]

LEMMA PriceIsNat ==
    ASSUME OffersOK, NEW p \in Article, offers[p] # <<>>
    PROVE  /\ Price(p) \in Nat /\ Price(p) = Charged(offers[p][1])
           /\ offers[p][1] \in Variation
<1>1. offers[p] \in Seq(Variation)
  BY DEF OffersOK
<1>2. offers[p][1] \in Variation
  BY <1>1
<1> QED
  BY <1>2 DEF Price, Charged, Variation

LEMMA FractionIsNumber ==
    ASSUME OffersOK, NEW p \in Article, Reduced(p)
    PROVE  Off(p) \in Int /\ Full(p) \in Int /\ Full(p) > 0
<1>1. offers[p] # <<>> /\ offers[p][1].sale # Absent
  BY DEF Reduced
<1>2. offers[p][1] \in Variation
  BY <1>1, PriceIsNat
<1>3. offers[p][1].price \in Nat /\ offers[p][1].sale \in Nat
  BY <1>1, <1>2 DEF Variation
<1> QED
  BY <1>3 DEF Off, Full

LEMMA SortedNames ==
    ASSUME OffersOK, NEW S, S \subseteq Article, NEW q, q.sort \in {"price_asc", "price_desc", "discount_desc"},
           \A p \in S : offers[p] # <<>> /\ (q.sort = "discount_desc" => Reduced(p))
    PROVE  /\ Names(Sorted(S, q), S)
           /\ \A i, j \in DOMAIN Sorted(S, q) : i < j => Before(Sorted(S, q)[i], Sorted(S, q)[j], q.sort)
<1>1. IsFiniteSet(S) /\ S \subseteq Nat
  BY ProductAssumption, FS_Subset
<1>2. \E R : /\ RunsThrough(R, S)
             /\ \A a, b \in S : <<a, b>> \in R <=> Before(a, b, q.sort)
  <2>1. CASE q.sort = "price_asc"
    <3> DEFINE v == [p \in S |-> Price(p)]
    <3>1. \A p \in S : v[p] = Price(p) /\ v[p] \in Int
      BY PriceIsNat
    <3>2. \A a, b \in S : Before(a, b, q.sort) <=> v[a] < v[b] \/ (v[a] = v[b] /\ a < b)
      BY <2>1, <3>1 DEF Before
    <3> HIDE DEF v
    <3>3. /\ RunsThrough(ByValue(v, S), S)
          /\ \A a, b \in S : <<a, b>> \in ByValue(v, S) <=> v[a] < v[b] \/ (v[a] = v[b] /\ a < b)
      BY <1>1, <3>1, ByValueRuns
    <3> QED
      BY <3>2, <3>3
  <2>2. CASE q.sort = "price_desc"
    <3> DEFINE v == [p \in S |-> - Price(p)]
    <3>1. \A p \in S : v[p] = - Price(p) /\ v[p] \in Int /\ Price(p) \in Nat
      BY PriceIsNat
    <3>2. \A a, b \in S : Before(a, b, q.sort) <=> v[a] < v[b] \/ (v[a] = v[b] /\ a < b)
      <4> SUFFICES ASSUME NEW a \in S, NEW b \in S
                   PROVE  Before(a, b, q.sort) <=> v[a] < v[b] \/ (v[a] = v[b] /\ a < b)
        OBVIOUS
      <4>1. Before(a, b, q.sort) <=> Price(a) > Price(b) \/ (Price(a) = Price(b) /\ a < b)
        BY <2>2 DEF Before
      <4>2. v[a] = - Price(a) /\ v[b] = - Price(b) /\ Price(a) \in Nat /\ Price(b) \in Nat
        BY <3>1
      <4> HIDE DEF v
      <4> QED
        BY <4>1, <4>2
    <3> HIDE DEF v
    <3>3. /\ RunsThrough(ByValue(v, S), S)
          /\ \A a, b \in S : <<a, b>> \in ByValue(v, S) <=> v[a] < v[b] \/ (v[a] = v[b] /\ a < b)
      BY <1>1, <3>1, ByValueRuns
    <3> QED
      BY <3>2, <3>3
  <2>3. CASE q.sort = "discount_desc"
    <3> DEFINE n == [p \in S |-> Off(p)]
               d == [p \in S |-> Full(p)]
    <3>1. \A p \in S : n[p] = Off(p) /\ d[p] = Full(p) /\ n[p] \in Int /\ d[p] \in Int /\ d[p] > 0
      BY <2>3, FractionIsNumber
    <3>2. \A a, b \in S : Before(a, b, q.sort) <=>
                  \/ n[a] * d[b] > n[b] * d[a]
                  \/ ~ (n[b] * d[a] > n[a] * d[b]) /\ a < b
      BY <2>3, <3>1 DEF Before, Deeper
    <3> HIDE DEF n, d
    <3>3. /\ RunsThrough(ByFraction(n, d, S), S)
          /\ \A a, b \in S : <<a, b>> \in ByFraction(n, d, S) <=>
                  \/ n[a] * d[b] > n[b] * d[a]
                  \/ ~ (n[b] * d[a] > n[a] * d[b]) /\ a < b
      BY <1>1, <3>1, ByFractionRuns
    <3> QED
      BY <3>2, <3>3
  <2> QED
    BY <2>1, <2>2, <2>3
<1>3. PICK R : RunsThrough(R, S) /\ \A a, b \in S : <<a, b>> \in R <=> Before(a, b, q.sort)
  BY <1>2
<1>4. PICK ids \in SetToSeqs(S) : \A i, j \in DOMAIN ids : i < j => <<ids[i], ids[j]>> \in R
  BY <1>1, <1>3, InOrderExists
<1>5. \A i, j \in DOMAIN ids : i < j => Before(ids[i], ids[j], q.sort)
  <2>1. \A i \in DOMAIN ids : ids[i] \in S
    BY <1>1, <1>4, NamesMeans DEF Names
  <2> QED
    BY <1>3, <1>4, <2>1
<1>6. /\ Sorted(S, q) \in SetToSeqs(S)
      /\ \A i, j \in DOMAIN Sorted(S, q) : i < j => Before(Sorted(S, q)[i], Sorted(S, q)[j], q.sort)
  BY <1>4, <1>5 DEF Sorted, InOrder
<1> QED
  BY <1>1, <1>6, NamesMeans

LEMMA ScoreIsNat ==
    ASSUME NEW p, NEW words, IsFiniteSet(words)
    PROVE  Score(p, words) \in Nat
<1> DEFINE h == [w \in words \ StopWord |-> (IF w \in Fact[p].title THEN 2 ELSE 0)
                                            + (IF w \in Fact[p].text THEN 1 ELSE 0)]
           S == words \ StopWord
<1>1. IsFiniteSet(S)
  BY FS_Subset
<1>2. \A w \in S : h[w] \in Nat
  OBVIOUS
<1>3. Score(p, words) = SumFunctionOnSet(h, S)
  BY DEF Score, SumFunction
<1> HIDE DEF h, S
<1> QED
  BY <1>1, <1>2, <1>3, SumIsNat

LEMMA RankedNames ==
    ASSUME NEW S, S \subseteq Article, NEW words, IsFiniteSet(words)
    PROVE  Names(RankByWords(S, words), S)
<1>1. IsFiniteSet(S) /\ S \subseteq Nat
  BY ProductAssumption, FS_Subset
<1> DEFINE v == [p \in S |-> - Score(p, words)]
           goes(a, b) == \/ Score(a, words) > Score(b, words)
                         \/ Score(a, words) = Score(b, words) /\ a < b
<1>2. \A p \in S : v[p] = - Score(p, words) /\ v[p] \in Int /\ Score(p, words) \in Nat
  BY ScoreIsNat
<1>3. \A a, b \in S : goes(a, b) <=> v[a] < v[b] \/ (v[a] = v[b] /\ a < b)
  <2> SUFFICES ASSUME NEW a \in S, NEW b \in S
               PROVE  goes(a, b) <=> v[a] < v[b] \/ (v[a] = v[b] /\ a < b)
    OBVIOUS
  <2>1. v[a] = - Score(a, words) /\ v[b] = - Score(b, words) /\ Score(a, words) \in Nat /\ Score(b, words) \in Nat
    BY <1>2
  <2> HIDE DEF v
  <2> QED
    BY <2>1
<1> DEFINE R == ByValue(v, S)
<1>4. /\ RunsThrough(R, S)
      /\ \A a, b \in S : <<a, b>> \in R <=> v[a] < v[b] \/ (v[a] = v[b] /\ a < b)
  <2> HIDE DEF v
  <2> QED
    BY <1>1, <1>2, ByValueRuns
<1>4a. \A a, b \in S : <<a, b>> \in R <=> goes(a, b)
  <2> HIDE DEF R, v, goes
  <2> QED
    BY <1>3, <1>4
<1> HIDE DEF R, v
<1>5. PICK ids \in SetToSeqs(S) : \A i, j \in DOMAIN ids : i < j => <<ids[i], ids[j]>> \in R
  BY <1>1, <1>4, InOrderExists
<1>6. \A i, j \in DOMAIN ids : i < j => goes(ids[i], ids[j])
  <2>1. \A i \in DOMAIN ids : ids[i] \in S
    BY <1>1, <1>5, NamesMeans DEF Names
  <2> HIDE DEF goes
  <2> QED
    BY <1>4a, <1>5, <2>1
<1>7. RankByWords(S, words) \in SetToSeqs(S)
  BY <1>5, <1>6 DEF RankByWords, InOrder
<1> QED
  BY <1>1, <1>7, NamesMeans

LEMMA NewestNames ==
    ASSUME NEW S, S \subseteq Article, NEW ids \in Newest(S)
    PROVE  /\ Names(ids, S)
           /\ \A i, j \in DOMAIN ids : i < j => Fact[ids[i]].created >= Fact[ids[j]].created
<1>1. IsFiniteSet(S)
  BY ProductAssumption, FS_Subset
<1>2. /\ ids \in SetToSeqs(S)
      /\ \A i, j \in DOMAIN ids : i < j => Fact[ids[i]].created >= Fact[ids[j]].created
  BY DEF Newest, Rankings
<1> QED
  BY <1>1, <1>2, NamesMeans

LEMMA MinOfTwo ==
    ASSUME NEW a \in Int, NEW b \in Int
    PROVE  Min({a, b}) = (IF a <= b THEN a ELSE b) /\ Max({a, b}) = (IF a <= b THEN b ELSE a)
<1> DEFINE m == IF a <= b THEN a ELSE b
           w == IF a <= b THEN b ELSE a
<1>1. Min({a, b}) = CHOOSE x \in {a, b} : \A y \in {a, b} : x <= y
  BY DEF Min
<1>2. m \in {a, b} /\ (\A y \in {a, b} : m <= y) /\ \A x \in {a, b} : (\A y \in {a, b} : x <= y) => x = m
  OBVIOUS
<1>3. Max({a, b}) = CHOOSE x \in {a, b} : \A y \in {a, b} : x >= y
  BY DEF Max
<1>4. w \in {a, b} /\ (\A y \in {a, b} : w >= y) /\ \A x \in {a, b} : (\A y \in {a, b} : x >= y) => x = w
  OBVIOUS
<1> HIDE DEF m, w
<1>5. Min({a, b}) = m
  BY <1>1, <1>2
<1>6. Max({a, b}) = w
  BY <1>3, <1>4
<1> QED
  BY <1>5, <1>6 DEF m, w

(* The rows read of those found.                                           *)
LEMMA RowsAre ==
    ASSUME NEW S, NEW some \in Rows(S)
    PROVE  some \subseteq S /\ Cardinality(some) = Min({MaxRows, Cardinality(S)})
BY DEF Rows, kSubset

LEMMA FirstIsList ==
    ASSUME NEW S, NEW ids \in Seq(S), NEW n \in Nat
    PROVE  First(n, ids) \in Seq(S)
<1>1. Len(ids) \in Nat /\ \A i \in 1..Len(ids) : ids[i] \in S
  OBVIOUS
<1>2. Min({n, Len(ids)}) = IF n <= Len(ids) THEN n ELSE Len(ids)
  BY <1>1, MinOfTwo
<1> DEFINE m == Min({n, Len(ids)})
<1>a. m = IF n <= Len(ids) THEN n ELSE Len(ids)
  BY <1>2
<1> HIDE DEF m
<1>3. m \in Int /\ \A i \in 1..m : ids[i] \in S
  <2>1. m \in Int /\ m <= Len(ids)
    BY <1>1, <1>a
  <2>2. \A i \in 1..m : i \in 1..Len(ids)
    BY <1>1, <2>1
  <2> QED
    BY <1>1, <2>1, <2>2
<1>4. SubSeq(ids, 1, m) \in Seq(S)
  BY <1>3, SubSeqProperties
<1> QED
  BY <1>4 DEF First, m

LEMMA NamesList ==
    ASSUME NEW S, S \subseteq Article, NEW ids \in SetToSeqs(S)
    PROVE  ids \in Seq(Article)
<1>1. IsFiniteSet(S)
  BY ProductAssumption, FS_Subset
<1>2. ids \in Seq(S)
  BY <1>1, NamesMeans DEF Names
<1> QED
  BY <1>2, SeqMonotonic

LEMMA PageProduct ==
    ASSUME NEW a \in Nat \ {0}, NEW b \in Nat \ {0}
    PROVE  (a - 1) * b \in Nat /\ a * b = (a - 1) * b + b
<1>1. a - 1 \in Nat
  OBVIOUS
<1>2. (a - 1) * b \in Nat
  BY <1>1
<1> QED
  BY <1>2

(* Where a page begins, and how many of n products it shows.               *)
Offset(q) == (q.page - 1) * q.perPage

PageSize(q, n) == Max({0, Min({q.perPage, n - Offset(q)})})

(* The part of a list that a page shows.                                   *)
LEMMA SliceFacts ==
    ASSUME NEW S, NEW ids \in Seq(S), NEW q, q.page \in Nat \ {0}, q.perPage \in Nat \ {0},
           NEW k, k = Offset(q)
    PROVE  /\ Slice(ids, q) \in Seq(S) /\ k \in Nat
           /\ Len(Slice(ids, q)) = PageSize(q, Len(ids))
           /\ Len(Slice(ids, q)) <= q.perPage
           /\ \A i \in DOMAIN Slice(ids, q) : k + i \in DOMAIN ids /\ Slice(ids, q)[i] = ids[k + i]
<1>1. k \in Nat /\ q.page * q.perPage = k + q.perPage
  BY PageProduct DEF Offset
<1>2. Len(ids) \in Nat /\ DOMAIN ids = 1..Len(ids) /\ \A i \in 1..Len(ids) : ids[i] \in S
  OBVIOUS
<1>3. PICK n : n = Min({Len(ids), k + q.perPage})
  OBVIOUS
<1>4. PICK t : t = Max({0, Min({q.perPage, Len(ids) - k})})
  OBVIOUS
<1>5. /\ n \in Int /\ n <= Len(ids) /\ t <= q.perPage
      /\ t = IF k + 1 <= n THEN n - (k + 1) + 1 ELSE 0
  <2>1. PICK up : up = k + q.perPage
    OBVIOUS
  <2>2. PICK left : left = Len(ids) - k
    OBVIOUS
  <2>3. PICK m : m = Min({q.perPage, left})
    OBVIOUS
  <2>4. n = Min({Len(ids), up})
    BY <1>3, <2>1
  <2>5. t = Max({0, m})
    BY <1>4, <2>2, <2>3
  <2>6. PICK len : len = Len(ids)
    OBVIOUS
  <2>7. PICK per : per = q.perPage
    OBVIOUS
  <2>8. len \in Nat /\ k \in Nat /\ per \in Nat \ {0}
    BY <1>1, <1>2, <2>6, <2>7
  <2>9. up = k + per /\ n = Min({len, up}) /\ left = len - k /\ m = Min({per, left})
    BY <2>1, <2>2, <2>3, <2>4, <2>6, <2>7
  <2>10. n \in Int /\ n <= len /\ t <= per /\ t = IF k + 1 <= n THEN n - (k + 1) + 1 ELSE 0
    <3>1. up \in Int /\ left \in Int /\ len \in Int /\ per \in Int
      BY <2>8, <2>9
    <3>2. n = IF len <= up THEN len ELSE up
      BY <2>9, <3>1, MinOfTwo
    <3>3. m = IF per <= left THEN per ELSE left
      BY <2>9, <3>1, MinOfTwo
    <3>4. m \in Int /\ 0 \in Int
      BY <3>1, <3>3
    <3>5. t = IF 0 <= m THEN m ELSE 0
      BY <2>5, <3>4, MinOfTwo
    <3> QED
      BY ONLY <2>8, <2>9, <3>2, <3>3, <3>5
  <2> QED
    BY <2>6, <2>7, <2>10
<1>6. Slice(ids, q) = SubSeq(ids, k + 1, n)
  BY <1>1, <1>3 DEF Slice, Offset
<1>14. t = PageSize(q, Len(ids))
  BY <1>4 DEF PageSize
<1>7. PICK s : s = SubSeq(ids, k + 1, n)
  OBVIOUS
<1>8. k + 1 \in Int /\ \A i \in (k + 1)..n : ids[i] \in S
  BY <1>1, <1>2, <1>5
<1>9. /\ s \in Seq(S) /\ Len(s) = IF k + 1 <= n THEN n - (k + 1) + 1 ELSE 0
      /\ \A i \in 1..n - (k + 1) + 1 : s[i] = ids[(k + 1) + i - 1]
  BY <1>5, <1>7, <1>8, SubSeqProperties
<1>10. Len(s) = t
  BY <1>5, <1>9
<1>11. ASSUME NEW i \in 1..Len(s) PROVE k + i \in 1..Len(ids) /\ s[i] = ids[k + i]
  <2>1. Len(s) \in Nat /\ i \in Nat
    BY <1>9
  <2>2. i \in 1..n - (k + 1) + 1 /\ (k + 1) + i - 1 = k + i /\ k + i \in 1..Len(ids)
    BY ONLY <2>1, i \in 1..Len(s), <1>1, <1>2, <1>5, <1>10
  <2> QED
    BY <1>9, <2>2
<1>12. DOMAIN s = 1..Len(s)
  BY <1>9
<1>13. \A i \in DOMAIN s : k + i \in DOMAIN ids /\ s[i] = ids[k + i]
  BY <1>2, <1>11, <1>12
<1> QED
  BY <1>1, <1>5, <1>6, <1>7, <1>9, <1>10, <1>13, <1>14

-----------------------------------------------------------------------------
(* Lists of products.                                                      *)

LEMMA FirstOfNames ==
    ASSUME NEW S, S \subseteq Article, NEW ids \in SetToSeqs(S), NEW n \in Nat
    PROVE  First(n, ids) \in Seq(Article)
BY NamesList, FirstIsList

LEMMA BestSellersAreLists ==
    ASSUME NEW n \in Nat
    PROVE  BestSellers(n) \cup TopRated(n) \cup Featured(n) \subseteq Seq(Article)
<1>1. ASSUME NEW ids \in BestSellers(n) PROVE ids \in Seq(Article)
  <2> DEFINE S == UNION {DOMAIN o : o \in Orders}
  <2>1. S \subseteq Article
    BY OrderAssumption
  <2>2. \E one \in SetToSeqs(S) : ids = First(n, one)
    BY <1>1 DEF BestSellers, Firsts, Rankings
  <2> HIDE DEF S
  <2> QED
    BY <2>1, <2>2, FirstOfNames
<1>2. ASSUME NEW ids \in TopRated(n) PROVE ids \in Seq(Article)
  <2> DEFINE S == {x \in Article : Fact[x].rating > 0}
  <2>1. S \subseteq Article
    OBVIOUS
  <2>2. \E one \in SetToSeqs(S) : ids = First(n, one)
    BY <1>2 DEF TopRated, Firsts, Rankings
  <2> HIDE DEF S
  <2> QED
    BY <2>1, <2>2, FirstOfNames
<1>6. ASSUME NEW ids \in Featured(n) PROVE ids \in Seq(Article)
  <2> DEFINE S == {x \in Article : onSale[x] /\ Fact[x].featured}
  <2>1. S \subseteq Article
    OBVIOUS
  <2>2. \E one \in SetToSeqs(S) : ids = First(n, one)
    BY <1>6 DEF Featured, Firsts, Newest, Rankings
  <2> HIDE DEF S
  <2> QED
    BY <2>1, <2>2, FirstOfNames
<1> QED
  BY <1>1, <1>2, <1>6

LEMMA SourcesAreLists ==
    ASSUME NEW n \in Nat, NEW p \in Article
    PROVE  BestSellers(n) \cup BoughtTogether(p, n)
             \cup SamePlatform(p, n) \cup SameCategory(p, n) \cup Compatible(p, n) \subseteq Seq(Article)
<1>1. BestSellers(n) \subseteq Seq(Article)
  BY BestSellersAreLists
<1>3. ASSUME NEW ids \in BoughtTogether(p, n) PROVE ids \in Seq(Article)
  <2> DEFINE S == {other \in Article \ {p} : Together(p, other) > 0}
  <2>1. S \subseteq Article
    OBVIOUS
  <2>2. \E one \in SetToSeqs(S) : ids = First(n, one)
    BY <1>3 DEF BoughtTogether, Firsts, Rankings
  <2> HIDE DEF S
  <2> QED
    BY <2>1, <2>2, FirstOfNames
<1>4. ASSUME NEW ids \in SamePlatform(p, n) PROVE ids \in Seq(Article)
  <2> DEFINE S == {other \in Article \ {p} : /\ onSale[other] /\ Fact[p].platform # Absent
                                             /\ Fact[other].platform = Fact[p].platform}
  <2>1. S \subseteq Article
    OBVIOUS
  <2>2. \E one \in SetToSeqs(S) : ids = First(n, one)
    BY <1>4 DEF SamePlatform, Firsts
  <2> HIDE DEF S
  <2> QED
    BY <2>1, <2>2, FirstOfNames
<1>7. ASSUME NEW ids \in SameCategory(p, n) PROVE ids \in Seq(Article)
  <2> DEFINE S == {other \in Article \ {p} : onSale[other] /\ Fact[other].category = Fact[p].category}
  <2>1. S \subseteq Article
    OBVIOUS
  <2>2. \E one \in SetToSeqs(S) : ids = First(n, one)
    BY <1>7 DEF SameCategory, Firsts, Rankings
  <2> HIDE DEF S
  <2> QED
    BY <2>1, <2>2, FirstOfNames
<1>8. ASSUME NEW ids \in Compatible(p, n) PROVE ids \in Seq(Article)
  <2> DEFINE L == Fact[p].links
             S == {other \in Article \ (L \cup {p}) :
                       onSale[other] /\ Fact[p].fit # Absent /\ Fact[other].fit # Absent}
             F(some) == {other \in some : Fits(Fact[p].fit, Fact[other].fit)}
             fitting == UNION {SetToSeqs(F(some)) : some \in Rows(S)}
  <2>1. S \subseteq Article /\ L \subseteq Article
    BY FactAssumption
  <2>2. Compatible(p, n) = {First(n, Fetched(one)) : one \in {l \o f : l \in SetToSeqs(L), f \in fitting}}
    BY DEF Compatible
  <2>3. \A some : F(some) \subseteq some
    OBVIOUS
  <2> HIDE DEF S, L, F
  <2>4. ASSUME NEW f \in fitting PROVE f \in Seq(Article)
    <3>1. PICK some \in Rows(S) : f \in SetToSeqs(F(some))
      BY <2>4
    <3>2. F(some) \subseteq Article
      BY <2>1, <2>3, <3>1, RowsAre
    <3> QED
      BY <3>1, <3>2, NamesList
  <2> HIDE DEF fitting
  <2>5. PICK one \in {l \o f : l \in SetToSeqs(L), f \in fitting} : ids = First(n, Fetched(one))
    BY <1>8, <2>2
  <2>6. PICK l \in SetToSeqs(L), f \in fitting : one = l \o f
    BY <2>5
  <2>7. l \in Seq(Article) /\ f \in Seq(Article)
    BY <2>1, <2>4, NamesList
  <2>8. one \in Seq(Article)
    BY <2>6, <2>7, ConcatProperties
  <2>9. PICK shown : shown = Fetched(one)
    OBVIOUS
  <2>10. shown \in Seq(Article)
    BY <2>8, <2>9, FetchedOnSale
  <2> QED
    BY <2>5, <2>9, <2>10, FirstIsList
<1> QED
  BY <1>1, <1>3, <1>4, <1>7, <1>8

LEMMA FromIsList ==
    ASSUME NEW ids \in Seq(Article), NEW source \in Origin
    PROVE  From(source, ids) \in Seq(Article \X Origin)
<1>1. Len(ids) \in Nat /\ DOMAIN ids = 1..Len(ids) /\ \A i \in 1..Len(ids) : ids[i] \in Article
  OBVIOUS
<1>2. \A i \in 1..Len(ids) : <<ids[i], source>> \in Article \X Origin
  BY <1>1
<1>3. From(source, ids) = [i \in 1..Len(ids) |-> <<ids[i], source>>]
  BY <1>1 DEF From
<1> DEFINE E == Article \X Origin
<1> HIDE DEF E
<1>4. From(source, ids) \in [1..Len(ids) -> E]
  BY <1>1, <1>2, <1>3 DEF E
<1>5. From(source, ids) \in Seq(E)
  BY <1>1, <1>4
<1> QED
  BY <1>5 DEF E

LEMMA IdsAreList ==
    ASSUME NEW picked \in Seq(Article \X Origin)
    PROVE  Ids(picked) \in Seq(Article)
<1>1. Len(picked) \in Nat /\ DOMAIN picked = 1..Len(picked)
      /\ \A i \in 1..Len(picked) : picked[i] \in Article \X Origin
  OBVIOUS
<1>2. \A i \in 1..Len(picked) : picked[i][1] \in Article
  BY <1>1
<1>3. Ids(picked) = [i \in 1..Len(picked) |-> picked[i][1]]
  BY <1>1 DEF Ids
<1> QED
  BY <1>1, <1>2, <1>3

LEMMA ReplyIsList ==
    ASSUME NEW named \in SUBSET Article, NEW reply \in SetToSeqs(named)
    PROVE  reply \in Seq(Article)
BY NamesList

(* "An admin-curated pick always outranks a statistical one."              *)
CuratedFirst(p, picked) ==
    /\ Fair(p, picked)
    /\ \A i \in 1..Min({ListSize, Len(Fact[p].curated)}) :
          Fact[p].curated[i] # p =>
              \E k \in 1..i : picked[k] = <<Fact[p].curated[i], "curated">>

LEMMA ExtendsMore ==
    ASSUME NEW a, NEW b, NEW c, NEW S, a \in Seq(S), b \in Seq(S), c \in Seq(S), Extends(b, a), Extends(c, b)
    PROVE  Extends(c, a)
BY DEF Extends

LEMMA RecommendedFits ==
    ASSUME NEW p \in Article, NEW picked \in Recommended(p)
    PROVE  CuratedFirst(p, picked)
<1> DEFINE curated == Fact[p].curated
<1>0. curated \in Seq(Article) /\ ListSize \in Nat /\ Wanted \in Nat /\ Wanted + 1 \in Nat
  BY FactAssumption, LimitAssumption DEF Wanted
<1>1. PICK together \in BoughtTogether(p, Wanted), platform \in SamePlatform(p, Wanted),
           akin \in SameCategory(p, Wanted), best \in BestSellers(Wanted + 1) :
         picked = Pick(p, Pick(p, Pick(p, Pick(p, Pick(p, <<>>,
                      curated, "curated"), together, "bought-together"),
                      platform, "same-platform"), akin, "same-category"), best, "best-seller")
  BY DEF Recommended
<1>2. together \in Seq(Article) /\ platform \in Seq(Article) /\ akin \in Seq(Article) /\ best \in Seq(Article)
  <2>1. together \in Seq(Article) /\ platform \in Seq(Article) /\ akin \in Seq(Article)
    BY <1>0, SourcesAreLists
  <2>2. best \in Seq(Article)
    BY <1>0, SourcesAreLists
  <2> QED
    BY <2>1, <2>2
<1>3. PICK x1 : x1 = Pick(p, <<>>, curated, "curated")
  OBVIOUS
<1>4. PICK x2 : x2 = Pick(p, x1, together, "bought-together")
  OBVIOUS
<1>5. PICK x3 : x3 = Pick(p, x2, platform, "same-platform")
  OBVIOUS
<1>6. PICK x4 : x4 = Pick(p, x3, akin, "same-category")
  OBVIOUS
<1>7. picked = Pick(p, x4, best, "best-seller")
  BY <1>1, <1>3, <1>4, <1>5, <1>6
<1> HIDE DEF curated
<1>17. "curated" \in Origin /\ "bought-together" \in Origin /\ "same-platform" \in Origin
       /\ "same-category" \in Origin /\ "best-seller" \in Origin
  BY DEF Origin
<1>8. Fair(p, <<>>)
  BY <1>0 DEF Fair
<1>9. Fair(p, x1)
  BY <1>17, <1>0, <1>3, <1>8, PickKeeps
<1>10. Fair(p, x2) /\ Extends(x2, x1)
  BY <1>17, <1>2, <1>4, <1>9, PickKeeps
<1>11. Fair(p, x3) /\ Extends(x3, x2)
  BY <1>17, <1>2, <1>5, <1>10, PickKeeps
<1>12. Fair(p, x4) /\ Extends(x4, x3)
  BY <1>17, <1>2, <1>6, <1>11, PickKeeps
<1>13. Fair(p, picked) /\ Extends(picked, x4)
  BY <1>17, <1>2, <1>7, <1>12, PickKeeps
<1>14. Extends(picked, x1)
  <2> DEFINE T == Seq(Article \X Origin)
  <2>1. x1 \in T /\ x2 \in T /\ x3 \in T /\ x4 \in T /\ picked \in T
    BY <1>9, <1>10, <1>11, <1>12, <1>13 DEF Fair
  <2>2. Extends(x3, x1)
    BY <1>10, <1>11, <2>1, ExtendsMore
  <2>3. Extends(x4, x1)
    BY <1>12, <2>1, <2>2, ExtendsMore
  <2> QED
    BY <1>13, <2>1, <2>3, ExtendsMore
<1>15. FirstIn(x1, p, curated, Len(curated), "curated")
  BY <1>17, <1>0, <1>3, PickFirst
<1>16. ASSUME NEW i \in 1..Min({ListSize, Len(curated)}), curated[i] # p
       PROVE  \E k \in 1..i : picked[k] = <<curated[i], "curated">>
  <2>1. Min({ListSize, Len(curated)}) = IF ListSize <= Len(curated) THEN ListSize ELSE Len(curated)
    BY <1>0, MinOfTwo
  <2>2. i \in 1..Len(curated) /\ i <= ListSize
    BY <1>0, <2>1
  <2>3. Has(x1, curated, i, "curated")
    BY <1>15, <1>16, <2>2 DEF FirstIn
  <2>4. PICK k \in 1..i : k <= Len(x1) /\ x1[k] = <<curated[i], "curated">>
    BY <2>3 DEF Has
  <2>5. x1 \in Seq(Article \X Origin)
    BY <1>9 DEF Fair
  <2>6. k \in 1..Len(x1)
    BY <2>2, <2>4, <2>5
  <2>7. picked[k] = x1[k]
    BY <1>14, <2>6 DEF Extends
  <2> QED
    BY <2>4, <2>7
<1> QED
  BY <1>13, <1>16 DEF CuratedFirst, curated

-----------------------------------------------------------------------------
(* What a listing gives in the shop as it is; l says whether its search    *)
(* has been made loose.                                                    *)

Loose(q) == q.words # {} /\ Matches(q, FALSE) = {}

Compared(q, l) == Affordable(Matches(q, l), q)

Only(q, l) == IF Priced(q) THEN Compared(q, l) ELSE Article

Hits(q, l) == Matches(q, l) \cap Only(q, l)

Chosen(q, l) == IF q.sort = "newest" THEN Absent ELSE Sorted(Compared(q, l), q)

(* What a ranking may be, of the rows that were read; and a listing.       *)
Ranked(q, l, ids) ==
    IF l /\ q.sort = "newest" THEN \E some \in Rows(Hits(q, l)) : ids = RankByWords(some, q.words)
    ELSE ids = Chosen(q, l)

Listing(q, l, list) ==
    IF l \/ q.sort # "newest" THEN Ranked(q, l, list) ELSE list \in Newest(Hits(q, l))

(* How many products a listing has.                                        *)
Listed(q, l, n) == IF l /\ q.sort = "newest" THEN Min({MaxRows, n}) ELSE n

LEMMA ShopStays ==
    ASSUME UNCHANGED <<onSale, offers>>
    PROVE  /\ \A q : Loose(q)' = Loose(q)
           /\ \A q, l : Only(q, l)' = Only(q, l) /\ Chosen(q, l)' = Chosen(q, l)
                        /\ Hits(q, l)' = Hits(q, l)
           /\ \A q, l, ids : Ranked(q, l, ids)' <=> Ranked(q, l, ids)
           /\ \A S : Facets(S)' = Facets(S)
           /\ \A ids : Cards(ids)' = Cards(ids)
<1>1. \A p : InStock(p)' = InStock(p) /\ Price(p)' = Price(p) /\ Reduced(p)' = Reduced(p)
             /\ Off(p)' = Off(p) /\ Full(p)' = Full(p) /\ Card(p)' = Card(p)
  BY DEF InStock, Price, Reduced, Off, Full, Card
<1>2. \A q, l : Matches(q, l)' = Matches(q, l)
  BY <1>1 DEF Matches
<1>3. \A q : Loose(q)' = Loose(q)
  BY <1>2 DEF Loose
<1>4. \A S, q : Affordable(S, q)' = Affordable(S, q)
  BY <1>1 DEF Affordable
<1>5. \A S, q : Sorted(S, q)' = Sorted(S, q)
  BY DEF Sorted, InOrder, Before, Deeper, Price, Off, Full, Charged
<1>6. \A q, l : Only(q, l)' = Only(q, l)
  BY <1>2, <1>4 DEF Only, Compared
<1>7. \A q, l : Hits(q, l)' = Hits(q, l)
  BY <1>2, <1>6 DEF Hits
<1>8. \A q, l : Chosen(q, l)' = Chosen(q, l)
  BY <1>2, <1>4, <1>5 DEF Chosen, Compared
<1>9. \A q, l, ids : Ranked(q, l, ids)' <=> Ranked(q, l, ids)
  BY <1>7, <1>8 DEF Ranked
<1>11. \A S : Facets(S)' = Facets(S)
  BY DEF Facets
<1>12. \A ids : Cards(ids)' = Cards(ids)
  BY <1>1 DEF Cards
<1> QED
  BY <1>3, <1>6, <1>7, <1>8, <1>9, <1>11, <1>12

LEMMA HitsAreOnSale ==
    ASSUME NEW q, NEW l
    PROVE  /\ Matches(q, l) \subseteq Article /\ Hits(q, l) \subseteq Article
           /\ Compared(q, l) \subseteq Article
           /\ \A p \in Matches(q, l) : onSale[p]
           /\ Hits(q, l) = IF Priced(q) THEN Compared(q, l) ELSE Matches(q, l)
<1>1. Matches(q, l) \subseteq Article /\ \A p \in Matches(q, l) : onSale[p]
  BY DEF Matches
<1>2. Compared(q, l) \subseteq Matches(q, l)
  BY DEF Compared, Affordable
<1>3. Hits(q, l) = IF Priced(q) THEN Compared(q, l) ELSE Matches(q, l)
  BY <1>1, <1>2 DEF Hits, Only
<1> QED
  BY <1>1, <1>2, <1>3

LEMMA ListIsNamed ==
    ASSUME NEW S, S \subseteq Article, NEW ids, Names(ids, S)
    PROVE  ids \in Seq(Article) /\ ids # Absent
<1>1. ids \in Seq(S) /\ Article \subseteq Nat /\ Absent \notin Seq(Nat)
  BY ProductAssumption DEF Names
<1>2. ids \in Seq(Article)
  BY <1>1, SeqMonotonic
<1>3. ids \in Seq(Nat)
  BY <1>1, <1>2, SeqMonotonic
<1> QED
  BY <1>1, <1>2, <1>3

LEMMA ComparedSorted ==
    ASSUME OffersOK, NEW q \in QueryDto, NEW l, q.sort # "newest"
    PROVE  /\ Names(Chosen(q, l), Compared(q, l)) /\ Chosen(q, l) = Sorted(Compared(q, l), q)
           /\ \A i, j \in DOMAIN Chosen(q, l) :
                 i < j => Before(Chosen(q, l)[i], Chosen(q, l)[j], q.sort)
<1>1. q.sort \in {"price_asc", "price_desc", "discount_desc"}
  BY DEF QueryDto
<1>2. \A p \in Compared(q, l) : offers[p] # <<>> /\ (q.sort = "discount_desc" => Reduced(p))
  BY DEF Compared, Affordable
<1>3. Compared(q, l) \subseteq Article
  BY HitsAreOnSale
<1>4. Chosen(q, l) = Sorted(Compared(q, l), q)
  BY DEF Chosen
<1> QED
  BY <1>1, <1>2, <1>3, <1>4, SortedNames

(* A list of named products, as far as it goes.                            *)
LEMMA NamesOf ==
    ASSUME NEW S, S \subseteq Article, NEW ids, Names(ids, S)
    PROVE  /\ ids \in Seq(S) /\ Len(ids) = Cardinality(S) /\ Len(ids) \in Nat
           /\ DOMAIN ids = 1..Len(ids)
           /\ \A i \in DOMAIN ids : ids[i] \in S
           /\ \A i, j \in DOMAIN ids : i # j => ids[i] # ids[j]
BY DEF Names

LEMMA RankedRows ==
    ASSUME NEW q \in QueryDto, NEW S, S \subseteq Article, NEW some \in Rows(S),
           NEW ids, ids = RankByWords(some, q.words)
    PROVE  /\ Names(ids, some) /\ some \subseteq S /\ Cardinality(some) = Min({MaxRows, Cardinality(S)})
           /\ ids \in Seq(Article) /\ ids # Absent
<1>1. some \subseteq S /\ Cardinality(some) = Min({MaxRows, Cardinality(S)}) /\ some \subseteq Article
  BY RowsAre
<1>2. IsFiniteSet(q.words)
  BY QueryAssumption, FS_Subset DEF QueryDto
<1>3. Names(ids, some)
  BY <1>1, <1>2, RankedNames
<1>4. ids \in Seq(Article) /\ ids # Absent
  BY <1>1, <1>3, ListIsNamed
<1> QED
  BY <1>1, <1>3, <1>4

LEMMA ChosenIsList ==
    ASSUME OffersOK, NEW q \in QueryDto, NEW l
    PROVE  IF q.sort = "newest" THEN Chosen(q, l) = Absent
           ELSE Chosen(q, l) \in Seq(Article) /\ Chosen(q, l) # Absent
<1>1. CASE q.sort # "newest"
  <2>1. Names(Chosen(q, l), Compared(q, l)) /\ Compared(q, l) \subseteq Article
    BY <1>1, ComparedSorted, HitsAreOnSale
  <2> QED
    BY <1>1, <2>1, ListIsNamed
<1>2. CASE q.sort = "newest"
  BY <1>2 DEF Chosen
<1> QED
  BY <1>1, <1>2

(* What has been ranked is the listing, if anything has been.              *)
LEMMA RankedIsListing ==
    ASSUME OffersOK, NEW q \in QueryDto, NEW l \in BOOLEAN, NEW ids, Ranked(q, l, ids)
    PROVE  /\ ids \in Seq(Article) \cup {Absent}
           /\ ids # Absent <=> l \/ q.sort # "newest"
           /\ ids # Absent => Listing(q, l, ids)
<1>1. CASE l /\ q.sort = "newest"
  <2>1. PICK some \in Rows(Hits(q, l)) : ids = RankByWords(some, q.words)
    BY <1>1 DEF Ranked
  <2>2. Hits(q, l) \subseteq Article
    BY HitsAreOnSale
  <2>3. Names(ids, some) /\ some \subseteq Hits(q, l)
    BY <2>1, <2>2, RankedRows
  <2>4. ids \in Seq(Article) /\ ids # Absent
    BY <2>2, <2>3, ListIsNamed
  <2> QED
    BY <1>1, <2>4 DEF Listing
<1>2. CASE ~ (l /\ q.sort = "newest")
  <2>1. ids = Chosen(q, l)
    BY <1>2 DEF Ranked
  <2> QED
    BY <1>2, <2>1, ChosenIsList DEF Listing
<1> QED
  BY <1>1, <1>2

(* A listing names products found, each once.                              *)
LEMMA ListingNames ==
    ASSUME OffersOK, NEW q \in QueryDto, NEW l \in BOOLEAN, NEW list, Listing(q, l, list)
    PROVE  /\ list \in Seq(Hits(q, l)) /\ Len(list) = Listed(q, l, Cardinality(Hits(q, l)))
           /\ Len(list) \in Nat /\ DOMAIN list = 1..Len(list)
           /\ \A i \in DOMAIN list : list[i] \in Hits(q, l)
           /\ \A i, j \in DOMAIN list : i # j => list[i] # list[j]
           /\ q.sort # "newest" => list = Chosen(q, l)
           /\ q.sort = "newest" /\ ~ l =>
                 \A i, j \in DOMAIN list : i < j => Fact[list[i]].created >= Fact[list[j]].created
<1>0. /\ Hits(q, l) \subseteq Article /\ Compared(q, l) \subseteq Article
      /\ Hits(q, l) = IF Priced(q) THEN Compared(q, l) ELSE Matches(q, l)
  BY HitsAreOnSale
<1>1. CASE q.sort # "newest"
  <2>1. list = Chosen(q, l)
    BY <1>1 DEF Listing, Ranked
  <2>2. Names(list, Compared(q, l))
    BY <1>1, <2>1, ComparedSorted
  <2>3. Hits(q, l) = Compared(q, l)
    BY <1>0, <1>1 DEF Priced
  <2> QED
    BY <1>0, <1>1, <2>1, <2>2, <2>3, NamesOf DEF Listed
<1>2. CASE q.sort = "newest" /\ ~ l
  <2>1. list \in Newest(Hits(q, l))
    BY <1>2 DEF Listing
  <2>2. /\ Names(list, Hits(q, l))
        /\ \A i, j \in DOMAIN list : i < j => Fact[list[i]].created >= Fact[list[j]].created
    BY <1>0, <2>1, NewestNames
  <2> QED
    BY <1>0, <1>2, <2>2, NamesOf DEF Listed
<1>3. CASE q.sort = "newest" /\ l
  <2>1. PICK some \in Rows(Hits(q, l)) : list = RankByWords(some, q.words)
    BY <1>3 DEF Listing, Ranked
  <2>2. /\ Names(list, some) /\ some \subseteq Hits(q, l)
        /\ Cardinality(some) = Min({MaxRows, Cardinality(Hits(q, l))})
    BY <1>0, <2>1, RankedRows
  <2>3. some \subseteq Article
    BY <1>0, <2>2
  <2>4. /\ list \in Seq(some) /\ Len(list) = Cardinality(some) /\ Len(list) \in Nat
        /\ DOMAIN list = 1..Len(list)
        /\ \A i \in DOMAIN list : list[i] \in some
        /\ \A i, j \in DOMAIN list : i # j => list[i] # list[j]
    BY <2>2, <2>3, NamesOf
  <2>5. list \in Seq(Hits(q, l))
    BY <2>2, <2>4, SeqMonotonic
  <2> QED
    BY <1>3, <2>2, <2>4, <2>5 DEF Listed
<1> QED
  BY <1>1, <1>2, <1>3

LEMMA FacetsAddUpTo ==
    ASSUME NEW S, S \subseteq Article
    PROVE  SumFunction(Facets(S).categories) = Cardinality(S)
<1>1. IsFiniteSet(S)
  BY ProductAssumption, FS_Subset
<1> DEFINE class == [p \in S |-> Fact[p].category]
           ones == [p \in S |-> 1]
           D == {Fact[p].category : p \in S}
           parts == [c \in D |-> Cardinality({p \in S : Fact[p].category = c})]
<1>2. IsFiniteSet(D)
  <2>1. D = {class[p] : p \in S}
    OBVIOUS
  <2>2. class \in Surjection(S, D)
    BY <2>1 DEF Surjection
  <2> QED
    BY <1>1, <2>2, FS_Surjection
<1>3. \A c \in D : parts[c] = SumFunctionOnSet(ones, Alike(S, class, c))
  <2> SUFFICES ASSUME NEW c \in D PROVE parts[c] = SumFunctionOnSet(ones, Alike(S, class, c))
    OBVIOUS
  <2>1. Alike(S, class, c) = {p \in S : Fact[p].category = c}
    BY DEF Alike
  <2>2. IsFiniteSet(Alike(S, class, c)) /\ \A p \in Alike(S, class, c) : ones[p] = 1
    BY <1>1, <2>1, FS_Subset
  <2>3. SumFunctionOnSet(ones, Alike(S, class, c)) = Cardinality(Alike(S, class, c))
    BY <2>2, SumOfOnes
  <2> QED
    BY <2>1, <2>3
<1>4. Facets(S).categories = parts /\ DOMAIN parts = D
  BY DEF Facets
<1>5. (\A p \in S : ones[p] = 1) /\ \A p \in S : class[p] \in D
  OBVIOUS
<1> HIDE DEF class, ones, D, parts
<1>6. SumFunction(parts) = SumFunctionOnSet(parts, D)
  BY <1>4 DEF SumFunction, SumFunctionOnSet, FoldFunction
<1>7. SumFunctionOnSet(parts, D) = SumFunctionOnSet(ones, S)
  BY <1>1, <1>2, <1>3, <1>5, SumByClass
<1>8. SumFunctionOnSet(ones, S) = Cardinality(S)
  BY <1>1, <1>5, SumOfOnes
<1> QED
  BY <1>4, <1>6, <1>7, <1>8

(* What an answer says of itself.                                          *)
PageFits(r) ==
    /\ \A i, j \in DOMAIN r.items : i < j =>
          /\ r.query.sort = "price_asc" => r.items[i].price <= r.items[j].price
          /\ r.query.sort = "price_desc" => r.items[i].price >= r.items[j].price
          /\ r.query.sort = "newest" /\ ~r.loose =>
                Fact[r.items[i].id].created >= Fact[r.items[j].id].created
    /\ \A i \in DOMAIN r.items :
          /\ r.query.min # Absent => r.items[i].price >= r.query.min
          /\ r.query.max # Absent => r.items[i].price <= r.query.max
    /\ Len(r.items) = Max({0, Min({r.query.perPage,
                                   r.total - (r.query.page - 1) * r.query.perPage})})
    /\ r.total = Listed(r.query, r.loose, SumFunction(r.facets.categories))

PagesApart(r, s) ==
    /\ r.query.sort # "newest" /\ r.since = s.since
    /\ s.query = [r.query EXCEPT !.page = s.query.page] /\ s.query # r.query
    => \A i \in DOMAIN r.items, j \in DOMAIN s.items : r.items[i].id # s.items[j].id

LEMMA CardsShown ==
    ASSUME NEW ids \in Seq(Article)
    PROVE  /\ DOMAIN Cards(ids) = DOMAIN ids /\ Len(Cards(ids)) = Len(ids)
           /\ \A i \in DOMAIN ids :
                 /\ Cards(ids)[i].id = ids[i]
                 /\ Cards(ids)[i].price =
                       IF offers[ids[i]] = <<>> THEN Absent ELSE Charged(offers[ids[i]][1])
<1>1. DOMAIN ids = 1..Len(ids) /\ Len(ids) \in Nat
  OBVIOUS
<1>2. Cards(ids) = [i \in 1..Len(ids) |-> Card(ids[i])]
  BY <1>1 DEF Cards
<1>3. DOMAIN Cards(ids) = 1..Len(ids) /\ Len(Cards(ids)) = Len(ids)
  BY <1>1, <1>2
<1> QED
  BY <1>1, <1>2, <1>3 DEF Card

(* What is compared is within the bounds.                                  *)
LEMMA ComparedFits ==
    ASSUME NEW q, NEW l, NEW p \in Hits(q, l)
    PROVE  /\ p \in Article /\ onSale[p]
           /\ Priced(q) => /\ offers[p] # <<>>
                           /\ q.min # Absent => Price(p) >= q.min
                           /\ q.max # Absent => Price(p) <= q.max
<1>1. p \in Article /\ p \in Matches(q, l)
  BY HitsAreOnSale DEF Hits
<1>2. onSale[p]
  BY <1>1, HitsAreOnSale
<1>3. Priced(q) => p \in Compared(q, l)
  BY HitsAreOnSale
<1> QED
  BY <1>1, <1>2, <1>3 DEF Compared, Affordable

LEMMA SliceOfListing ==
    ASSUME OffersOK, NEW q \in QueryDto, NEW l \in BOOLEAN,
           NEW list, Listing(q, l, list), NEW k, k = Offset(q),
           NEW ids, ids = Slice(list, q)
    PROVE  /\ ids \in Seq(Article) /\ k \in Nat /\ Len(list) \in Nat /\ Len(ids) \in Nat
           /\ Len(ids) = PageSize(q, Len(list))
           /\ Len(ids) <= q.perPage /\ DOMAIN ids = 1..Len(ids)
           /\ \A i \in DOMAIN ids : k + i \in DOMAIN list /\ ids[i] = list[k + i] /\ ids[i] \in Hits(q, l)
<1>1. PICK S : S = Hits(q, l)
  OBVIOUS
<1>2. S \subseteq Article /\ list \in Seq(S) /\ Len(list) \in Nat /\ \A i \in DOMAIN list : list[i] \in S
  BY <1>1, ListingNames, HitsAreOnSale
<1>3. q.page \in Nat \ {0} /\ q.perPage \in Nat \ {0}
  BY DEF QueryDto
<1>4. /\ Slice(list, q) \in Seq(S) /\ k \in Nat
      /\ Len(Slice(list, q)) = PageSize(q, Len(list))
      /\ Len(Slice(list, q)) <= q.perPage
      /\ \A i \in DOMAIN Slice(list, q) : k + i \in DOMAIN list /\ Slice(list, q)[i] = list[k + i]
  BY <1>2, <1>3, SliceFacts
<1>5. ids \in Seq(S) /\ Len(ids) \in Nat /\ DOMAIN ids = 1..Len(ids)
  BY <1>4
<1>6. ids \in Seq(Article)
  BY <1>2, <1>5, SeqMonotonic
<1>7. \A i \in DOMAIN ids : k + i \in DOMAIN list /\ ids[i] = list[k + i] /\ ids[i] \in Hits(q, l)
  BY <1>1, <1>2, <1>4
<1> QED
  BY <1>2, <1>4, <1>5, <1>6, <1>7

LEMMA PagesFit ==
    ASSUME OffersOK, NEW r, r.query \in QueryDto, NEW l \in BOOLEAN, r.loose = l,
           NEW list, Listing(r.query, l, list), r.items = Cards(Slice(list, r.query)),
           r.total = Len(list), r.facets = Facets(Hits(r.query, l))
    PROVE  PageFits(r)
<1>1. PICK q : q = r.query
  OBVIOUS
<1>2. /\ Len(list) = Listed(q, l, Cardinality(Hits(q, l)))
      /\ q.sort # "newest" => list = Chosen(q, l)
      /\ q.sort = "newest" /\ ~ l =>
            \A i, j \in DOMAIN list : i < j => Fact[list[i]].created >= Fact[list[j]].created
  BY <1>1, ListingNames
<1>3. PICK ids : ids = Slice(list, q)
  OBVIOUS
<1>4. PICK k : k = Offset(q)
  OBVIOUS
<1>5. /\ ids \in Seq(Article) /\ k \in Nat /\ Len(list) \in Nat /\ Len(ids) \in Nat
      /\ Len(ids) = PageSize(q, Len(list))
      /\ DOMAIN ids = 1..Len(ids)
      /\ \A i \in DOMAIN ids : k + i \in DOMAIN list /\ ids[i] = list[k + i] /\ ids[i] \in Hits(q, l)
  <2>1. q \in QueryDto /\ Listing(q, l, list)
    BY <1>1
  <2> QED
    BY <2>1, <1>3, <1>4, SliceOfListing
<1>6. PICK items : items = r.items
  OBVIOUS
<1>7. items = Cards(ids) /\ r.total = Len(list)
  BY <1>1, <1>2, <1>3, <1>6
<1>8. /\ DOMAIN items = DOMAIN ids /\ Len(items) = Len(ids)
      /\ \A i \in DOMAIN ids :
            /\ items[i].id = ids[i]
            /\ items[i].price =
                  IF offers[ids[i]] = <<>> THEN Absent ELSE Charged(offers[ids[i]][1])
  BY <1>5, <1>7, CardsShown
<1>9. ASSUME Priced(q), NEW i \in DOMAIN ids
      PROVE  /\ items[i].price = Price(ids[i]) /\ offers[ids[i]] # <<>>
             /\ q.min # Absent => Price(ids[i]) >= q.min
             /\ q.max # Absent => Price(ids[i]) <= q.max
  <2>1. ids[i] \in Hits(q, l)
    BY <1>5, <1>9
  <2>2. /\ offers[ids[i]] # <<>>
        /\ q.min # Absent => Price(ids[i]) >= q.min
        /\ q.max # Absent => Price(ids[i]) <= q.max
    BY <1>9, <2>1, ComparedFits
  <2>3. items[i].price = Price(ids[i])
    BY <1>8, <1>9, <2>2 DEF Price
  <2> QED
    BY <2>2, <2>3
<1>10. ASSUME NEW i \in DOMAIN items
       PROVE  /\ q.min # Absent => items[i].price >= q.min
              /\ q.max # Absent => items[i].price <= q.max
  <2>1. CASE Priced(q)
    BY <1>8, <1>9, <1>10, <2>1
  <2>2. CASE ~ Priced(q)
    BY <2>2 DEF Priced
  <2> QED
    BY <2>1, <2>2
<1>11. ASSUME NEW i \in DOMAIN items, NEW j \in DOMAIN items, i < j
       PROVE  /\ i \in DOMAIN ids /\ j \in DOMAIN ids
              /\ k + i < k + j /\ k + i \in DOMAIN list /\ k + j \in DOMAIN list
              /\ ids[i] = list[k + i] /\ ids[j] = list[k + j]
              /\ ids[i] \in Hits(q, l) /\ ids[j] \in Hits(q, l)
  <2>1. i \in 1..Len(ids) /\ j \in 1..Len(ids) /\ i \in DOMAIN ids /\ j \in DOMAIN ids
    BY <1>5, <1>8, <1>11
  <2>2. k + i < k + j
    BY <1>5, <1>11, <2>1
  <2>3. k + i \in DOMAIN list /\ ids[i] = list[k + i] /\ ids[i] \in Hits(q, l)
    BY <1>5, <2>1
  <2>4. k + j \in DOMAIN list /\ ids[j] = list[k + j] /\ ids[j] \in Hits(q, l)
    BY <1>5, <2>1
  <2> QED
    BY <2>1, <2>2, <2>3, <2>4
<1>12. ASSUME NEW i \in DOMAIN items, NEW j \in DOMAIN items, i < j,
              q.sort \in {"price_asc", "price_desc"}
       PROVE  /\ q.sort = "price_asc" => items[i].price <= items[j].price
              /\ q.sort = "price_desc" => items[i].price >= items[j].price
  <2>1. q.sort # "newest" /\ Priced(q) /\ q \in QueryDto
    BY <1>1, <1>12 DEF Priced
  <2>2. \A x, y \in DOMAIN list : x < y => Before(list[x], list[y], q.sort)
    BY <1>2, <2>1, ComparedSorted
  <2>3. Before(ids[i], ids[j], q.sort)
    BY <1>11, <1>12, <2>2
  <2>4. items[i].price = Price(ids[i]) /\ items[j].price = Price(ids[j])
    BY <1>9, <1>11, <1>12, <2>1
  <2>5. ids[i] \in Article /\ ids[j] \in Article /\ offers[ids[i]] # <<>> /\ offers[ids[j]] # <<>>
    <3>1. ids[i] \in Hits(q, l) /\ ids[j] \in Hits(q, l)
      BY <1>11, <1>12
    <3>2. offers[ids[i]] # <<>> /\ offers[ids[j]] # <<>>
      BY <1>9, <1>11, <1>12, <2>1
    <3> QED
      BY <3>1, <3>2, HitsAreOnSale
  <2>6. Price(ids[i]) \in Nat /\ Price(ids[j]) \in Nat
    BY <2>5, PriceIsNat
  <2>7. CASE q.sort = "price_asc"
    <3>1. Price(ids[i]) < Price(ids[j]) \/ Price(ids[i]) = Price(ids[j])
      BY <2>3, <2>7 DEF Before
    <3> QED
      BY <2>4, <2>6, <2>7, <3>1
  <2>8. CASE q.sort = "price_desc"
    <3>1. Price(ids[i]) > Price(ids[j]) \/ Price(ids[i]) = Price(ids[j])
      BY <2>3, <2>8 DEF Before
    <3> QED
      BY <2>4, <2>6, <2>8, <3>1
  <2> QED
    BY <1>12, <2>7, <2>8
<1>13. ASSUME NEW i \in DOMAIN items, NEW j \in DOMAIN items, i < j, q.sort = "newest", ~ l
       PROVE  Fact[items[i].id].created >= Fact[items[j].id].created
  <2>1. Fact[ids[i]].created >= Fact[ids[j]].created
    BY <1>2, <1>11, <1>13
  <2>2. items[i].id = ids[i] /\ items[j].id = ids[j]
    BY <1>8, <1>11, <1>13
  <2> QED
    BY <2>1, <2>2
<1>14. r.total = Listed(r.query, r.loose, SumFunction(r.facets.categories))
  <2>1. Hits(q, l) \subseteq Article
    BY HitsAreOnSale
  <2>2. SumFunction(Facets(Hits(q, l)).categories) = Cardinality(Hits(q, l))
    BY <2>1, FacetsAddUpTo
  <2> QED
    BY <1>1, <1>2, <2>2
<1>15. Len(items) = Max({0, Min({q.perPage, r.total - (q.page - 1) * q.perPage})})
  BY <1>5, <1>7, <1>8 DEF PageSize, Offset
<1>16. ASSUME NEW i \in DOMAIN items, NEW j \in DOMAIN items, i < j
       PROVE  /\ q.sort = "price_asc" => items[i].price <= items[j].price
              /\ q.sort = "price_desc" => items[i].price >= items[j].price
              /\ q.sort = "newest" /\ ~ l => Fact[items[i].id].created >= Fact[items[j].id].created
  BY <1>12, <1>13, <1>16
<1> QED
  BY <1>1, <1>6, <1>10, <1>14, <1>15, <1>16 DEF PageFits

(* Another page of a listing is cut from the same list.                    *)
LEMMA ListingOfAnyPage ==
    ASSUME NEW q \in QueryDto, NEW s \in QueryDto, s = [q EXCEPT !.page = s.page]
    PROVE  /\ Loose(s) = Loose(q) /\ s.perPage = q.perPage
           /\ \A l : Chosen(s, l) = Chosen(q, l)
           /\ s # q => s.page # q.page
<1>1. /\ s.category = q.category /\ s.brands = q.brands /\ s.inStock = q.inStock
      /\ s.words = q.words /\ s.alike = q.alike /\ s.min = q.min /\ s.max = q.max
      /\ s.onSale = q.onSale /\ s.sort = q.sort /\ s.perPage = q.perPage
  BY DEF QueryDto
<1>2. s # q => s.page # q.page
  BY <1>1 DEF QueryDto
<1>3. \A l : Matches(s, l) = Matches(q, l)
  BY <1>1 DEF Matches
<1>4. \A S : Affordable(S, s) = Affordable(S, q)
  BY <1>1 DEF Affordable
<1>5. Priced(s) <=> Priced(q)
  BY <1>1 DEF Priced
<1>6. \A S : Sorted(S, s) = Sorted(S, q)
  BY <1>1 DEF Sorted
<1>7. \A l : Compared(s, l) = Compared(q, l)
  BY <1>3, <1>4 DEF Compared
<1>8. \A l : Only(s, l) = Only(q, l)
  BY <1>5, <1>7 DEF Only
<1>9. \A l : Hits(s, l) = Hits(q, l)
  BY <1>3, <1>8 DEF Hits
<1>10. \A l : Chosen(s, l) = Chosen(q, l)
  BY <1>1, <1>6, <1>7 DEF Chosen
<1>13. Loose(s) = Loose(q)
  BY <1>1, <1>3 DEF Loose
<1> QED
  BY <1>1, <1>2, <1>10, <1>13

LEMMA OffsetsApart ==
    ASSUME NEW per \in Nat \ {0}, NEW a \in Nat \ {0}, NEW b \in Nat \ {0}, a < b,
           NEW i \in 1..per, NEW j \in Nat \ {0}
    PROVE  (a - 1) * per + i < (b - 1) * per + j
<1>1. PICK d \in Nat : b = a + 1 + d
  <2>1. b - a - 1 \in Nat /\ b = a + 1 + (b - a - 1)
    OBVIOUS
  <2> QED
    BY <2>1
<1>2. (b - 1) * per = (a - 1) * per + per + d * per
  BY <1>1
<1>3. (a - 1) * per \in Int /\ d * per \in Nat
  <2>1. a - 1 \in Nat
    OBVIOUS
  <2> QED
    BY <2>1, <1>1
<1>4. PICK x : x = (a - 1) * per
  OBVIOUS
<1>5. PICK y : y = d * per
  OBVIOUS
<1>6. x + i < x + per + y + j
  BY <1>3, <1>4, <1>5
<1> QED
  BY <1>2, <1>4, <1>5, <1>6

LEMMA SlicesApart ==
    ASSUME OffersOK, NEW q \in QueryDto, NEW s \in QueryDto, s = [q EXCEPT !.page = s.page], s # q,
           NEW l \in BOOLEAN, q.sort # "newest", NEW list, list = Chosen(q, l),
           NEW ids, ids = Slice(list, q), NEW more, more = Slice(list, s)
    PROVE  \A i \in DOMAIN ids, j \in DOMAIN more : ids[i] # more[j]
<1>1. Listing(q, l, list) /\ Listing(s, l, list)
  <2>1. s.sort = q.sort
    BY DEF QueryDto
  <2> QED
    BY <2>1, ListingOfAnyPage DEF Listing, Ranked
<1>2. PICK k : k = Offset(q)
  OBVIOUS
<1>3. PICK m : m = Offset(s)
  OBVIOUS
<1>4. /\ k \in Nat /\ Len(ids) \in Nat /\ Len(ids) <= q.perPage /\ DOMAIN ids = 1..Len(ids)
      /\ \A i \in DOMAIN ids : k + i \in DOMAIN list /\ ids[i] = list[k + i]
      /\ \A i, j \in DOMAIN list : i # j => list[i] # list[j]
  <2>2. /\ k \in Nat /\ Len(ids) \in Nat /\ Len(ids) <= q.perPage /\ DOMAIN ids = 1..Len(ids)
        /\ \A i \in DOMAIN ids : k + i \in DOMAIN list /\ ids[i] = list[k + i]
    BY <1>1, <1>2, SliceOfListing
  <2>3. \A i, j \in DOMAIN list : i # j => list[i] # list[j]
    BY <1>1, ListingNames
  <2> QED
    BY <2>2, <2>3
<1>5. /\ m \in Nat /\ Len(more) \in Nat /\ Len(more) <= s.perPage /\ DOMAIN more = 1..Len(more)
      /\ \A j \in DOMAIN more : m + j \in DOMAIN list /\ more[j] = list[m + j]
  BY <1>1, <1>3, SliceOfListing
<1>6. PICK per : per = q.perPage /\ per = s.perPage
  BY ListingOfAnyPage
<1>7. PICK a, b : a = q.page /\ b = s.page
  OBVIOUS
<1>8. a # b /\ a \in Nat \ {0} /\ b \in Nat \ {0} /\ per \in Nat \ {0}
  BY <1>6, <1>7, ListingOfAnyPage DEF QueryDto
<1>9. k = (a - 1) * per /\ m = (b - 1) * per
  BY <1>2, <1>3, <1>6, <1>7 DEF Offset
<1>10. ASSUME NEW i \in DOMAIN ids, NEW j \in DOMAIN more PROVE k + i # m + j
  <2>1. i \in 1..per /\ j \in 1..per /\ i \in Nat \ {0} /\ j \in Nat \ {0}
    BY <1>4, <1>5, <1>6, <1>8, <1>10
  <2>2. CASE a < b
    <3>1. (a - 1) * per + i < (b - 1) * per + j
      BY <1>8, <2>1, <2>2, OffsetsApart
    <3> QED
      BY <1>4, <1>5, <1>9, <2>1, <3>1
  <2>3. CASE b < a
    <3>1. (b - 1) * per + j < (a - 1) * per + i
      BY <1>8, <2>1, <2>3, OffsetsApart
    <3> QED
      BY <1>4, <1>5, <1>9, <2>1, <3>1
  <2> QED
    BY <1>8, <2>2, <2>3
<1> QED
  BY <1>4, <1>5, <1>10

-----------------------------------------------------------------------------
(* The counts of the menu.                                                 *)

LEMMA CountsMatch == CountsMatchListing
<1> DEFINE all == [category |-> Absent, brands |-> {}, inStock |-> FALSE, words |-> {}]
           behind(c) == {p \in OnSale : InCategory(p, c)}
<1>0. IsFiniteSet(OnSale) /\ OnSale \subseteq Article
  BY ProductAssumption, FS_Subset DEF OnSale
<1>1. ASSUME NEW c \in ShownCategory, TwoLevels,
             \A p \in OnSale : Fact[p].also = {} /\ Fact[p].category \in ShownCategory
      PROVE  ProductCount(c) = Cardinality(Matches([all EXCEPT !.category = c], FALSE))
  <2> DEFINE own(x) == {p \in OnSale : Fact[p].category = x}
             q == [all EXCEPT !.category = c]
  <2>1. /\ q.category = c /\ q.brands = {} /\ q.inStock = FALSE /\ q.words = {}
        /\ c # Absent
    BY TreeAssumption
  <2> HIDE DEF q, all
  <2>2. Matches(q, FALSE) = behind(c)
    BY <2>1 DEF Matches, OnSale
  <2>3. behind(c) = own(c) \cup {p \in OnSale : Parent[Fact[p].category] = c}
    BY <1>1 DEF InCategory
  <2>4. ASSUME NEW x PROVE OwnCount(x) = Cardinality(own(x)) /\ IsFiniteSet(own(x)) /\ Cardinality(own(x)) \in Nat
    <3>1. {p \in OnSale : x \in Fact[p].also} = {}
      BY <1>1
    <3>2. IsFiniteSet(own(x)) /\ Cardinality(own(x)) \in Nat
      BY <1>0, FS_Subset, FS_CardinalityType
    <3>3. Cardinality({}) = 0
      BY FS_EmptySet
    <3>4. OwnCount(x) = Cardinality(own(x)) + Cardinality({p \in OnSale : x \in Fact[p].also})
      BY DEF OwnCount
    <3>5. Cardinality({p \in OnSale : x \in Fact[p].also}) = 0
      BY <3>1, <3>3
    <3>6. OwnCount(x) = Cardinality(own(x)) + 0
      BY <3>4, <3>5
    <3> HIDE DEF own
    <3> QED
      BY <3>2, <3>6
  <2>5. CASE Parent[c] \in ShownCategory
    <3>1. \A p \in OnSale : Parent[Fact[p].category] # c
      <4> SUFFICES ASSUME NEW p \in OnSale, Parent[Fact[p].category] = c PROVE FALSE
        OBVIOUS
      <4>1. Fact[p].category \in DOMAIN Parent
        BY <1>0, FactAssumption
      <4>2. Parent[c] = Absent
        BY <1>1, <2>1, <4>1 DEF TwoLevels
      <4> QED
        BY <2>5, <4>2, TreeAssumption
    <3>2. behind(c) = own(c)
      BY <2>3, <3>1
    <3>3. ProductCount(c) = OwnCount(c)
      <4>1. ProductCount(c) = OwnCount(c) + 0
        BY <2>5 DEF ProductCount
      <4>2. OwnCount(c) \in Nat
        BY <2>4
      <4> QED
        BY <4>1, <4>2
    <3>4. OwnCount(c) = Cardinality(own(c))
      BY <2>4
    <3> HIDE DEF own, behind
    <3> QED
      BY <2>2, <3>2, <3>3, <3>4 DEF q
  <2>6. CASE Parent[c] \notin ShownCategory
    <3> DEFINE below == {p \in OnSale : Parent[Fact[p].category] = c}
               class == [p \in below |-> Fact[p].category]
               ones == [p \in below |-> 1]
               D == Children(c)
               parts == [child \in D |-> OwnCount(child)]
    <3>1. IsFiniteSet(below) /\ IsFiniteSet(D)
      BY <1>0, TreeAssumption, FS_Subset DEF Children
    <3>2. \A p \in below : class[p] \in D /\ ones[p] = 1
      BY <1>1 DEF Children
    <3>3. ASSUME NEW d \in D PROVE parts[d] = SumFunctionOnSet(ones, Alike(below, class, d))
      <4>1. Alike(below, class, d) = own(d)
        BY DEF Alike, Children
      <4>2. IsFiniteSet(Alike(below, class, d)) /\ \A p \in Alike(below, class, d) : ones[p] = 1
        BY <3>1, FS_Subset DEF Alike
      <4>3. SumFunctionOnSet(ones, Alike(below, class, d)) = Cardinality(own(d))
        BY <4>1, <4>2, SumOfOnes
      <4> QED
        BY <2>4, <4>3
    <3>4. DOMAIN parts = D
      OBVIOUS
    <3>5. ProductCount(c) = OwnCount(c) + SumFunction(parts)
      BY <2>6 DEF ProductCount
    <3>9. below \cap own(c) = {}
      <4> SUFFICES ASSUME NEW p \in below, p \in own(c) PROVE FALSE
        OBVIOUS
      <4>1. Parent[c] = c
        OBVIOUS
      <4> QED
        BY <2>6, <4>1
    <3>10. behind(c) = own(c) \cup below
      BY <2>3
    <3> HIDE DEF class, ones, D, parts, below
    <3>6. SumFunction(parts) = SumFunctionOnSet(parts, D)
      BY <3>4 DEF SumFunction, SumFunctionOnSet, FoldFunction
    <3>7. SumFunctionOnSet(parts, D) = SumFunctionOnSet(ones, below)
      BY <3>1, <3>2, <3>3, SumByClass
    <3>8. SumFunctionOnSet(ones, below) = Cardinality(below)
      BY <3>1, <3>2, SumOfOnes
    <3>11. Cardinality(own(c) \cup below) = Cardinality(own(c)) + Cardinality(below)
      <4>1. own(c) \cap below = {} /\ Cardinality(below) \in Nat /\ Cardinality(own(c)) \in Nat
        BY <2>4, <3>1, <3>9, FS_CardinalityType
      <4>2. Cardinality(own(c) \cup below) = Cardinality(own(c)) + Cardinality(below) - Cardinality(own(c) \cap below)
        BY <2>4, <3>1, FS_Union
      <4>3. Cardinality(own(c) \cap below) = 0
        BY <4>1, FS_EmptySet
      <4> QED
        BY <4>1, <4>2, <4>3
    <3>12. OwnCount(c) = Cardinality(own(c))
      BY <2>4
    <3> HIDE DEF own, behind
    <3>13. ProductCount(c) = Cardinality(behind(c))
      BY <3>5, <3>6, <3>7, <3>8, <3>10, <3>11, <3>12
    <3> QED
      BY <2>2, <3>13 DEF q
  <2> QED
    BY <2>5, <2>6 DEF q
<1>2. ASSUME NEW b \in Brand, \A p \in OnSale : offers[p] # <<>>
      PROVE  BrandCount(b) = Cardinality(Matches([all EXCEPT !.brands = {b}], FALSE))
  <2> DEFINE q == [all EXCEPT !.brands = {b}]
  <2>1. q.category = Absent /\ q.brands = {b} /\ q.inStock = FALSE /\ q.words = {}
    OBVIOUS
  <2> HIDE DEF q, all
  <2>2. Matches(q, FALSE) = {p \in OnSale : Fact[p].brand = b /\ offers[p] # <<>>}
    BY <1>2, <2>1 DEF Matches, OnSale
  <2> QED
    BY <2>2 DEF BrandCount, q
<1> QED
  BY <1>1, <1>2 DEF CountsMatchListing

-----------------------------------------------------------------------------
(* The inductive invariant. A request knows what it asked and what it has  *)
(* found so far, and while the shop has not changed since it began, that   *)
(* is what the shop would give now.                                        *)

Stages == {"candidates", "rank", "facets", "page"}

Typed(r) ==
    /\ r.at \in Stages \cup {"idle", "answered", "fetch", "shown"}
    /\ r.at \in Stages \cup {"answered"} => r.query \in QueryDto /\ r.since \in Nat
    /\ r.at \in Stages => r.loose \in BOOLEAN
    /\ r.at = "rank" => r = [at |-> "rank", query |-> r.query, since |-> r.since,
                             loose |-> r.loose, only |-> r.only, ids |-> r.ids]
    /\ r.at \in {"rank", "facets", "page"} => r.ids \in Seq(Article) \cup {Absent}
    /\ r.at = "fetch" => /\ r.picked \in Seq(Article \X Origin)
                         /\ r.of # Absent => r.of \in Article /\ CuratedFirst(r.of, r.picked)

InTime(r) == r.at \in Stages \cup {"answered"} => r.since <= changes

UpToDate(r) ==
    r.at \in Stages \cup {"answered"} /\ r.since = changes =>
        /\ r.at \in Stages => r.loose = Loose(r.query)
        /\ r.at \in {"rank", "facets", "page"} => r.only = Only(r.query, r.loose)
        /\ r.at = "rank" => r.ids = Chosen(r.query, r.loose)
        /\ r.at \in {"facets", "page"} => Ranked(r.query, r.loose, r.ids)
        /\ r.at = "page" => \A S : S = Hits(r.query, r.loose) => r.facets = Facets(S)
        /\ Undisturbed(r) /\ r.query.sort # "newest" =>
              \A l, list : l = Loose(r.query) /\ list = Chosen(r.query, l) =>
                  \A ids : ids = Slice(list, r.query) => r.items = Cards(ids)

Requests == {client[c] : c \in Client}

ShopTypeOK ==
    /\ onSale \in [Article -> BOOLEAN] /\ OffersOK /\ changes \in Nat
    /\ DOMAIN client = Client /\ client = [c \in Client |-> client[c]]
    /\ advice \in [Question -> Seq(Article) \cup {Absent}]

RequestsOK == \A r \in Requests : Typed(r) /\ InTime(r) /\ UpToDate(r)

AnswersOK ==
    /\ \A r \in Requests : Undisturbed(r) => PageFits(r)
    /\ \A r, s \in Requests : Undisturbed(r) /\ Undisturbed(s) => PagesApart(r, s)

ShopInv == ShopTypeOK /\ RequestsOK /\ AnswersOK

(* What a client is given.                                                 *)
OnSaleItems(x) ==
    x.at \in {"answered", "shown"} => \A i \in DOMAIN x.items : onSale[x.items[i].id]

Given(x) ==
    /\ Typed(x) /\ InTime(x) /\ UpToDate(x) /\ OnSaleItems(x)
    /\ Undisturbed(x) => PageFits(x) /\ x.until = changes

Served(c) == \E x : Given(x) /\ client' = [client EXCEPT ![c] = x]

LEMMA InvAgrees == ShopInv => ListingsAgree
<1> SUFFICES ASSUME ShopInv PROVE ListingsAgree
  OBVIOUS
<1>1. \A c \in Client : client[c] \in Requests
  BY DEF Requests
<1>2. PagesCutOneOrder
  <2>1. ASSUME NEW c \in Client, Undisturbed(client[c]) PROVE PageFits(client[c])
    BY <1>1, <2>1 DEF ShopInv, AnswersOK
  <2>2. ASSUME NEW c \in Client, NEW d \in Client, Undisturbed(client[c]), Undisturbed(client[d])
        PROVE  PagesApart(client[c], client[d])
    BY <1>1, <2>2 DEF ShopInv, AnswersOK
  <2>3. ASSUME NEW c \in Client, NEW d \in Client, Undisturbed(client[c]), Undisturbed(client[d]),
               client[c].since = client[d].since,
               client[d].query = [client[c].query EXCEPT !.page = client[d].query.page],
               client[d].query # client[c].query, client[c].query.sort # "newest"
        PROVE  \A i \in DOMAIN client[c].items, j \in DOMAIN client[d].items :
                   client[c].items[i].id # client[d].items[j].id
    BY <2>2, <2>3 DEF PagesApart
  <2> QED
    BY Zenon, <2>1, <2>3 DEF PagesCutOneOrder, PageFits
<1>3. FacetsAddUp
  <2> SUFFICES ASSUME NEW c \in Client, Undisturbed(client[c]) PROVE PageFits(client[c])
    BY DEF FacetsAddUp, PageFits, Listed
  <2> QED
    BY <1>1 DEF ShopInv, AnswersOK
<1>4. CuratedOutranks
  <2> SUFFICES ASSUME NEW c \in Client, client[c].at = "fetch", client[c].of # Absent
               PROVE  CuratedFirst(client[c].of, client[c].picked)
    BY DEF CuratedOutranks, CuratedFirst, Fair
  <2> QED
    BY <1>1 DEF ShopInv, RequestsOK, Typed
<1> QED
  BY <1>2, <1>3, <1>4, CountsMatch DEF ListingsAgree

LEMMA InitGivesInv == ShopInit => ShopInv
<1> SUFFICES ASSUME ShopInit PROVE ShopInv
  OBVIOUS
<1>1. ShopTypeOK
  <2>1. offers \in [Article -> Seq(Variation)]
    BY OfferAssumption DEF ShopInit
  <2>2. onSale \in [Article -> BOOLEAN] /\ changes \in Nat
    BY DEF ShopInit
  <2>3. DOMAIN client = Client /\ client = [c \in Client |-> client[c]]
    BY DEF ShopInit
  <2>4. advice \in [Question -> Seq(Article) \cup {Absent}]
    BY DEF ShopInit
  <2> QED
    BY <2>1, <2>2, <2>3, <2>4 DEF ShopTypeOK, OffersOK
<1>2. \A r \in Requests : r.at = "idle"
  BY DEF ShopInit, Requests
<1>3. \A r \in Requests : Typed(r)
  BY <1>2 DEF Typed, Stages
<1>4. \A r \in Requests : InTime(r) /\ UpToDate(r)
  BY <1>2 DEF InTime, UpToDate, Stages
<1>5. \A r \in Requests : ~ Undisturbed(r)
  BY <1>2 DEF Undisturbed
<1> QED
  BY <1>1, <1>3, <1>4, <1>5 DEF ShopInv, RequestsOK, AnswersOK

(* A change of the shop makes every request a thing of the past.           *)
LEMMA ChangeKeeps ==
    ASSUME ShopInv, Change, onSale' \in [Article -> BOOLEAN], OffersOK'
    PROVE  ShopInv'
<1>1. changes' = changes + 1 /\ client' = client /\ advice' = advice /\ changes \in Nat
  BY DEF Change, ShopInv, ShopTypeOK
<1>2. ShopTypeOK'
  BY <1>1 DEF ShopInv, ShopTypeOK
<1>3. Requests' = Requests
  BY <1>1 DEF Requests
<1>4. ASSUME NEW r \in Requests PROVE InTime(r)' /\ UpToDate(r)'
  <2>1. r.at \in Stages \cup {"answered"} => r.since \in Nat /\ r.since <= changes
    BY DEF ShopInv, RequestsOK, Typed, InTime
  <2>2. InTime(r)'
    BY <1>1, <2>1 DEF InTime
  <2>3. r.at \in Stages \cup {"answered"} => r.since # changes'
    BY <1>1, <2>1
  <2>4. UpToDate(r)'
    BY <2>3 DEF UpToDate
  <2> QED
    BY <2>2, <2>4
<1>5. RequestsOK'
  <2>1. \A r \in Requests' : Typed(r)
    BY <1>3 DEF ShopInv, RequestsOK
  <2> QED
    BY <1>3, <1>4, <2>1 DEF RequestsOK
<1>6. AnswersOK'
  BY <1>3 DEF ShopInv, AnswersOK
<1> QED
  BY <1>2, <1>5, <1>6 DEF ShopInv

(* The pages of two answers given by the shop as it is.                    *)
LEMMA GivenApart ==
    ASSUME OffersOK, NEW r, NEW s, Typed(r), Typed(s), UpToDate(r), UpToDate(s),
           Undisturbed(r), Undisturbed(s), s.since = changes
    PROVE  PagesApart(r, s)
<1> SUFFICES ASSUME r.since = s.since, s.query = [r.query EXCEPT !.page = s.query.page],
                    s.query # r.query, r.query.sort # "newest",
                    NEW i \in DOMAIN r.items, NEW j \in DOMAIN s.items
             PROVE  r.items[i].id # s.items[j].id
  BY DEF PagesApart
<1>1. r.query \in QueryDto /\ s.query \in QueryDto /\ r.at = "answered" /\ s.at = "answered"
  BY DEF Typed, Undisturbed
<1>2. PICK q : q = r.query
  OBVIOUS
<1>3. PICK p : p = s.query
  OBVIOUS
<1>4. /\ q \in QueryDto /\ p \in QueryDto /\ p = [q EXCEPT !.page = p.page] /\ p # q
      /\ q.sort # "newest" /\ p.sort = q.sort
  <2>1. q \in QueryDto /\ p \in QueryDto /\ p = [q EXCEPT !.page = p.page] /\ p # q
    BY <1>1, <1>2, <1>3
  <2>2. q.sort # "newest"
    BY <1>2
  <2>3. p.sort = q.sort
    BY <2>1 DEF QueryDto
  <2> QED
    BY <2>1, <2>2, <2>3
<1>5. PICK l : l = Loose(q) /\ l = Loose(p) /\ l \in BOOLEAN
  <2>1. Loose(p) = Loose(q)
    BY <1>4, ListingOfAnyPage
  <2>2. Loose(q) \in BOOLEAN
    BY DEF Loose
  <2> QED
    BY <2>1, <2>2
<1>6. PICK list : list = Chosen(q, l) /\ list = Chosen(p, l)
  BY <1>4, ListingOfAnyPage
<1>7. Listing(q, l, list) /\ Listing(p, l, list)
  BY <1>4, <1>6 DEF Listing, Ranked
<1>8. PICK ids, more : ids = Slice(list, q) /\ more = Slice(list, p)
  OBVIOUS
<1>9. r.items = Cards(ids)
  <2>1. r.at = "answered" /\ r.since = changes /\ r.query.sort # "newest"
    BY <1>1
  <2>2. \A x, one : x = Loose(r.query) /\ one = Chosen(r.query, x) =>
           \A part : part = Slice(one, r.query) => r.items = Cards(part)
    BY <2>1 DEF UpToDate
  <2>3. l = Loose(r.query) /\ list = Chosen(r.query, l) /\ ids = Slice(list, r.query)
    BY <1>2, <1>5, <1>6, <1>8
  <2> QED
    BY <2>2, <2>3
<1>10. s.items = Cards(more)
  <2>1. s.at = "answered" /\ s.query.sort # "newest"
    BY <1>1, <1>3, <1>4
  <2>2. \A x, one : x = Loose(s.query) /\ one = Chosen(s.query, x) =>
           \A part : part = Slice(one, s.query) => s.items = Cards(part)
    BY <2>1 DEF UpToDate
  <2>3. l = Loose(s.query) /\ list = Chosen(s.query, l) /\ more = Slice(list, s.query)
    BY <1>3, <1>5, <1>6, <1>8
  <2> QED
    BY <2>2, <2>3
<1>11. PICK k, m : k = Offset(q) /\ m = Offset(p)
  OBVIOUS
<1>12. ids \in Seq(Article)
  BY <1>4, <1>5, <1>7, <1>8, <1>11, SliceOfListing
<1>13. more \in Seq(Article)
  BY <1>4, <1>5, <1>7, <1>8, <1>11, SliceOfListing
<1>14. i \in DOMAIN ids /\ r.items[i].id = ids[i]
  BY <1>9, <1>12, CardsShown
<1>15. j \in DOMAIN more /\ s.items[j].id = more[j]
  BY <1>10, <1>13, CardsShown
<1>16. \A a \in DOMAIN ids, b \in DOMAIN more : ids[a] # more[b]
  <2>1. q \in QueryDto /\ p \in QueryDto /\ p = [q EXCEPT !.page = p.page] /\ p # q /\ q.sort # "newest"
    BY <1>4
  <2>2. l \in BOOLEAN /\ list = Chosen(q, l)
    BY <1>5, <1>6
  <2>3. ids = Slice(list, q) /\ more = Slice(list, p)
    BY <1>8
  <2> QED
    BY <2>1, <2>2, <2>3, SlicesApart
<1> QED
  BY <1>14, <1>15, <1>16

LEMMA ServedKeeps ==
    ASSUME ShopInv, NEW c \in Client, Served(c), UNCHANGED <<onSale, offers, changes>>,
           advice' \in [Question -> Seq(Article) \cup {Absent}]
    PROVE  /\ ShopInv'
           /\ \A d \in Client : client'[d].at \in {"answered", "shown"} /\ client'[d] # client[d] =>
                 \A i \in DOMAIN client'[d].items : onSale[client'[d].items[i].id]
<1>1. PICK x : Given(x) /\ client' = [client EXCEPT ![c] = x]
  BY DEF Served
<1>2. DOMAIN client = Client /\ OffersOK /\ client = [d \in Client |-> client[d]]
  BY DEF ShopInv, ShopTypeOK
<1>3. client'[c] = x /\ \A d \in Client \ {c} : client'[d] = client[d]
  BY <1>1, <1>2
<1>4. ShopTypeOK'
  <2>1. DOMAIN client' = Client
    BY <1>1, <1>2
  <2>2. client' = [d \in Client |-> client'[d]]
    BY <1>1, <2>1
  <2>3. OffersOK' /\ onSale' \in [Article -> BOOLEAN] /\ changes' \in Nat
    BY DEF ShopInv, ShopTypeOK, OffersOK
  <2> QED
    BY <2>1, <2>2, <2>3 DEF ShopTypeOK
<1>5. ASSUME NEW r \in Requests' PROVE r = x \/ r \in Requests
  BY <1>3, <1>5 DEF Requests
<1>6. ASSUME NEW r \in Requests'
      PROVE  /\ Typed(r) /\ InTime(r) /\ UpToDate(r)
             /\ Undisturbed(r) => PageFits(r)
  BY <1>1, <1>5 DEF Given, ShopInv, RequestsOK, AnswersOK
<1>7. ASSUME NEW r PROVE (InTime(r)' <=> InTime(r)) /\ (UpToDate(r)' <=> UpToDate(r))
  <2>1. InTime(r)' <=> InTime(r)
    BY DEF InTime
  <2>2. UpToDate(r)' <=> UpToDate(r)
    BY ShopStays DEF UpToDate
  <2> QED
    BY <2>1, <2>2
<1>8. RequestsOK'
  BY <1>6, <1>7 DEF RequestsOK
<1>9. ASSUME NEW r \in Requests', NEW s \in Requests', Undisturbed(r), Undisturbed(s)
      PROVE  PagesApart(r, s)
  <2>1. CASE r \in Requests /\ s \in Requests
    BY <1>9, <2>1 DEF ShopInv, AnswersOK
  <2>2. CASE s = x
    <3>1. s.since = changes
      BY <1>1, <1>9, <2>2 DEF Given, Undisturbed
    <3> QED
      BY <1>2, <1>6, <1>9, <3>1, GivenApart
  <2>3. CASE r = x
    <3>1. r.since = changes
      BY <1>1, <1>9, <2>3 DEF Given, Undisturbed
    <3>2. CASE s.since = changes
      BY <1>2, <1>6, <1>9, <3>2, GivenApart
    <3>3. CASE s.since # changes
      BY <3>1, <3>3 DEF PagesApart
    <3> QED
      BY <3>2, <3>3
  <2> QED
    BY <1>5, <2>1, <2>2, <2>3
<1>10. AnswersOK'
  BY <1>6, <1>9 DEF AnswersOK
<1>11. \A d \in Client : client'[d].at \in {"answered", "shown"} /\ client'[d] # client[d] =>
           \A i \in DOMAIN client'[d].items : onSale[client'[d].items[i].id]
  BY <1>1, <1>3 DEF Given, OnSaleItems
<1> QED
  BY <1>4, <1>8, <1>10, <1>11 DEF ShopInv

LEMMA RequestKnown ==
    ASSUME ShopInv, NEW c \in Client
    PROVE  /\ Typed(client[c]) /\ InTime(client[c]) /\ UpToDate(client[c])
           /\ OffersOK /\ changes \in Nat /\ Absent \notin Seq(Article)
<1>1. client[c] \in Requests
  BY DEF Requests
<1>2. Seq(Article) \subseteq Seq(Nat)
  BY ProductAssumption, SeqMonotonic
<1> QED
  BY <1>1, <1>2, ProductAssumption DEF ShopInv, RequestsOK, ShopTypeOK

LEMMA BeginServes ==
    ASSUME ShopInv, NEW c \in Client, NEW q \in Query, Begin(c, q)
    PROVE  Served(c)
<1>1. PICK x : x = [at |-> "candidates", query |-> q, since |-> changes, loose |-> Loose(q)]
  OBVIOUS
<1>2. client' = [client EXCEPT ![c] = x]
  BY <1>1 DEF Begin, Loose
<1>3. changes \in Nat /\ q \in QueryDto /\ Loose(q) \in BOOLEAN
  BY RequestKnown, QueryAssumption DEF Loose
<1>4. x.at = "candidates" /\ x.query = q /\ x.since = changes /\ x.loose = Loose(q)
  BY <1>1
<1>5. Typed(x) /\ InTime(x) /\ UpToDate(x) /\ OnSaleItems(x) /\ ~ Undisturbed(x)
  BY <1>3, <1>4 DEF Typed, InTime, UpToDate, OnSaleItems, Undisturbed, Stages
<1> QED
  BY <1>2, <1>5 DEF Served, Given

LEMMA CandidatesServes ==
    ASSUME ShopInv, NEW c \in Client, Candidates(c)
    PROVE  Served(c)
<1>1. PICK r : r = client[c]
  OBVIOUS
<1>2. PICK q : q = r.query
  OBVIOUS
<1>3. r.at = "candidates" /\ Typed(r) /\ InTime(r) /\ UpToDate(r) /\ OffersOK
  BY <1>1, RequestKnown DEF Candidates
<1>4. q \in QueryDto /\ r.loose \in BOOLEAN /\ r.since \in Nat
  BY <1>2, <1>3 DEF Typed, Stages
<1>5. PICK x : x = [at |-> "rank", query |-> q, since |-> r.since, loose |-> r.loose,
                    only |-> Only(q, r.loose), ids |-> Chosen(q, r.loose)]
  OBVIOUS
<1>6. client' = [client EXCEPT ![c] = x]
  BY <1>1, <1>2, <1>5 DEF Candidates, Advance, Only, Chosen, Compared
<1>7. /\ x.at = "rank" /\ x.query = q /\ x.since = r.since /\ x.loose = r.loose
      /\ x.only = Only(q, r.loose) /\ x.ids = Chosen(q, r.loose)
      /\ x = [at |-> "rank", query |-> x.query, since |-> x.since,
              loose |-> x.loose, only |-> x.only, ids |-> x.ids]
  BY <1>5
<1>8. Chosen(q, r.loose) \in Seq(Article) \cup {Absent}
  BY <1>3, <1>4, ChosenIsList
<1>9. Typed(x)
  BY <1>4, <1>7, <1>8 DEF Typed, Stages
<1>10. InTime(x) /\ OnSaleItems(x) /\ ~ Undisturbed(x)
  BY <1>3, <1>7 DEF InTime, OnSaleItems, Undisturbed, Stages
<1>11. r.since = changes => r.loose = Loose(q)
  BY <1>2, <1>3 DEF UpToDate, Stages
<1>12. UpToDate(x)
  BY <1>7, <1>10, <1>11 DEF UpToDate
<1> QED
  BY <1>6, <1>9, <1>10, <1>12 DEF Served, Given

LEMMA RankServes ==
    ASSUME ShopInv, NEW c \in Client, Rank(c)
    PROVE  Served(c)
<1>1. PICK r : r = client[c]
  OBVIOUS
<1>2. PICK q : q = r.query
  OBVIOUS
<1>3. r.at = "rank" /\ Typed(r) /\ InTime(r) /\ UpToDate(r) /\ OffersOK
  BY <1>1, RequestKnown DEF Rank
<1>4. /\ q \in QueryDto /\ r.loose \in BOOLEAN /\ r.since \in Nat
      /\ r = [at |-> "rank", query |-> r.query, since |-> r.since,
              loose |-> r.loose, only |-> r.only, ids |-> r.ids]
      /\ r.ids \in Seq(Article) \cup {Absent}
  BY <1>2, <1>3 DEF Typed, Stages
<1>5. PICK S : S = Matches(q, TRUE) \cap r.only
  OBVIOUS
<1>6. PICK ids \in IF r.loose /\ r.ids = Absent
                  THEN {RankByWords(some, q.words) : some \in Rows(S)} ELSE {r.ids} :
          client' = [client EXCEPT ![c] = [r EXCEPT !.at = "facets", !.ids = ids]]
  BY <1>1, <1>2, <1>5 DEF Rank, Advance
<1>7. PICK x : x = [r EXCEPT !.at = "facets", !.ids = ids]
  OBVIOUS
<1>8. /\ x.at = "facets" /\ x.query = q /\ x.since = r.since /\ x.loose = r.loose
      /\ x.only = r.only /\ x.ids = ids
  BY <1>2, <1>4, <1>7
<1>9. ids \in Seq(Article) \cup {Absent}
  <2>1. CASE r.loose /\ r.ids = Absent
    <3>1. PICK some \in Rows(S) : ids = RankByWords(some, q.words)
      BY <1>6, <2>1
    <3>2. S \subseteq Article
      BY <1>5, HitsAreOnSale
    <3>3. q \in QueryDto
      BY <1>4
    <3>4. Names(ids, some) /\ some \subseteq S
      BY <3>1, <3>2, <3>3, RankedRows
    <3>5. some \subseteq Article
      BY <3>2, <3>4
    <3> QED
      BY <3>4, <3>5, ListIsNamed
  <2>2. CASE ~ (r.loose /\ r.ids = Absent)
    BY <1>4, <1>6, <2>2
  <2> QED
    BY <2>1, <2>2
<1>10. Typed(x)
  BY <1>4, <1>8, <1>9 DEF Typed, Stages
<1>11. InTime(x) /\ OnSaleItems(x) /\ ~ Undisturbed(x)
  BY <1>3, <1>8 DEF InTime, OnSaleItems, Undisturbed, Stages
<1>12. ASSUME r.since = changes
       PROVE  /\ r.loose = Loose(q) /\ r.only = Only(q, r.loose)
              /\ Ranked(q, r.loose, ids)
  <2>1. r.loose = Loose(q) /\ r.only = Only(q, r.loose) /\ r.ids = Chosen(q, r.loose)
    BY <1>2, <1>3, <1>12 DEF UpToDate, Stages
  <2>2. r.ids = Absent <=> q.sort = "newest"
    BY <1>3, <1>4, <2>1, ChosenIsList
  <2>3. CASE r.loose /\ q.sort = "newest"
    <3>1. PICK some \in Rows(S) : ids = RankByWords(some, q.words)
      BY <1>6, <2>2, <2>3
    <3>2. r.loose = TRUE
      BY <2>3
    <3>3. S = Hits(q, r.loose)
      BY <1>5, <2>1, <3>2 DEF Hits
    <3>4. \E few \in Rows(Hits(q, r.loose)) : ids = RankByWords(few, q.words)
      BY <3>1, <3>3
    <3> QED
      BY <2>1, <2>3, <3>4 DEF Ranked
  <2>4. CASE ~ (r.loose /\ q.sort = "newest")
    <3>1. ids = Chosen(q, r.loose)
      BY <1>6, <2>1, <2>2, <2>4
    <3> QED
      BY <2>1, <2>4, <3>1 DEF Ranked
  <2> QED
    BY <2>1, <2>3, <2>4
<1>13. UpToDate(x)
  BY <1>8, <1>11, <1>12 DEF UpToDate
<1> QED
  BY <1>6, <1>7, <1>10, <1>11, <1>13 DEF Served, Given

LEMMA CountServes ==
    ASSUME ShopInv, NEW c \in Client, CountFacets(c)
    PROVE  Served(c)
<1>1. PICK r : r = client[c]
  OBVIOUS
<1>2. PICK q : q = r.query
  OBVIOUS
<1>3. r.at = "facets" /\ Typed(r) /\ InTime(r) /\ UpToDate(r)
  BY <1>1, RequestKnown DEF CountFacets
<1>4. /\ q \in QueryDto /\ r.loose \in BOOLEAN /\ r.since \in Nat
      /\ r.ids \in Seq(Article) \cup {Absent}
  BY <1>2, <1>3 DEF Typed, Stages
<1>5. PICK S : S = Matches(q, r.loose) \cap r.only
  OBVIOUS
<1>6. PICK x : x = [at |-> "page", query |-> q, since |-> r.since, loose |-> r.loose,
                    only |-> r.only, ids |-> r.ids, facets |-> Facets(S)]
  OBVIOUS
<1>7. client' = [client EXCEPT ![c] = x]
  BY <1>1, <1>2, <1>5, <1>6 DEF CountFacets, Advance
<1>8. /\ x.at = "page" /\ x.query = q /\ x.since = r.since /\ x.loose = r.loose
      /\ x.only = r.only /\ x.ids = r.ids /\ x.facets = Facets(S)
  BY <1>6
<1>10. Typed(x)
  BY <1>4, <1>8 DEF Typed, Stages
<1>11. InTime(x) /\ OnSaleItems(x) /\ ~ Undisturbed(x)
  BY <1>3, <1>8 DEF InTime, OnSaleItems, Undisturbed, Stages
<1>12. ASSUME r.since = changes
       PROVE  /\ r.loose = Loose(q) /\ r.only = Only(q, r.loose)
              /\ Ranked(q, r.loose, r.ids) /\ S = Hits(q, r.loose)
  <2>1. r.loose = Loose(q) /\ r.only = Only(q, r.loose) /\ Ranked(q, r.loose, r.ids)
    BY <1>2, <1>3, <1>12 DEF UpToDate, Stages
  <2> QED
    BY <1>5, <2>1 DEF Hits
<1>13. UpToDate(x)
  BY <1>8, <1>11, <1>12 DEF UpToDate
<1> QED
  BY <1>7, <1>10, <1>11, <1>13 DEF Served, Given

LEMMA PageServes ==
    ASSUME ShopInv, NEW c \in Client, Page(c)
    PROVE  Served(c)
<1>1. PICK r : r = client[c]
  OBVIOUS
<1>2. PICK q : q = r.query
  OBVIOUS
<1>3. r.at = "page" /\ Typed(r) /\ InTime(r) /\ UpToDate(r) /\ OffersOK /\ Absent \notin Seq(Article)
  BY <1>1, RequestKnown DEF Page
<1>4. /\ q \in QueryDto /\ r.loose \in BOOLEAN /\ r.since \in Nat
      /\ r.ids \in Seq(Article) \cup {Absent}
  BY <1>2, <1>3 DEF Typed, Stages
<1>5. PICK S : S = Matches(q, r.loose) \cap r.only
  OBVIOUS
<1>6. PICK list, ids :
          /\ IF r.ids # Absent THEN list = r.ids /\ ids = Fetched(Slice(list, q))
             ELSE list \in Newest(S) /\ ids = Slice(list, q)
          /\ client' = [client EXCEPT ![c] = Answered(r, ids, Len(list))]
  <2>1. CASE r.ids # Absent
    BY <1>1, <1>2, <2>1 DEF Page, Advance
  <2>2. CASE r.ids = Absent
    <3>1. PICK found \in Newest(S) :
              client' = [client EXCEPT ![c] = Answered(r, Slice(found, q), Len(found))]
      BY <1>1, <1>2, <1>5, <2>2 DEF Page, Advance
    <3> QED
      BY <2>2, <3>1
  <2> QED
    BY <2>1, <2>2
<1>7. PICK cut : cut = Slice(list, q)
  OBVIOUS
<1>8. ids = IF r.ids # Absent THEN Fetched(cut) ELSE cut
  BY <1>6, <1>7
<1>9. PICK x : x = Answered(r, ids, Len(list))
  OBVIOUS
<1>10. client' = [client EXCEPT ![c] = x]
  BY <1>6, <1>9
<1>11. /\ x.at = "answered" /\ x.query = q /\ x.since = r.since /\ x.until = changes
       /\ x.loose = r.loose
       /\ x.items = Cards(ids) /\ x.total = Len(list) /\ x.facets = r.facets
  BY <1>2, <1>9 DEF Answered
<1>12. /\ S \subseteq Article /\ \A p \in S : onSale[p]
       /\ r.ids = Absent => Names(list, S)
  <2>1. S \subseteq Article /\ \A p \in S : onSale[p]
    BY <1>5, HitsAreOnSale
  <2> QED
    BY <1>6, <2>1, NewestNames
<1>13. list \in Seq(Article)
  <2>1. CASE r.ids # Absent
    BY <1>4, <1>6, <2>1
  <2>2. CASE r.ids = Absent
    BY <1>12, <2>2, ListIsNamed
  <2> QED
    BY <2>1, <2>2
<1>14. cut \in Seq(Article)
  <2>1. q.page \in Nat \ {0} /\ q.perPage \in Nat \ {0}
    BY <1>4 DEF QueryDto
  <2>2. Slice(list, q) \in Seq(Article)
    BY <1>13, <2>1, SliceFacts
  <2> QED
    BY <1>7, <2>2
<1>15. ids \in Seq(Article) /\ \A i \in DOMAIN ids : onSale[ids[i]]
  <2>1. CASE r.ids # Absent
    BY <1>8, <1>14, <2>1, FetchedOnSale
  <2>2. CASE r.ids = Absent
    <3>1. list \in Seq(S)
      BY <1>12, <2>2 DEF Names
    <3>2. q.page \in Nat \ {0} /\ q.perPage \in Nat \ {0}
      BY <1>4 DEF QueryDto
    <3>3. Slice(list, q) \in Seq(S)
      BY <3>1, <3>2, SliceFacts
    <3>4. ids \in Seq(S)
      BY <1>7, <1>8, <2>2, <3>3
    <3>5. \A i \in DOMAIN ids : ids[i] \in S
      BY <3>4
    <3> QED
      BY <1>8, <1>12, <1>14, <2>2, <3>5
  <2> QED
    BY <2>1, <2>2
<1>16. OnSaleItems(x)
  BY <1>11, <1>15, CardsShown DEF OnSaleItems
<1>17. Typed(x)
  BY <1>4, <1>11 DEF Typed, Stages
<1>18. InTime(x)
  BY <1>3, <1>11 DEF InTime, Stages
<1>19. ASSUME r.since = changes
       PROVE  /\ r.loose = Loose(q) /\ Listing(q, r.loose, list) /\ ids = cut
              /\ r.facets = Facets(Hits(q, r.loose))
  <2>1. /\ r.loose = Loose(q) /\ r.only = Only(q, r.loose) /\ Ranked(q, r.loose, r.ids)
        /\ r.facets = Facets(Hits(q, r.loose))
    BY <1>2, <1>3, <1>19 DEF UpToDate, Stages
  <2>2. /\ r.ids # Absent <=> r.loose \/ q.sort # "newest"
        /\ r.ids # Absent => Listing(q, r.loose, r.ids)
    BY <1>3, <1>4, <2>1, RankedIsListing
  <2>3. Listing(q, r.loose, list)
    <3>1. CASE r.ids # Absent
      BY <1>6, <2>2, <3>1
    <3>2. CASE r.ids = Absent
      <4>1. S = Hits(q, r.loose)
        BY <1>5, <2>1 DEF Hits
      <4>2. list \in Newest(Hits(q, r.loose))
        BY <1>6, <3>2, <4>1
      <4> QED
        BY <2>2, <3>2, <4>2 DEF Listing
    <3> QED
      BY <3>1, <3>2
  <2>4. PICK k : k = Offset(q)
    OBVIOUS
  <2>5. \A i \in DOMAIN cut : cut[i] \in Hits(q, r.loose)
    BY <1>3, <1>4, <1>7, <2>3, <2>4, SliceOfListing
  <2>6. \A i \in DOMAIN cut : onSale[cut[i]]
    BY <2>5, ComparedFits
  <2>7. ids = cut
    BY <1>8, <1>14, <2>6, FetchedOnSale
  <2> QED
    BY <2>1, <2>3, <2>7
<1>20. UpToDate(x)
  <2> SUFFICES ASSUME x.since = changes, q.sort # "newest"
               PROVE  \A l, one : l = Loose(q) /\ one = Chosen(q, l) =>
                          \A part : part = Slice(one, q) => x.items = Cards(part)
    BY <1>11 DEF UpToDate, Stages
  <2>1. r.loose = Loose(q) /\ Listing(q, r.loose, list) /\ ids = cut
    BY <1>11, <1>19
  <2>2. list = Chosen(q, r.loose)
    BY <1>3, <1>4, <2>1, ListingNames
  <2> QED
    BY <1>7, <1>11, <2>1, <2>2
<1>21. Undisturbed(x) => PageFits(x) /\ x.until = changes
  <2> SUFFICES ASSUME Undisturbed(x) PROVE PageFits(x)
    BY <1>11
  <2>1. r.since = changes
    BY <1>11 DEF Undisturbed
  <2>2. PICK l : l = r.loose
    OBVIOUS
  <2>3. l \in BOOLEAN /\ x.query \in QueryDto /\ x.loose = l
    BY <1>4, <1>11, <2>2
  <2>4. Listing(x.query, l, list)
    BY <1>11, <1>19, <2>1, <2>2
  <2>5. x.items = Cards(Slice(list, x.query)) /\ x.total = Len(list)
    BY <1>7, <1>11, <1>19, <2>1
  <2>6. x.facets = Facets(Hits(x.query, l))
    BY <1>11, <1>19, <2>1, <2>2
  <2> QED
    BY <1>3, <2>3, <2>4, <2>5, <2>6, PagesFit
<1> QED
  BY <1>10, <1>16, <1>17, <1>18, <1>20, <1>21 DEF Served, Given

(* A request that is not a listing.                                        *)
LEMMA SelectServes ==
    ASSUME ShopInv, NEW c \in Client, NEW p, NEW picked \in Seq(Article \X Origin),
           p # Absent => p \in Article /\ CuratedFirst(p, picked),
           client' = [client EXCEPT ![c] = [at |-> "fetch", of |-> p, picked |-> picked]]
    PROVE  Served(c)
<1>1. PICK x : x = [at |-> "fetch", of |-> p, picked |-> picked]
  OBVIOUS
<1>2. x.at = "fetch" /\ x.of = p /\ x.picked = picked
  BY <1>1
<1>3. Typed(x)
  BY <1>2 DEF Typed, Stages
<1>4. InTime(x) /\ UpToDate(x) /\ OnSaleItems(x) /\ ~ Undisturbed(x)
  BY <1>2 DEF InTime, UpToDate, OnSaleItems, Undisturbed, Stages
<1> QED
  BY <1>1, <1>3, <1>4 DEF Served, Given

LEMMA ShownServes ==
    ASSUME ShopInv, NEW c \in Client, NEW ids \in Seq(Article), \A i \in DOMAIN ids : onSale[ids[i]],
           client' = [client EXCEPT ![c] = [at |-> "shown", items |-> Cards(ids)]]
    PROVE  Served(c)
<1>1. PICK x : x = [at |-> "shown", items |-> Cards(ids)]
  OBVIOUS
<1>2. x.at = "shown" /\ x.items = Cards(ids)
  BY <1>1
<1>3. Typed(x)
  BY <1>2 DEF Typed, Stages
<1>4. OnSaleItems(x)
  BY <1>2, CardsShown DEF OnSaleItems
<1>5. InTime(x) /\ UpToDate(x) /\ ~ Undisturbed(x)
  BY <1>2 DEF InTime, UpToDate, Undisturbed, Stages
<1> QED
  BY <1>1, <1>3, <1>4, <1>5 DEF Served, Given

LEMMA LeaveServes ==
    ASSUME ShopInv, NEW c \in Client, Leave(c)
    PROVE  Served(c)
<1>1. PICK x : x = [at |-> "idle"]
  OBVIOUS
<1>2. x.at = "idle" /\ client' = [client EXCEPT ![c] = x]
  BY <1>1 DEF Leave
<1>3. Typed(x)
  BY <1>2 DEF Typed, Stages
<1>4. InTime(x) /\ UpToDate(x) /\ OnSaleItems(x) /\ ~ Undisturbed(x)
  BY <1>2 DEF InTime, UpToDate, OnSaleItems, Undisturbed, Stages
<1> QED
  BY <1>2, <1>3, <1>4 DEF Served, Given

LEMMA CompareServes ==
    ASSUME ShopInv, NEW c \in Client, NEW S \in SUBSET Article, Compare(c, S)
    PROVE  Served(c)
<1>1. IsFiniteSet(S) /\ S \subseteq Nat
  BY ProductAssumption, FS_Subset
<1>2. PICK ids : ids = SetToSeq(S)
  OBVIOUS
<1>3. ids \in Seq(S)
  <2>1. PICK some : Names(some, S)
    <3>1. IsFiniteSet({})
      BY FS_EmptySet
    <3>2. Names(RankByWords(S, {}), S)
      BY <3>1, RankedNames
    <3> QED
      BY <3>2
  <2>2. some \in Seq(S) /\ Len(some) = Cardinality(S)
        /\ \A i, j \in DOMAIN some : i # j => some[i] # some[j]
    BY <2>1 DEF Names
  <2>3. Cardinality(S) \in Nat
    BY <1>1, FS_CardinalityType
  <2>4. some \in [1..Cardinality(S) -> S]
    BY <2>2, <2>3
  <2>5. IsInjective(some)
    BY <2>2 DEF IsInjective
  <2>6. \E f \in [1..Cardinality(S) -> S] : IsInjective(f)
    BY <2>4, <2>5
  <2>7. SetToSeq(S) \in [1..Cardinality(S) -> S]
    BY <2>6 DEF SetToSeq
  <2> QED
    BY <1>2, <2>3, <2>7
<1>4. ids \in Seq(Article)
  BY <1>3, SeqMonotonic
<1>5. \A i \in DOMAIN ids : onSale[ids[i]]
  BY <1>3 DEF Compare
<1>6. client' = [client EXCEPT ![c] = [at |-> "shown", items |-> Cards(ids)]]
  BY <1>2 DEF Compare, Shown
<1> QED
  BY <1>4, <1>5, <1>6, ShownServes

LEMMA BySlugServes ==
    ASSUME ShopInv, NEW c \in Client, NEW p \in Article, BySlug(c, p)
    PROVE  Served(c)
<1>1. <<p>> \in Seq(Article) /\ (\A i \in DOMAIN <<p>> : onSale[<<p>>[i]])
  BY DEF BySlug
<1>2. client' = [client EXCEPT ![c] = [at |-> "shown", items |-> Cards(<<p>>)]]
  BY DEF BySlug, Shown
<1> QED
  BY <1>1, <1>2, ShownServes

LEMMA FetchServes ==
    ASSUME ShopInv, NEW c \in Client, Fetch(c)
    PROVE  Served(c)
<1>1. PICK ids : ids = Ids(client[c].picked)
  OBVIOUS
<1>2. PICK shown : shown = Fetched(ids)
  OBVIOUS
<1>3. client[c].picked \in Seq(Article \X Origin)
  BY RequestKnown DEF Fetch, Typed
<1>4. ids \in Seq(Article)
  BY <1>1, <1>3, IdsAreList
<1>5. shown \in Seq(Article) /\ \A i \in DOMAIN shown : onSale[shown[i]]
  BY <1>2, <1>4, FetchedOnSale
<1>6. client' = [client EXCEPT ![c] = [at |-> "shown", items |-> Cards(shown)]]
  BY <1>1, <1>2 DEF Fetch, Advance
<1> QED
  BY <1>5, <1>6, ShownServes

LEMMA ListsServe ==
    ASSUME ShopInv, NEW c \in Client, Lists(c)
    PROVE  Served(c)
<1>1. ASSUME NEW ids \in Seq(Article), NEW list \in Origin, Select(c, Absent, From(list, ids))
      PROVE  Served(c)
  <2>1. From(list, ids) \in Seq(Article \X Origin)
    BY FromIsList
  <2> QED
    BY <1>1, <2>1, SelectServes DEF Select
<1>2. ListSize \in Nat
  BY LimitAssumption
<1>3. /\ "best-sellers" \in Origin /\ "top-rated" \in Origin /\ "featured" \in Origin
      /\ "together" \in Origin /\ "compatible" \in Origin
  BY DEF Origin
<1>0. CASE \E p \in Article : onSale[p] /\
          \/ \E ids \in BoughtTogether(p, ListSize) : Select(c, Absent, From("together", ids))
          \/ \E ids \in Compatible(p, ListSize) : Select(c, Absent, From("compatible", ids))
          \/ \E picked \in Recommended(p) : Select(c, p, picked)
  <2>1. PICK p \in Article : onSale[p] /\
          (\/ \E ids \in BoughtTogether(p, ListSize) : Select(c, Absent, From("together", ids))
           \/ \E ids \in Compatible(p, ListSize) : Select(c, Absent, From("compatible", ids))
           \/ \E picked \in Recommended(p) : Select(c, p, picked))
    BY <1>0
  <2>2. BoughtTogether(p, ListSize) \subseteq Seq(Article) /\ Compatible(p, ListSize) \subseteq Seq(Article)
    BY <1>2, SourcesAreLists
  <2>3. CASE \E ids \in BoughtTogether(p, ListSize) : Select(c, Absent, From("together", ids))
    BY <1>1, <1>3, <2>2, <2>3
  <2>4. CASE \E ids \in Compatible(p, ListSize) : Select(c, Absent, From("compatible", ids))
    BY <1>1, <1>3, <2>2, <2>4
  <2>5. CASE \E picked \in Recommended(p) : Select(c, p, picked)
    <3>1. PICK picked \in Recommended(p) : Select(c, p, picked)
      BY <2>5
    <3>2. CuratedFirst(p, picked)
      BY <3>1, RecommendedFits
    <3>3. picked \in Seq(Article \X Origin)
      BY <3>2 DEF CuratedFirst, Fair
    <3> QED
      BY <3>1, <3>2, <3>3, SelectServes DEF Select
  <2> QED
    BY <2>1, <2>3, <2>4, <2>5
<1>4. CASE \E ids \in BestSellers(ListSize) : Select(c, Absent, From("best-sellers", ids))
  <2>1. PICK ids \in BestSellers(ListSize) : Select(c, Absent, From("best-sellers", ids))
    BY <1>4
  <2>2. BestSellers(ListSize) \subseteq Seq(Article)
    BY <1>2, BestSellersAreLists
  <2> QED
    BY <1>1, <1>3, <2>1, <2>2
<1>5. CASE \E ids \in TopRated(ListSize) : Select(c, Absent, From("top-rated", ids))
  <2>1. PICK ids \in TopRated(ListSize) : Select(c, Absent, From("top-rated", ids))
    BY <1>5
  <2>2. TopRated(ListSize) \subseteq Seq(Article)
    BY <1>2, BestSellersAreLists
  <2> QED
    BY <1>1, <1>3, <2>1, <2>2
<1>6. CASE \E ids \in Featured(ListSize) : Select(c, Absent, From("featured", ids))
  <2>1. PICK ids \in Featured(ListSize) : Select(c, Absent, From("featured", ids))
    BY <1>6
  <2>2. Featured(ListSize) \subseteq Seq(Article)
    BY <1>2, BestSellersAreLists
  <2> QED
    BY <1>1, <1>3, <2>1, <2>2
<1> QED
  BY <1>0, <1>4, <1>5, <1>6 DEF Lists

LEMMA AdviseServes ==
    ASSUME ShopInv, NEW c \in Client, NEW question \in Question, NEW named \in SUBSET Article,
           NEW reply \in SetToSeqs(named), Advise(c, question, reply)
    PROVE  Served(c) /\ advice' \in [Question -> Seq(Article) \cup {Absent}]
<1>1. PICK ids : ids = IF advice[question] # Absent THEN advice[question] ELSE reply
  OBVIOUS
<1>2. advice \in [Question -> Seq(Article) \cup {Absent}]
  BY DEF ShopInv, ShopTypeOK
<1>3. ids \in Seq(Article)
  BY <1>1, <1>2, ReplyIsList
<1>4. "advice" \in Origin
  BY DEF Origin
<1>5. From("advice", ids) \in Seq(Article \X Origin)
  BY <1>3, <1>4, FromIsList
<1>6. client' = [client EXCEPT ![c] = [at |-> "fetch", of |-> Absent, picked |-> From("advice", ids)]]
      /\ advice' = [advice EXCEPT ![question] = ids]
  BY <1>1 DEF Advise
<1>7. Served(c)
  BY <1>5, <1>6, SelectServes
<1> QED
  BY <1>2, <1>3, <1>6, <1>7

(* What a step does: it changes the shop, or serves one client.            *)
Altered == Change /\ onSale' \in [Article -> BOOLEAN] /\ OffersOK'

ServedOne ==
    \E c \in Client : /\ Served(c) /\ UNCHANGED <<onSale, offers, changes>>
                      /\ advice' \in [Question -> Seq(Article) \cup {Absent}]

LEMMA NextServes ==
    ASSUME ShopInv, ShopNext
    PROVE  Altered \/ ServedOne
<1>1. ASSUME NEW p \in Article, Publish(p) PROVE Altered
  <2>1. onSale \in [Article -> BOOLEAN] /\ offers \in [Article -> Seq(Variation)]
    BY DEF ShopInv, ShopTypeOK, OffersOK
  <2>2. onSale' = [onSale EXCEPT ![p] = ~ onSale[p]] /\ offers' = offers /\ Change
    BY <1>1 DEF Publish
  <2>3. onSale' \in [Article -> BOOLEAN]
    BY <2>1, <2>2
  <2> QED
    BY <2>1, <2>2, <2>3 DEF Altered, OffersOK
<1>2. ASSUME NEW p \in Article, NEW offer \in Offer, Reprice(p, offer) PROVE Altered
  <2>1. onSale \in [Article -> BOOLEAN] /\ offers \in [Article -> Seq(Variation)]
    BY DEF ShopInv, ShopTypeOK, OffersOK
  <2>2. onSale' = onSale /\ offers' = [offers EXCEPT ![p] = offer] /\ Change
    BY <1>2 DEF Reprice
  <2>3. offer \in Seq(Variation)
    BY OfferAssumption
  <2>4. offers' \in [Article -> Seq(Variation)]
    BY <2>1, <2>2, <2>3
  <2> QED
    BY <2>1, <2>2, <2>4 DEF Altered, OffersOK
<1>3. advice \in [Question -> Seq(Article) \cup {Absent}]
  BY DEF ShopInv, ShopTypeOK
<1>4. ASSUME NEW c \in Client, Served(c), Unchanged PROVE ServedOne
  BY <1>3, <1>4 DEF ServedOne, Unchanged
<1>5. ASSUME NEW c \in Client, NEW q \in Query, Begin(c, q) PROVE ServedOne
  BY <1>4, <1>5, BeginServes DEF Begin
<1>6. ASSUME NEW c \in Client, Candidates(c) PROVE ServedOne
  BY <1>4, <1>6, CandidatesServes DEF Candidates
<1>7. ASSUME NEW c \in Client, Rank(c) PROVE ServedOne
  BY <1>4, <1>7, RankServes DEF Rank
<1>8. ASSUME NEW c \in Client, CountFacets(c) PROVE ServedOne
  BY <1>4, <1>8, CountServes DEF CountFacets
<1>9. ASSUME NEW c \in Client, Page(c) PROVE ServedOne
  BY <1>4, <1>9, PageServes DEF Page
<1>10. ASSUME NEW c \in Client, NEW p \in Article, BySlug(c, p) PROVE ServedOne
  BY <1>4, <1>10, BySlugServes DEF BySlug, Shown
<1>11. ASSUME NEW c \in Client, NEW S \in SUBSET Article, Compare(c, S) PROVE ServedOne
  BY <1>4, <1>11, CompareServes DEF Compare, Shown
<1>12. ASSUME NEW c \in Client, Lists(c) PROVE ServedOne
  <2>1. Unchanged
    BY <1>12 DEF Lists, Select
  <2> QED
    BY <1>4, <1>12, <2>1, ListsServe
<1>13. ASSUME NEW c \in Client, Fetch(c) PROVE ServedOne
  BY <1>4, <1>13, FetchServes DEF Fetch
<1>14. ASSUME NEW c \in Client, Leave(c) PROVE ServedOne
  BY <1>4, <1>14, LeaveServes DEF Leave
<1>15. ASSUME NEW c \in Client, NEW question \in Question, NEW named \in SUBSET Article,
              NEW reply \in SetToSeqs(named), Advise(c, question, reply)
       PROVE  ServedOne
  <2>1. UNCHANGED <<onSale, offers, changes>>
    BY <1>15 DEF Advise
  <2> QED
    BY <1>15, <2>1, AdviseServes DEF ServedOne
<1> QED
  BY Zenon, <1>1, <1>2, <1>5, <1>6, <1>7, <1>8, <1>9, <1>10, <1>11, <1>12, <1>13, <1>14, <1>15 DEF ShopNext

LEMMA NextKeepsShop ==
    ASSUME ShopInv, [ShopNext]_shopVars
    PROVE  /\ ShopInv'
           /\ \A d \in Client : client'[d].at \in {"answered", "shown"} /\ client'[d] # client[d] =>
                 \A i \in DOMAIN client'[d].items : onSale[client'[d].items[i].id]
<1>1. CASE ShopNext
  <2>1. CASE Altered
    <3>1. ShopInv'
      BY <2>1, ChangeKeeps DEF Altered
    <3>2. client' = client
      BY <2>1 DEF Altered, Change
    <3> QED
      BY <3>1, <3>2
  <2>2. CASE ServedOne
    <3>1. PICK c \in Client : /\ Served(c) /\ UNCHANGED <<onSale, offers, changes>>
                              /\ advice' \in [Question -> Seq(Article) \cup {Absent}]
      BY <2>2 DEF ServedOne
    <3> QED
      BY <3>1, ServedKeeps
  <2> QED
    BY <1>1, <2>1, <2>2, NextServes
<1>2. CASE UNCHANGED shopVars
  <2>1. onSale' = onSale /\ offers' = offers /\ client' = client /\ advice' = advice /\ changes' = changes
    BY <1>2 DEF shopVars
  <2>2. ShopTypeOK'
    BY <2>1 DEF ShopInv, ShopTypeOK, OffersOK
  <2>3. Requests' = Requests
    BY <2>1 DEF Requests
  <2>4. ASSUME NEW r PROVE (InTime(r)' <=> InTime(r)) /\ (UpToDate(r)' <=> UpToDate(r))
    <3>1. InTime(r)' <=> InTime(r)
      BY <2>1 DEF InTime
    <3>2. UNCHANGED <<onSale, offers>>
      BY <2>1
    <3>3. UpToDate(r)' <=> UpToDate(r)
      BY <2>1, <3>2, ShopStays DEF UpToDate
    <3> QED
      BY <3>1, <3>3
  <2>5. RequestsOK' /\ AnswersOK'
    BY <2>3, <2>4 DEF ShopInv, RequestsOK, AnswersOK
  <2> QED
    BY <2>1, <2>2, <2>5 DEF ShopInv
<1> QED
  BY <1>1, <1>2

(* What every request has found is what the shop would still give, as long *)
(* as it has not changed since the request began.                          *)
THEOREM ShopInvHolds == ShopSpec => []ShopInv
<1>1. ShopInit => ShopInv
  BY InitGivesInv
<1>2. ShopInv /\ [ShopNext]_shopVars => ShopInv'
  BY NextKeepsShop
<1> QED
  BY <1>1, <1>2, PTL DEF ShopSpec

(* Pages cut one order, facets add up, an editor's picks come first, and   *)
(* the counts of the menu are those of the listings behind it.             *)
THEOREM ListingsStayTrue == ShopSpec => []ListingsAgree
BY ShopInvHolds, InvAgrees, PTL

(* Whatever its ids come from, a list shows what is on sale when its cards *)
(* are read.                                                               *)
THEOREM ShopShowsOnSale == ShopSpec => OnlyOnSaleShown
<1>1. ShopInv /\ [ShopNext]_shopVars =>
        [\A c \in Client : client'[c].at \in {"answered", "shown"} /\ client'[c] # client[c] =>
            \A i \in DOMAIN client'[c].items : onSale[client'[c].items[i].id]]_shopVars
  BY NextKeepsShop
<1> QED
  BY <1>1, ShopInvHolds, PTL DEF ShopSpec, OnlyOnSaleShown

-----------------------------------------------------------------------------
(* Reading a saved sheet: ImportFile.                                      *)

Records == Seq(Seq(Seq(Character)))

Reader == [rows : Records, row : Seq(Seq(Character)), field : Seq(Character),
           mode : {"plain", "quoted", "doubt"}]

(* The reader after records, and cells of the next one, within a cell.     *)
At(records, cells, cell, mode) == [rows |-> records, row |-> cells, field |-> cell, mode |-> mode]

Ran(start, text) == FoldLeft(Take, start, text)

LEMMA MarksDiffer ==
    /\ Comma # Quote /\ Comma # Newline /\ Comma # Return
    /\ Quote # Newline /\ Quote # Return /\ Newline # Return
    /\ {Comma, Quote, Newline, Return} \subseteq Character
<1> DEFINE mark == <<Comma, Quote, Newline, Return>>
<1>1. \A x, y \in 1..4 : mark[x] = mark[y] => x = y
  BY MarkAssumption
<1>2. mark[1] = Comma /\ mark[2] = Quote /\ mark[3] = Newline /\ mark[4] = Return
  OBVIOUS
<1> HIDE DEF mark
<1>3. 1 \in 1..4 /\ 2 \in 1..4 /\ 3 \in 1..4 /\ 4 \in 1..4
  OBVIOUS
<1> QED
  BY <1>1, <1>2, <1>3, SheetAssumption

LEMMA TrimmedTyped == ASSUME NEW cell \in Seq(Character) PROVE Trimmed(cell) \in Seq(Character)
<1>1. CASE cell = <<>>
  BY <1>1 DEF Trimmed
<1>2. CASE cell # <<>>
  <2>1. Front(cell) \in Seq(Character)
    <3>1. Len(cell) \in Nat /\ \A i \in 1..(Len(cell) - 1) : cell[i] \in Character
      BY LenProperties
    <3> QED
      BY <3>1, SubSeqProperties DEF Front
  <2> QED
    BY <2>1 DEF Trimmed
<1> QED
  BY <1>1, <1>2

LEMMA PlainTyped ==
    ASSUME NEW s \in Reader, NEW char \in Character PROVE Plain(s, char) \in Reader
<1>1. Append(s.field, char) \in Seq(Character) /\ Append(s.row, s.field) \in Seq(Seq(Character))
  BY AppendProperties DEF Reader
<1>2. Append(s.row, Trimmed(s.field)) \in Seq(Seq(Character))
  BY TrimmedTyped, AppendProperties DEF Reader
<1>3. Append(s.rows, Append(s.row, Trimmed(s.field))) \in Records
  BY <1>2, AppendProperties DEF Reader, Records
<1>4. <<>> \in Seq(Character) /\ <<>> \in Seq(Seq(Character))
  OBVIOUS
<1>5. EndField(s) \in Reader
  BY <1>1, <1>4 DEF EndField, Reader
<1>6. EndRow(s) \in Reader
  BY <1>3, <1>4 DEF EndRow, Reader
<1>7. [s EXCEPT !.mode = "quoted"] \in Reader /\ [s EXCEPT !.field = Append(@, char)] \in Reader
  BY <1>1 DEF Reader
<1> QED
  BY <1>5, <1>6, <1>7 DEF Plain

LEMMA TakeTyped ==
    \A s \in Reader, char \in Character : Take(s, char) \in Reader
<1> SUFFICES ASSUME NEW s \in Reader, NEW char \in Character PROVE Take(s, char) \in Reader
  OBVIOUS
<1>1. s.mode \in {"plain", "quoted", "doubt"}
  BY DEF Reader
<1>2. CASE s.mode = "plain"
  BY <1>2, PlainTyped DEF Take
<1>3. CASE s.mode = "quoted"
  <2>1. [s EXCEPT !.mode = "doubt"] \in Reader /\ [s EXCEPT !.field = Append(@, char)] \in Reader
    BY AppendProperties DEF Reader
  <2> QED
    BY <1>3, <2>1 DEF Take
<1>4. CASE s.mode = "doubt"
  <2>1. [s EXCEPT !.mode = "quoted", !.field = Append(@, Quote)] \in Reader
    BY MarksDiffer, AppendProperties DEF Reader
  <2>2. [s EXCEPT !.mode = "plain"] \in Reader
    BY DEF Reader
  <2>3. Plain([s EXCEPT !.mode = "plain"], char) \in Reader
    BY <2>2, PlainTyped
  <2> QED
    BY <1>4, <2>1, <2>3 DEF Take
<1> QED
  BY <1>1, <1>2, <1>3, <1>4

ConcatBy(g, seqs) ==
    g = [s \in SUBSET DOMAIN seqs |->
            IF s = {} THEN <<>>
            ELSE LET x == Max(s) IN g[s \ {x}] \o seqs[x]]

(* The values h that the fold passes through.                              *)
ConcatPath(h, seqs, S) ==
    /\ h \in [0..Len(seqs) -> Seq(S)]
    /\ h[0] = <<>> /\ Concat(seqs) = h[Len(seqs)]
    /\ \A n \in 1..Len(seqs) : h[n] = h[n - 1] \o seqs[n]

LEMMA ConcatSteps ==
    ASSUME NEW S, NEW seqs \in Seq(Seq(S))
    PROVE  \E h : ConcatPath(h, seqs, S)
<1> DEFINE Acc == Seq(S)
           Elem == Seq(S)
           next == [x \in Acc \X Elem |-> x[1] \o x[2]]
<1>0. seqs \in Seq(Elem) /\ DOMAIN seqs = 1..Len(seqs) /\ Len(seqs) \in Nat
  BY LenProperties
<1>1. next \in [Acc \X Elem -> Acc] /\ <<>> \in Acc
  OBVIOUS
<1>2. \A a \in Acc, e \in Elem : next[<<a, e>>] = a \o e
  OBVIOUS
<1>2a. \A a \in Acc, e \in Elem : next[<<a, e>>] \in Acc
  <2> HIDE DEF Acc, Elem, next
  <2> QED
    BY <1>1
<1> HIDE DEF next
<1>3. \E g \in [SUBSET DOMAIN seqs -> Acc] : FoldsBy(g, next, <<>>, seqs)
  <2> HIDE DEF Acc, Elem
  <2> QED
    BY <1>0, <1>1, FoldExists
<1>4. ASSUME NEW g \in [SUBSET DOMAIN seqs -> Acc]
      PROVE  FoldsBy(g, next, <<>>, seqs) <=> ConcatBy(g, seqs)
  <2> DEFINE one(s) == IF s = {} THEN <<>> ELSE LET x == Max(s) IN next[<<g[s \ {x}], seqs[x]>>]
             two(s) == IF s = {} THEN <<>>
                       ELSE LET x == Max(s) IN g[s \ {x}] \o seqs[x]
  <2>1. \A s \in SUBSET DOMAIN seqs : one(s) = two(s)
    <3> SUFFICES ASSUME NEW s \in SUBSET DOMAIN seqs, s # {} PROVE one(s) = two(s)
      OBVIOUS
    <3>1. Max(s) \in s
      BY <1>0, MaxOfSubset
    <3>2. \A x \in s : g[s \ {x}] \in Acc /\ seqs[x] \in Elem
      <4> HIDE DEF Acc, Elem
      <4> QED
        BY <1>0
    <3> HIDE DEF Acc, Elem
    <3> QED
      BY <3>1, <3>2, <1>2
  <2>2. [s \in SUBSET DOMAIN seqs |-> one(s)] = [s \in SUBSET DOMAIN seqs |-> two(s)]
    <3> HIDE DEF one, two
    <3> QED
      BY <2>1
  <2> QED
    BY <2>2 DEF FoldsBy, ConcatBy
<1> DEFINE f == CHOOSE g : ConcatBy(g, seqs)
<1>5. Concat(seqs) = f[DOMAIN seqs]
  BY DEF Concat, FoldLeft, MapThenFoldSet, ConcatBy
<1>6. ConcatBy(f, seqs)
  <2>1. \E g : ConcatBy(g, seqs)
    <3> HIDE DEF Acc
    <3> QED
      BY <1>3, <1>4
  <2> QED
    BY <2>1
<1> HIDE DEF f
<1> DEFINE step(s) == IF s = {} THEN <<>>
                      ELSE LET x == Max(s) IN f[s \ {x}] \o seqs[x]
<1>7. \A s \in SUBSET DOMAIN seqs : f[s] = step(s)
  BY <1>6 DEF ConcatBy
<1>8. f[{}] = <<>>
  BY <1>7
<1>9. ASSUME NEW n \in 1..Len(seqs) PROVE f[1..n] = f[1..(n - 1)] \o seqs[n]
  <2>1. 1..n \in SUBSET DOMAIN seqs /\ 1..n # {} /\ n \in Nat /\ n # 0
    BY <1>0, PrefixWithin
  <2>2. Max(1..n) = n /\ (1..n) \ {n} = 1..(n - 1)
    BY <2>1, MaxOfPrefix
  <2>3. step(1..n) = f[1..(n - 1)] \o seqs[n]
    BY <2>1, <2>2
  <2> HIDE DEF step
  <2> QED
    BY <1>7, <2>1, <2>3
<1> DEFINE h == [n \in 0..Len(seqs) |-> f[1..n]]
           typed == {n \in Nat : n <= Len(seqs) => h[n] \in Acc}
<1>10. h[0] = <<>>
  <2>1. 1..0 = {} /\ 0 \in 0..Len(seqs)
    BY <1>0
  <2> QED
    BY <1>8, <2>1
<1>11. \A n \in 1..Len(seqs) : h[n] = h[n - 1] \o seqs[n]
  <2> SUFFICES ASSUME NEW n \in 1..Len(seqs) PROVE h[n] = h[n - 1] \o seqs[n]
    OBVIOUS
  <2>1. h[n] = f[1..n] /\ h[n - 1] = f[1..(n - 1)]
    BY <1>0
  <2> HIDE DEF h
  <2> QED
    BY <1>9, <2>1
<1> HIDE DEF h
<1>12. 0 \in typed
  <2> HIDE DEF Acc
  <2> QED
    BY <1>1, <1>10
<1>13. ASSUME NEW n \in Nat, n \in typed PROVE n + 1 \in typed
  <2> SUFFICES ASSUME n + 1 <= Len(seqs) PROVE h[n + 1] \in Acc
    OBVIOUS
  <2>1. n + 1 \in 1..Len(seqs) /\ (n + 1) - 1 = n /\ h[n] \in Acc /\ seqs[n + 1] \in Elem
    <3> HIDE DEF Acc, Elem
    <3> QED
      BY <1>0, <1>13
  <2>2. h[n + 1] = next[<<h[n], seqs[n + 1]>>]
    <3>1. h[n + 1] = h[n] \o seqs[n + 1]
      BY <2>1, <1>11
    <3> HIDE DEF Acc, Elem
    <3> QED
      BY <2>1, <3>1, <1>2
  <2> HIDE DEF Acc, Elem
  <2> QED
    BY <2>1, <2>2, <1>2a
<1>14. Nat \subseteq typed
  <2> HIDE DEF typed
  <2> QED
    BY <1>12, <1>13, NatSetInduction
<1>15. h \in [0..Len(seqs) -> Acc]
  <2>1. \A n \in 0..Len(seqs) : h[n] \in Acc
    BY <1>0, <1>14
  <2> QED
    BY <2>1 DEF h
<1>16. Concat(seqs) = h[Len(seqs)]
  BY <1>0, <1>5 DEF h
<1> QED
  BY <1>10, <1>11, <1>15, <1>16 DEF ConcatPath

ReadBy(g, start, text) ==
    g = [s \in SUBSET DOMAIN text |->
            IF s = {} THEN start
            ELSE LET x == Max(s) IN Take(g[s \ {x}], text[x])]

(* The values h that the fold passes through.                              *)
ReadPath(h, start, text) ==
    /\ h \in [0..Len(text) -> Reader]
    /\ h[0] = start /\ Ran(start, text) = h[Len(text)]
    /\ \A n \in 1..Len(text) : h[n] = Take(h[n - 1], text[n])

LEMMA ReadSteps ==
    ASSUME NEW start \in Reader, NEW text \in Seq(Character)
    PROVE  \E h : ReadPath(h, start, text)
<1> DEFINE Acc == Reader
           Elem == Character
           next == [x \in Acc \X Elem |-> Take(x[1], x[2])]
<1>0. text \in Seq(Elem) /\ DOMAIN text = 1..Len(text) /\ Len(text) \in Nat
  BY LenProperties
<1>1. next \in [Acc \X Elem -> Acc] /\ start \in Acc
  BY TakeTyped
<1>2. \A a \in Acc, e \in Elem : next[<<a, e>>] = Take(a, e)
  OBVIOUS
<1>2a. \A a \in Acc, e \in Elem : next[<<a, e>>] \in Acc
  <2> HIDE DEF Acc, Elem, next
  <2> QED
    BY <1>1
<1> HIDE DEF next
<1>3. \E g \in [SUBSET DOMAIN text -> Acc] : FoldsBy(g, next, start, text)
  <2> HIDE DEF Acc, Elem
  <2> QED
    BY <1>0, <1>1, FoldExists
<1>4. ASSUME NEW g \in [SUBSET DOMAIN text -> Acc]
      PROVE  FoldsBy(g, next, start, text) <=> ReadBy(g, start, text)
  <2> DEFINE one(s) == IF s = {} THEN start ELSE LET x == Max(s) IN next[<<g[s \ {x}], text[x]>>]
             two(s) == IF s = {} THEN start
                       ELSE LET x == Max(s) IN Take(g[s \ {x}], text[x])
  <2>1. \A s \in SUBSET DOMAIN text : one(s) = two(s)
    <3> SUFFICES ASSUME NEW s \in SUBSET DOMAIN text, s # {} PROVE one(s) = two(s)
      OBVIOUS
    <3>1. Max(s) \in s
      BY <1>0, MaxOfSubset
    <3>2. \A x \in s : g[s \ {x}] \in Acc /\ text[x] \in Elem
      <4> HIDE DEF Acc, Elem
      <4> QED
        BY <1>0
    <3> HIDE DEF Acc, Elem
    <3> QED
      BY <3>1, <3>2, <1>2
  <2>2. [s \in SUBSET DOMAIN text |-> one(s)] = [s \in SUBSET DOMAIN text |-> two(s)]
    <3> HIDE DEF one, two
    <3> QED
      BY <2>1
  <2> QED
    BY <2>2 DEF FoldsBy, ReadBy
<1> DEFINE f == CHOOSE g : ReadBy(g, start, text)
<1>5. Ran(start, text) = f[DOMAIN text]
  BY DEF Ran, FoldLeft, MapThenFoldSet, ReadBy
<1>6. ReadBy(f, start, text)
  <2>1. \E g : ReadBy(g, start, text)
    <3> HIDE DEF Acc
    <3> QED
      BY <1>3, <1>4
  <2> QED
    BY <2>1
<1> HIDE DEF f
<1> DEFINE step(s) == IF s = {} THEN start
                      ELSE LET x == Max(s) IN Take(f[s \ {x}], text[x])
<1>7. \A s \in SUBSET DOMAIN text : f[s] = step(s)
  BY <1>6 DEF ReadBy
<1>8. f[{}] = start
  BY <1>7
<1>9. ASSUME NEW n \in 1..Len(text) PROVE f[1..n] = Take(f[1..(n - 1)], text[n])
  <2>1. 1..n \in SUBSET DOMAIN text /\ 1..n # {} /\ n \in Nat /\ n # 0
    BY <1>0, PrefixWithin
  <2>2. Max(1..n) = n /\ (1..n) \ {n} = 1..(n - 1)
    BY <2>1, MaxOfPrefix
  <2>3. step(1..n) = Take(f[1..(n - 1)], text[n])
    BY <2>1, <2>2
  <2> HIDE DEF step
  <2> QED
    BY <1>7, <2>1, <2>3
<1> DEFINE h == [n \in 0..Len(text) |-> f[1..n]]
           typed == {n \in Nat : n <= Len(text) => h[n] \in Acc}
<1>10. h[0] = start
  <2>1. 1..0 = {} /\ 0 \in 0..Len(text)
    BY <1>0
  <2> QED
    BY <1>8, <2>1
<1>11. \A n \in 1..Len(text) : h[n] = Take(h[n - 1], text[n])
  <2> SUFFICES ASSUME NEW n \in 1..Len(text) PROVE h[n] = Take(h[n - 1], text[n])
    OBVIOUS
  <2>1. h[n] = f[1..n] /\ h[n - 1] = f[1..(n - 1)]
    BY <1>0
  <2> HIDE DEF h
  <2> QED
    BY <1>9, <2>1
<1> HIDE DEF h
<1>12. 0 \in typed
  <2> HIDE DEF Acc
  <2> QED
    BY <1>1, <1>10
<1>13. ASSUME NEW n \in Nat, n \in typed PROVE n + 1 \in typed
  <2> SUFFICES ASSUME n + 1 <= Len(text) PROVE h[n + 1] \in Acc
    OBVIOUS
  <2>1. n + 1 \in 1..Len(text) /\ (n + 1) - 1 = n /\ h[n] \in Acc /\ text[n + 1] \in Elem
    <3> HIDE DEF Acc, Elem
    <3> QED
      BY <1>0, <1>13
  <2>2. h[n + 1] = next[<<h[n], text[n + 1]>>]
    <3>1. h[n + 1] = Take(h[n], text[n + 1])
      BY <2>1, <1>11
    <3> HIDE DEF Acc, Elem
    <3> QED
      BY <2>1, <3>1, <1>2
  <2> HIDE DEF Acc, Elem
  <2> QED
    BY <2>1, <2>2, <1>2a
<1>14. Nat \subseteq typed
  <2> HIDE DEF typed
  <2> QED
    BY <1>12, <1>13, NatSetInduction
<1>15. h \in [0..Len(text) -> Acc]
  <2>1. \A n \in 0..Len(text) : h[n] \in Acc
    BY <1>0, <1>14
  <2> QED
    BY <2>1 DEF h
<1>16. Ran(start, text) = h[Len(text)]
  BY <1>0, <1>5 DEF h
<1> QED
  BY <1>10, <1>11, <1>15, <1>16 DEF ReadPath

LEMMA RanTyped ==
    ASSUME NEW start \in Reader, NEW text \in Seq(Character) PROVE Ran(start, text) \in Reader
<1>1. PICK h : ReadPath(h, start, text)
  BY ReadSteps
<1>2. Len(text) \in 0..Len(text)
  BY LenProperties
<1> QED
  BY <1>1, <1>2 DEF ReadPath

LEMMA RanFew ==
    ASSUME NEW start \in Reader
    PROVE  /\ Ran(start, <<>>) = start
           /\ \A char \in Character : Ran(start, <<char>>) = Take(start, char)
<1>1. Ran(start, <<>>) = start
  <2>1. <<>> \in Seq(Character) /\ Len(<<>>) = 0
    OBVIOUS
  <2>2. PICK h : ReadPath(h, start, <<>>)
    BY <2>1, ReadSteps
  <2> QED
    BY <2>1, <2>2 DEF ReadPath
<1>2. ASSUME NEW char \in Character PROVE Ran(start, <<char>>) = Take(start, char)
  <2>1. <<char>> \in Seq(Character) /\ Len(<<char>>) = 1 /\ <<char>>[1] = char /\ 1 \in 1..1 /\ 1 - 1 = 0
    OBVIOUS
  <2>2. PICK h : ReadPath(h, start, <<char>>)
    BY <2>1, ReadSteps
  <2>3. h[0] = start /\ Ran(start, <<char>>) = h[1] /\ h[1] = Take(h[0], char)
    BY <2>1, <2>2 DEF ReadPath
  <2> QED
    BY <2>3
<1> QED
  BY <1>1, <1>2

LEMMA RanConcat ==
    ASSUME NEW start \in Reader, NEW a \in Seq(Character), NEW b \in Seq(Character)
    PROVE  Ran(start, a \o b) = Ran(Ran(start, a), b)
<1> DEFINE all == a \o b
<1>0. /\ all \in Seq(Character) /\ Len(all) = Len(a) + Len(b) /\ Len(a) \in Nat /\ Len(b) \in Nat
      /\ \A i \in 1..(Len(a) + Len(b)) : all[i] = IF i <= Len(a) THEN a[i] ELSE b[i - Len(a)]
  BY ConcatProperties, LenProperties
<1> HIDE DEF all
<1>1. PICK h : ReadPath(h, start, all)
  BY <1>0, ReadSteps
<1>2. PICK k : ReadPath(k, start, a)
  BY ReadSteps
<1>3. PICK m : ReadPath(m, Ran(start, a), b)
  BY RanTyped, ReadSteps
<1>4. /\ h[0] = start /\ Ran(start, all) = h[Len(all)]
      /\ \A n \in 1..(Len(a) + Len(b)) : h[n] = Take(h[n - 1], all[n])
  BY <1>0, <1>1 DEF ReadPath
<1>5. /\ k[0] = start /\ Ran(start, a) = k[Len(a)]
      /\ \A n \in 1..Len(a) : k[n] = Take(k[n - 1], a[n])
  BY <1>2 DEF ReadPath
<1>6. /\ m[0] = Ran(start, a) /\ Ran(Ran(start, a), b) = m[Len(b)]
      /\ \A n \in 1..Len(b) : m[n] = Take(m[n - 1], b[n])
  BY <1>3 DEF ReadPath
<1> DEFINE before == {n \in Nat : n <= Len(a) => h[n] = k[n]}
           after == {n \in Nat : n <= Len(b) => h[Len(a) + n] = m[n]}
<1>7. 0 \in before
  BY <1>4, <1>5
<1>8. ASSUME NEW n \in Nat, n \in before PROVE n + 1 \in before
  <2> SUFFICES ASSUME n + 1 <= Len(a) PROVE h[n + 1] = k[n + 1]
    OBVIOUS
  <2>1. n + 1 \in 1..Len(a) /\ n + 1 \in 1..(Len(a) + Len(b)) /\ (n + 1) - 1 = n /\ h[n] = k[n]
    BY <1>0, <1>8
  <2>2. all[n + 1] = a[n + 1]
    BY <1>0, <2>1
  <2> QED
    BY <1>4, <1>5, <2>1, <2>2
<1>9. Nat \subseteq before
  <2> HIDE DEF before
  <2> QED
    BY <1>7, <1>8, NatSetInduction
<1>10. h[Len(a)] = Ran(start, a)
  BY <1>0, <1>5, <1>9
<1>11. 0 \in after
  BY <1>0, <1>6, <1>10
<1>12. ASSUME NEW n \in Nat, n \in after PROVE n + 1 \in after
  <2> SUFFICES ASSUME n + 1 <= Len(b) PROVE h[Len(a) + (n + 1)] = m[n + 1]
    OBVIOUS
  <2>1. /\ n + 1 \in 1..Len(b) /\ Len(a) + (n + 1) \in 1..(Len(a) + Len(b)) /\ (n + 1) - 1 = n
        /\ (Len(a) + (n + 1)) - 1 = Len(a) + n /\ (Len(a) + (n + 1)) - Len(a) = n + 1
        /\ ~ (Len(a) + (n + 1) <= Len(a)) /\ h[Len(a) + n] = m[n]
    BY <1>0, <1>12
  <2>2. all[Len(a) + (n + 1)] = b[n + 1]
    BY <1>0, <2>1
  <2>3. h[Len(a) + (n + 1)] = Take(h[Len(a) + n], b[n + 1])
    BY <1>4, <2>1, <2>2
  <2>4. m[n + 1] = Take(m[n], b[n + 1])
    BY <1>6, <2>1
  <2> QED
    BY <2>1, <2>3, <2>4
<1>13. Nat \subseteq after
  <2> HIDE DEF after
  <2> QED
    BY <1>11, <1>12, NatSetInduction
<1>14. h[Len(a) + Len(b)] = m[Len(b)]
  BY <1>0, <1>13
<1> QED
  BY <1>0, <1>4, <1>6, <1>14 DEF all

(* A text read char by char.                                               *)
LEMMA RanOneMore ==
    ASSUME NEW start \in Reader, NEW a \in Seq(Character), NEW char \in Character
    PROVE  /\ Ran(start, a \o <<char>>) = Take(Ran(start, a), char)
           /\ Ran(start, <<char>> \o a) = Ran(Take(start, char), a)
<1>1. <<char>> \in Seq(Character)
  OBVIOUS
<1>2. Ran(start, a \o <<char>>) = Take(Ran(start, a), char)
  <2>1. Ran(start, a \o <<char>>) = Ran(Ran(start, a), <<char>>)
    BY <1>1, RanConcat
  <2> QED
    BY <2>1, RanFew, RanTyped
<1>3. Ran(start, <<char>> \o a) = Ran(Take(start, char), a)
  <2>1. Ran(start, <<char>> \o a) = Ran(Ran(start, <<char>>), a)
    BY <1>1, RanConcat
  <2> QED
    BY <2>1, RanFew
<1> QED
  BY <1>2, <1>3

LEMMA Beginnings ==
    ASSUME NEW S, NEW seq \in Seq(S)
    PROVE  /\ SubSeq(seq, 1, 0) = <<>> /\ SubSeq(seq, 1, Len(seq)) = seq
           /\ \A n \in 1..Len(seq) : /\ SubSeq(seq, 1, n) \in Seq(S)
                                     /\ SubSeq(seq, 1, n) = Append(SubSeq(seq, 1, n - 1), seq[n])
<1>0. Len(seq) \in Nat /\ \A i \in 1..Len(seq) : seq[i] \in S
  BY LenProperties
<1>1. SubSeq(seq, 1, 0) = <<>> /\ SubSeq(seq, 1, Len(seq)) = seq
  BY SubSeqEmpty, SubSeqFull
<1>2. ASSUME NEW n \in 1..Len(seq)
      PROVE  /\ SubSeq(seq, 1, n) \in Seq(S)
             /\ SubSeq(seq, 1, n) = Append(SubSeq(seq, 1, n - 1), seq[n])
  <2>1. 1 \in 1..Len(seq) /\ n \in 1..Len(seq) /\ n - 1 \in Int
    BY <1>0
  <2>2. SubSeq(seq, 1, n) = SubSeq(seq, 1, n - 1) \o <<seq[n]>>
    BY <2>1, SubSeqRecursiveSecond
  <2>3. SubSeq(seq, 1, n) \in Seq(S) /\ SubSeq(seq, 1, n - 1) \in Seq(S)
    BY <1>0, <2>1, SubSeqProperties
  <2>4. Append(SubSeq(seq, 1, n - 1), seq[n]) = SubSeq(seq, 1, n - 1) \o <<seq[n]>>
    BY <1>0, <2>3, AppendIsConcat
  <2> QED
    BY <2>2, <2>3, <2>4
<1> QED
  BY <1>1, <1>2

LEMMA AtTyped ==
    ASSUME NEW records \in Records, NEW cells \in Seq(Seq(Character)), NEW cell \in Seq(Character),
           NEW mode \in {"plain", "quoted", "doubt"}
    PROVE  At(records, cells, cell, mode) \in Reader
BY DEF At, Reader

LEMMA TakenInside ==
    ASSUME NEW records, NEW cells, NEW cell, NEW char
    PROVE  /\ Take(At(records, cells, <<>>, "plain"), Quote) = At(records, cells, <<>>, "quoted")
           /\ char \notin {Comma, Quote, Newline} =>
                Take(At(records, cells, cell, "plain"), char)
                = At(records, cells, Append(cell, char), "plain")
           /\ char # Quote => Take(At(records, cells, cell, "quoted"), char)
                              = At(records, cells, Append(cell, char), "quoted")
           /\ Take(At(records, cells, cell, "quoted"), Quote) = At(records, cells, cell, "doubt")
           /\ Take(At(records, cells, cell, "doubt"), Quote)
              = At(records, cells, Append(cell, Quote), "quoted")
<1>1. Take(At(records, cells, <<>>, "plain"), Quote) = At(records, cells, <<>>, "quoted")
  BY MarksDiffer DEF Take, Plain, At
<1>2. char \notin {Comma, Quote, Newline} =>
        Take(At(records, cells, cell, "plain"), char) = At(records, cells, Append(cell, char), "plain")
  BY DEF Take, Plain, At
<1>3. char # Quote => Take(At(records, cells, cell, "quoted"), char)
                      = At(records, cells, Append(cell, char), "quoted")
  BY DEF Take, At
<1>4. Take(At(records, cells, cell, "quoted"), Quote) = At(records, cells, cell, "doubt")
  BY DEF Take, At
<1>5. Take(At(records, cells, cell, "doubt"), Quote) = At(records, cells, Append(cell, Quote), "quoted")
  BY DEF Take, At
<1> QED
  BY <1>1, <1>2, <1>3, <1>4, <1>5

LEMMA TakenBetween ==
    ASSUME NEW records, NEW cells, NEW cell, NEW mode \in {"plain", "doubt"}
    PROVE  /\ Take(At(records, cells, cell, mode), Comma)
              = At(records, Append(cells, cell), <<>>, "plain")
           /\ Take(At(records, cells, cell, mode), Newline)
              = At(Append(records, Append(cells, Trimmed(cell))), <<>>, <<>>, "plain")
<1>1. Take(At(records, cells, cell, mode), Comma) = Plain(At(records, cells, cell, "plain"), Comma)
  BY MarksDiffer DEF Take, At
<1>2. Take(At(records, cells, cell, mode), Newline) = Plain(At(records, cells, cell, "plain"), Newline)
  BY MarksDiffer DEF Take, At
<1>3. Plain(At(records, cells, cell, "plain"), Comma) = EndField(At(records, cells, cell, "plain"))
  BY MarksDiffer DEF Plain
<1>4. Plain(At(records, cells, cell, "plain"), Newline) = EndRow(At(records, cells, cell, "plain"))
  BY MarksDiffer DEF Plain
<1> QED
  BY <1>1, <1>2, <1>3, <1>4 DEF EndField, EndRow, At

(* A cell without a mark, saved as it is.                                  *)
LEMMA BareCellRead ==
    ASSUME NEW records \in Records, NEW cells \in Seq(Seq(Character)), NEW cell \in Seq(Character),
           \A i \in DOMAIN cell : cell[i] \notin {Comma, Quote, Newline}
    PROVE  Ran(At(records, cells, <<>>, "plain"), cell) = At(records, cells, cell, "plain")
<1> DEFINE start == At(records, cells, <<>>, "plain")
<1>0. start \in Reader /\ Len(cell) \in Nat /\ DOMAIN cell = 1..Len(cell)
  <2>1. <<>> \in Seq(Character)
    OBVIOUS
  <2> QED
    BY <2>1, AtTyped, LenProperties
<1>1. PICK h : ReadPath(h, start, cell)
  BY <1>0, ReadSteps
<1>2. /\ h[0] = start /\ Ran(start, cell) = h[Len(cell)]
      /\ \A n \in 1..Len(cell) : h[n] = Take(h[n - 1], cell[n])
  BY <1>1 DEF ReadPath
<1> DEFINE fine == {n \in Nat : n <= Len(cell) =>
                        h[n] = At(records, cells, SubSeq(cell, 1, n), "plain")}
<1>3. 0 \in fine
  BY <1>2, Beginnings
<1>4. ASSUME NEW n \in Nat, n \in fine PROVE n + 1 \in fine
  <2> SUFFICES ASSUME n + 1 <= Len(cell)
               PROVE  h[n + 1] = At(records, cells, SubSeq(cell, 1, n + 1), "plain")
    OBVIOUS
  <2>1. n + 1 \in 1..Len(cell) /\ (n + 1) - 1 = n
        /\ h[n] = At(records, cells, SubSeq(cell, 1, n), "plain")
    BY <1>0, <1>4
  <2>2. h[n + 1] = Take(At(records, cells, SubSeq(cell, 1, n), "plain"), cell[n + 1])
    BY <1>2, <2>1
  <2>3. cell[n + 1] \notin {Comma, Quote, Newline}
    BY <1>0, <2>1
  <2>4. SubSeq(cell, 1, n + 1) = Append(SubSeq(cell, 1, n), cell[n + 1])
    BY <2>1, Beginnings
  <2>5. Take(At(records, cells, SubSeq(cell, 1, n), "plain"), cell[n + 1])
        = At(records, cells, Append(SubSeq(cell, 1, n), cell[n + 1]), "plain")
    BY <2>3, TakenInside
  <2> QED
    BY <2>2, <2>4, <2>5
<1>5. Nat \subseteq fine
  <2> HIDE DEF fine
  <2> QED
    BY <1>3, <1>4, NatSetInduction
<1>6. h[Len(cell)] = At(records, cells, SubSeq(cell, 1, Len(cell)), "plain")
  BY <1>0, <1>5
<1> QED
  BY <1>2, <1>6, Beginnings

LEMMA ConcatTyped ==
    ASSUME NEW S, NEW seqs \in Seq(Seq(S)) PROVE Concat(seqs) \in Seq(S)
<1>1. PICK h : ConcatPath(h, seqs, S)
  BY ConcatSteps
<1>2. Len(seqs) \in 0..Len(seqs)
  BY LenProperties
<1> QED
  BY <1>1, <1>2 DEF ConcatPath

Pieces(cell) == [i \in DOMAIN cell |-> IF cell[i] = Quote THEN <<Quote, Quote>> ELSE <<cell[i]>>]

LEMMA PiecesTyped ==
    ASSUME NEW cell \in Seq(Character)
    PROVE  /\ Pieces(cell) \in Seq(Seq(Character)) /\ Len(Pieces(cell)) = Len(cell)
           /\ \A i \in 1..Len(cell) :
                Pieces(cell)[i] = IF cell[i] = Quote THEN <<Quote, Quote>> ELSE <<cell[i]>>
<1>0. Len(cell) \in Nat /\ DOMAIN cell = 1..Len(cell) /\ \A i \in 1..Len(cell) : cell[i] \in Character
  BY LenProperties
<1>1. \A i \in 1..Len(cell) :
        (IF cell[i] = Quote THEN <<Quote, Quote>> ELSE <<cell[i]>>) \in Seq(Character)
  <2>1. <<Quote, Quote>> \in Seq(Character)
    BY MarksDiffer
  <2>2. \A char \in Character : <<char>> \in Seq(Character)
    OBVIOUS
  <2> QED
    BY <1>0, <2>1, <2>2
<1>2. Pieces(cell) \in [1..Len(cell) -> Seq(Character)]
  BY <1>0, <1>1 DEF Pieces
<1>3. Pieces(cell) \in Seq(Seq(Character)) /\ Len(Pieces(cell)) = Len(cell)
  BY <1>0, <1>2
<1> QED
  BY <1>0, <1>3 DEF Pieces

(* A cell with its quotes doubled, read inside quotes.                     *)
LEMMA DoubledRead ==
    ASSUME NEW records \in Records, NEW cells \in Seq(Seq(Character)), NEW cell \in Seq(Character)
    PROVE  /\ Doubled(cell) \in Seq(Character)
           /\ Ran(At(records, cells, <<>>, "quoted"), Doubled(cell)) = At(records, cells, cell, "quoted")
<1> DEFINE start == At(records, cells, <<>>, "quoted")
<1>0. start \in Reader /\ Len(cell) \in Nat /\ DOMAIN cell = 1..Len(cell)
      /\ \A i \in 1..Len(cell) : cell[i] \in Character
  <2>1. <<>> \in Seq(Character)
    OBVIOUS
  <2> QED
    BY <2>1, AtTyped, LenProperties
<1>1. Doubled(cell) = Concat(Pieces(cell))
  BY DEF Doubled, Pieces
<1>2. PICK h : ConcatPath(h, Pieces(cell), Character)
  BY PiecesTyped, ConcatSteps
<1>3. /\ h[0] = <<>> /\ Doubled(cell) = h[Len(cell)]
      /\ \A n \in 0..Len(cell) : h[n] \in Seq(Character)
      /\ \A n \in 1..Len(cell) : h[n] = h[n - 1] \o Pieces(cell)[n]
  BY <1>1, <1>2, PiecesTyped DEF ConcatPath
<1> DEFINE fine == {n \in Nat : n <= Len(cell) =>
                        Ran(start, h[n]) = At(records, cells, SubSeq(cell, 1, n), "quoted")}
<1>4. 0 \in fine
  BY <1>0, <1>3, RanFew, Beginnings
<1>5. ASSUME NEW n \in Nat, n \in fine PROVE n + 1 \in fine
  <2> SUFFICES ASSUME n + 1 <= Len(cell)
               PROVE  Ran(start, h[n + 1]) = At(records, cells, SubSeq(cell, 1, n + 1), "quoted")
    OBVIOUS
  <2> DEFINE now == At(records, cells, SubSeq(cell, 1, n), "quoted")
             char == cell[n + 1]
  <2>1. n + 1 \in 1..Len(cell) /\ (n + 1) - 1 = n /\ n \in 0..Len(cell)
        /\ Ran(start, h[n]) = now
    BY <1>0, <1>5
  <2>2. h[n + 1] = h[n] \o Pieces(cell)[n + 1] /\ h[n] \in Seq(Character)
    BY <1>3, <2>1
  <2>3. SubSeq(cell, 1, n + 1) = Append(SubSeq(cell, 1, n), char)
    BY <2>1, Beginnings
  <2>4. Pieces(cell)[n + 1] \in Seq(Character) /\ char \in Character /\ now \in Reader
    <3>1. Pieces(cell)[n + 1] \in Seq(Character)
      BY <2>1, PiecesTyped, LenProperties
    <3> HIDE DEF now
    <3> QED
      BY <1>0, <2>1, <2>2, <3>1, RanTyped
  <2>5. Ran(start, h[n + 1]) = Ran(now, Pieces(cell)[n + 1])
    <3>1. Ran(start, h[n] \o Pieces(cell)[n + 1]) = Ran(Ran(start, h[n]), Pieces(cell)[n + 1])
      BY <1>0, <2>2, <2>4, RanConcat
    <3> QED
      BY <2>1, <2>2, <3>1
  <2>6. CASE char = Quote
    <3>1. Pieces(cell)[n + 1] = <<Quote, Quote>>
      BY <2>1, <2>6, PiecesTyped
    <3>2. <<Quote, Quote>> = <<Quote>> \o <<Quote>> /\ <<Quote>> \in Seq(Character)
      BY MarksDiffer
    <3>3. Ran(now, <<Quote>> \o <<Quote>>) = Ran(Take(now, Quote), <<Quote>>)
      BY <2>4, <3>2, MarksDiffer, RanOneMore
    <3>4. Take(now, Quote) \in Reader
      BY <2>4, MarksDiffer, TakeTyped
    <3>5. Ran(Take(now, Quote), <<Quote>>) = Take(Take(now, Quote), Quote)
      BY <3>4, MarksDiffer, RanFew
    <3>6. Take(Take(now, Quote), Quote)
          = At(records, cells, Append(SubSeq(cell, 1, n), Quote), "quoted")
      BY TakenInside
    <3> HIDE DEF now, char, start
    <3> QED
      BY <2>3, <2>5, <2>6, <3>1, <3>2, <3>3, <3>5, <3>6
  <2>7. CASE char # Quote
    <3>1. Pieces(cell)[n + 1] = <<char>>
      BY <2>1, <2>7, PiecesTyped
    <3>2. Ran(now, <<char>>) = Take(now, char)
      BY <2>4, RanFew
    <3>3. Take(now, char) = At(records, cells, Append(SubSeq(cell, 1, n), char), "quoted")
      BY <2>7, TakenInside
    <3> HIDE DEF now, char, start
    <3> QED
      BY <2>3, <2>5, <3>1, <3>2, <3>3
  <2> QED
    BY <2>6, <2>7
<1>6. Nat \subseteq fine
  <2> HIDE DEF fine
  <2> QED
    BY <1>4, <1>5, NatSetInduction
<1>7. Ran(start, h[Len(cell)]) = At(records, cells, SubSeq(cell, 1, Len(cell)), "quoted")
  BY <1>0, <1>6
<1>8. h[Len(cell)] \in Seq(Character)
  BY <1>0, <1>3
<1> QED
  BY <1>3, <1>7, <1>8, Beginnings

(* A cell reads back as it was saved, and still takes a comma, a line end  *)
(* or the end of the text.                                                 *)
LEMMA CellRead ==
    ASSUME NEW records \in Records, NEW cells \in Seq(Seq(Character)), NEW cell \in Seq(Character)
    PROVE  /\ Saved(cell) \in Seq(Character)
           /\ \E mode \in {"plain", "doubt"} :
                Ran(At(records, cells, <<>>, "plain"), Saved(cell)) = At(records, cells, cell, mode)
<1>1. CASE \E i \in DOMAIN cell : cell[i] \in {Comma, Quote, Newline, Return}
  <2> DEFINE start == At(records, cells, <<>>, "plain")
             inside == At(records, cells, <<>>, "quoted")
  <2>1. Saved(cell) = <<Quote>> \o Doubled(cell) \o <<Quote>>
    BY <1>1 DEF Saved
  <2>2. Doubled(cell) \in Seq(Character) /\ <<Quote>> \in Seq(Character)
        /\ Ran(inside, Doubled(cell)) = At(records, cells, cell, "quoted")
    BY DoubledRead, MarksDiffer
  <2>3. start \in Reader /\ inside \in Reader
    <3>1. <<>> \in Seq(Character)
      OBVIOUS
    <3> QED
      BY <3>1, AtTyped
  <2>4. Take(start, Quote) = inside
    BY TakenInside
  <2>5. <<Quote>> \o Doubled(cell) \in Seq(Character)
        /\ <<Quote>> \o Doubled(cell) \o <<Quote>> \in Seq(Character)
    BY <2>2, ConcatProperties
  <2> HIDE DEF start, inside
  <2>6. Ran(start, <<Quote>> \o Doubled(cell)) = At(records, cells, cell, "quoted")
    BY <2>2, <2>3, <2>4, MarksDiffer, RanOneMore
  <2>7. Ran(start, (<<Quote>> \o Doubled(cell)) \o <<Quote>>) = Take(At(records, cells, cell, "quoted"), Quote)
    <3> DEFINE text == <<Quote>> \o Doubled(cell)
    <3>1. text \in Seq(Character) /\ Quote \in Character
      BY <2>5, MarksDiffer
    <3> HIDE DEF text
    <3>2. Ran(start, text \o <<Quote>>) = Take(Ran(start, text), Quote)
      BY <2>3, <3>1, RanOneMore
    <3> QED
      BY <2>6, <3>2 DEF text
  <2>8. Ran(start, Saved(cell)) = At(records, cells, cell, "doubt")
    BY <2>1, <2>7, TakenInside
  <2> QED
    BY <2>1, <2>5, <2>8 DEF start
<1>2. CASE ~ \E i \in DOMAIN cell : cell[i] \in {Comma, Quote, Newline, Return}
  BY <1>2, BareCellRead DEF Saved
<1> QED
  BY <1>1, <1>2

(* What is joined is read text by text, the mark before each but the first.*)
JoinedPath(k, start, texts, mark) ==
    /\ Ran(start, Joined(texts, mark)) = k[Len(texts)]
    /\ \A n \in 1..Len(texts) :
         k[n] = Ran(IF n = 1 THEN start ELSE Take(k[n - 1], mark), texts[n])

LEMMA JoinedRead ==
    ASSUME NEW start \in Reader, NEW texts \in Seq(Seq(Character)), NEW mark \in Character
    PROVE  /\ Joined(texts, mark) \in Seq(Character)
           /\ Len(texts) = 0 => Joined(texts, mark) = <<>>
           /\ \E k : JoinedPath(k, start, texts, mark)
<1> DEFINE seqs == [i \in DOMAIN texts |-> IF i = 1 THEN texts[i] ELSE <<mark>> \o texts[i]]
<1>0. Len(texts) \in Nat /\ DOMAIN texts = 1..Len(texts)
      /\ \A i \in 1..Len(texts) : texts[i] \in Seq(Character)
  BY LenProperties
<1>1. \A i \in 1..Len(texts) : <<mark>> \o texts[i] \in Seq(Character)
  <2>1. <<mark>> \in Seq(Character)
    OBVIOUS
  <2> QED
    BY <1>0, <2>1, ConcatProperties
<1>2. seqs \in Seq(Seq(Character)) /\ Len(seqs) = Len(texts)
  <2>1. seqs \in [1..Len(texts) -> Seq(Character)]
    BY <1>0, <1>1
  <2> QED
    BY <1>0, <2>1
<1>3. \A n \in 1..Len(texts) : seqs[n] = IF n = 1 THEN texts[n] ELSE <<mark>> \o texts[n]
  BY <1>0
<1>4. Joined(texts, mark) = Concat(seqs)
  BY DEF Joined
<1> HIDE DEF seqs
<1>5. PICK h : ConcatPath(h, seqs, Character)
  BY <1>2, ConcatSteps
<1>6. /\ h[0] = <<>> /\ Joined(texts, mark) = h[Len(texts)]
      /\ \A n \in 0..Len(texts) : h[n] \in Seq(Character)
      /\ \A n \in 1..Len(texts) : h[n] = h[n - 1] \o seqs[n]
  BY <1>2, <1>4, <1>5 DEF ConcatPath
<1> DEFINE k == [n \in 0..Len(texts) |-> Ran(start, h[n])]
<1>7. Ran(start, Joined(texts, mark)) = k[Len(texts)]
  BY <1>0, <1>6
<1>8. ASSUME NEW n \in 1..Len(texts)
      PROVE  k[n] = Ran(IF n = 1 THEN start ELSE Take(k[n - 1], mark), texts[n])
  <2>1. n \in 0..Len(texts) /\ n - 1 \in 0..Len(texts) /\ n \in Nat
    BY <1>0
  <2>2. k[n] = Ran(start, h[n]) /\ k[n - 1] = Ran(start, h[n - 1])
    BY <2>1
  <2>3. h[n] = h[n - 1] \o seqs[n] /\ h[n - 1] \in Seq(Character) /\ texts[n] \in Seq(Character)
    BY <1>0, <1>6, <2>1
  <2>4. Ran(start, h[n - 1]) \in Reader
    BY <2>3, RanTyped
  <2>5. CASE n = 1
    <3>1. h[n - 1] = <<>> /\ seqs[n] = texts[n]
      <4>1. n - 1 = 0
        BY <2>5
      <4>2. h[n - 1] = <<>>
        BY <1>6, <4>1
      <4>3. seqs[n] = texts[n]
        BY <1>3, <2>5
      <4> QED
        BY <4>2, <4>3
    <3>2. h[n] = texts[n]
      BY <2>3, <3>1, ConcatEmptySeq
    <3> QED
      BY <2>2, <2>5, <3>2
  <2>6. CASE n # 1
    <3>1. seqs[n] = <<mark>> \o texts[n] /\ <<mark>> \o texts[n] \in Seq(Character)
      BY <1>1, <1>3, <2>6
    <3>2. Ran(start, h[n]) = Ran(Ran(start, h[n - 1]), <<mark>> \o texts[n])
      <4> DEFINE more == <<mark>> \o texts[n]
      <4>1. more \in Seq(Character) /\ h[n] = h[n - 1] \o more
        BY <2>3, <3>1
      <4> HIDE DEF more, k
      <4>2. Ran(start, h[n - 1] \o more) = Ran(Ran(start, h[n - 1]), more)
        BY <2>3, <4>1, RanConcat
      <4> QED
        BY <4>1, <4>2 DEF more
    <3>3. Ran(Ran(start, h[n - 1]), <<mark>> \o texts[n]) = Ran(Take(Ran(start, h[n - 1]), mark), texts[n])
      BY <2>3, <2>4, RanOneMore
    <3> HIDE DEF k
    <3> QED
      BY <2>2, <2>6, <3>2, <3>3
  <2> QED
    BY <2>5, <2>6
<1> HIDE DEF k
<1>9. Joined(texts, mark) \in Seq(Character)
  BY <1>2, <1>4, ConcatTyped
<1>10. Len(texts) = 0 => Joined(texts, mark) = <<>>
  BY <1>6
<1> QED
  BY <1>7, <1>8, <1>9, <1>10 DEF JoinedPath

LEMMA FrontAndLast ==
    ASSUME NEW S, NEW seq \in Seq(S) \ {<<>>}
    PROVE  /\ Front(seq) \in Seq(S) /\ Last(seq) \in S /\ Append(Front(seq), Last(seq)) = seq
           /\ Len(seq) \in Nat \ {0} /\ Len(Front(seq)) = Len(seq) - 1
           /\ \A i \in 1..(Len(seq) - 1) : Front(seq)[i] = seq[i]
<1>1. Len(seq) \in Nat \ {0} /\ Len(seq) \in 1..Len(seq) /\ \A i \in 1..Len(seq) : seq[i] \in S
  BY EmptySeq, LenProperties
<1>2. \A i \in 1..(Len(seq) - 1) : seq[i] \in S
  BY <1>1
<1>3. /\ SubSeq(seq, 1, Len(seq) - 1) \in Seq(S)
      /\ Len(SubSeq(seq, 1, Len(seq) - 1)) = Len(seq) - 1
      /\ \A i \in 1..(Len(seq) - 1) : SubSeq(seq, 1, Len(seq) - 1)[i] = seq[i]
  <2>1. 1 \in Int /\ Len(seq) - 1 \in Int /\ (Len(seq) - 1) - 1 + 1 = Len(seq) - 1
        /\ (~ (1 <= Len(seq) - 1) => Len(seq) - 1 = 0)
        /\ \A i \in 1..(Len(seq) - 1) : 1 + i - 1 = i
    <3>1. \A m \in Nat \ {0} : /\ 1 \in Int /\ m - 1 \in Int /\ (m - 1) - 1 + 1 = m - 1
                              /\ (~ (1 <= m - 1) => m - 1 = 0)
      OBVIOUS
    <3>2. \A m \in Nat : \A i \in 1..m : 1 + i - 1 = i
      OBVIOUS
    <3>3. Len(seq) \in Nat \ {0} /\ Len(seq) - 1 \in Nat
      BY <1>1
    <3> QED
      BY <3>1, <3>2, <3>3
  <2> DEFINE end == Len(seq) - 1
  <2> HIDE DEF end
  <2>2. /\ SubSeq(seq, 1, end) \in Seq(S)
        /\ Len(SubSeq(seq, 1, end)) = IF 1 <= end THEN end - 1 + 1 ELSE 0
        /\ \A i \in 1..(end - 1 + 1) : SubSeq(seq, 1, end)[i] = seq[1 + i - 1]
    BY <1>2, <2>1, SubSeqProperties DEF end
  <2> QED
    BY <2>1, <2>2 DEF end
<1>4. seq = Append(SubSeq(seq, 1, Len(seq) - 1), seq[Len(seq)])
  BY <1>1, Beginnings
<1> QED
  BY <1>1, <1>3, <1>4 DEF Front, Last

LEMMA LineRead ==
    ASSUME NEW records \in Records, NEW record \in Seq(Seq(Character)) \ {<<>>}
    PROVE  /\ Line(record) \in Seq(Character)
           /\ \E mode \in {"plain", "doubt"} :
                Ran(At(records, <<>>, <<>>, "plain"), Line(record))
                = At(records, Front(record), Last(record), mode)
<1> DEFINE start == At(records, <<>>, <<>>, "plain")
           texts == [i \in DOMAIN record |-> Saved(record[i])]
<1>0. Len(record) \in Nat \ {0} /\ DOMAIN record = 1..Len(record)
      /\ \A i \in 1..Len(record) : record[i] \in Seq(Character)
  BY EmptySeq, LenProperties
<1>1. start \in Reader /\ <<>> \in Seq(Seq(Character))
  <2>1. <<>> \in Seq(Character) /\ <<>> \in Seq(Seq(Character))
    OBVIOUS
  <2> QED
    BY <2>1, AtTyped
<1>2. texts \in Seq(Seq(Character)) /\ Len(texts) = Len(record)
      /\ \A i \in 1..Len(record) : texts[i] = Saved(record[i])
  <2>1. \A i \in 1..Len(record) : Saved(record[i]) \in Seq(Character)
    BY <1>0, <1>1, CellRead
  <2>2. texts \in [1..Len(record) -> Seq(Character)]
    BY <1>0, <2>1
  <2> QED
    BY <1>0, <2>2
<1>3. Line(record) = Joined(texts, Comma)
  BY DEF Line
<1> HIDE DEF texts
<1>p. PICK k : JoinedPath(k, start, texts, Comma)
  <2> HIDE DEF start
  <2> QED
    BY <1>1, <1>2, MarksDiffer, JoinedRead
<1>4. /\ Ran(start, Line(record)) = k[Len(record)]
      /\ \A n \in 1..Len(record) :
           k[n] = Ran(IF n = 1 THEN start ELSE Take(k[n - 1], Comma), texts[n])
  <2> HIDE DEF start
  <2> QED
    BY <1>2, <1>3, <1>p DEF JoinedPath
<1> DEFINE here(n) == \E mode \in {"plain", "doubt"} :
                        k[n + 1] = At(records, SubSeq(record, 1, n), record[n + 1], mode)
           fine == {n \in Nat : n + 1 <= Len(record) => here(n)}
<1>5. 0 \in fine
  <2>1. k[1] = Ran(start, Saved(record[1])) /\ record[1] \in Seq(Character) /\ 0 + 1 = 1
    BY <1>0, <1>2, <1>4
  <2>2. SubSeq(record, 1, 0) = <<>>
    BY Beginnings
  <2> QED
    BY <1>1, <2>1, <2>2, CellRead
<1>6. ASSUME NEW n \in Nat, n \in fine PROVE n + 1 \in fine
  <2> SUFFICES ASSUME (n + 1) + 1 <= Len(record) PROVE here(n + 1)
    OBVIOUS
  <2>1. /\ n + 1 \in 1..Len(record) /\ (n + 1) + 1 \in 1..Len(record) /\ (n + 1) - 1 = n
        /\ ((n + 1) + 1) - 1 = n + 1 /\ (n + 1) + 1 # 1 /\ n + 1 <= Len(record)
    BY <1>0
  <2>2. PICK mode \in {"plain", "doubt"} :
          k[n + 1] = At(records, SubSeq(record, 1, n), record[n + 1], mode)
    BY <1>6, <2>1
  <2>3. SubSeq(record, 1, n + 1) = Append(SubSeq(record, 1, n), record[n + 1])
        /\ SubSeq(record, 1, n + 1) \in Seq(Seq(Character))
    BY <2>1, Beginnings
  <2>4. Take(k[n + 1], Comma) = At(records, SubSeq(record, 1, n + 1), <<>>, "plain")
    <3>1. Take(At(records, SubSeq(record, 1, n), record[n + 1], mode), Comma)
          = At(records, Append(SubSeq(record, 1, n), record[n + 1]), <<>>, "plain")
      BY TakenBetween
    <3> QED
      BY <2>2, <2>3, <3>1
  <2>5. k[(n + 1) + 1] = Ran(Take(k[n + 1], Comma), Saved(record[(n + 1) + 1]))
    BY <1>2, <1>4, <2>1
  <2>6. record[(n + 1) + 1] \in Seq(Character)
    BY <1>0, <2>1
  <2>7. \E m \in {"plain", "doubt"} :
          Ran(At(records, SubSeq(record, 1, n + 1), <<>>, "plain"), Saved(record[(n + 1) + 1]))
          = At(records, SubSeq(record, 1, n + 1), record[(n + 1) + 1], m)
    BY <2>3, <2>6, CellRead
  <2> QED
    BY <2>4, <2>5, <2>7
<1>7. Nat \subseteq fine
  <2> HIDE DEF fine
  <2> QED
    BY <1>5, <1>6, NatSetInduction
<1>8. here(Len(record) - 1)
  BY <1>0, <1>7
<1>9. (Len(record) - 1) + 1 = Len(record)
  BY <1>0
<1>10. Line(record) \in Seq(Character)
  BY <1>1, <1>2, <1>3, MarksDiffer, JoinedRead
<1> QED
  BY <1>4, <1>8, <1>9, <1>10 DEF Front, Last

(* A sheet without a carriage return at the end of a record.               *)
LEMMA LinesRead ==
    ASSUME NEW table \in Seq(Seq(Seq(Character)) \ {<<>>}), table # <<>>,
           \A i \in DOMAIN table : Trimmed(Last(table[i])) = Last(table[i]),
           NEW text, text = Joined([i \in DOMAIN table |-> Line(table[i])], Newline)
    PROVE  /\ text \in Seq(Character)
           /\ \E mode \in {"plain", "doubt"} :
                Ran(Fresh, text) = At(Front(table), Front(Last(table)), Last(Last(table)), mode)
<1> DEFINE texts == [i \in DOMAIN table |-> Line(table[i])]
<1>0. Len(table) \in Nat \ {0} /\ DOMAIN table = 1..Len(table)
      /\ \A i \in 1..Len(table) : table[i] \in Seq(Seq(Character)) \ {<<>>}
  BY EmptySeq, LenProperties
<1>1. Fresh = At(<<>>, <<>>, <<>>, "plain") /\ Fresh \in Reader /\ <<>> \in Records
  <2>1. <<>> \in Seq(Character) /\ <<>> \in Seq(Seq(Character)) /\ <<>> \in Records
    BY DEF Records
  <2> QED
    BY <2>1, AtTyped DEF Fresh, At
<1>2. texts \in Seq(Seq(Character)) /\ Len(texts) = Len(table)
      /\ \A i \in 1..Len(table) : texts[i] = Line(table[i])
  <2>1. \A i \in 1..Len(table) : Line(table[i]) \in Seq(Character)
    BY <1>0, <1>1, LineRead
  <2>2. texts \in [1..Len(table) -> Seq(Character)]
    BY <1>0, <2>1
  <2> QED
    BY <1>0, <2>2
<1>3. text = Joined(texts, Newline)
  OBVIOUS
<1> HIDE DEF texts
<1>p. PICK k : JoinedPath(k, Fresh, texts, Newline)
  BY <1>1, <1>2, MarksDiffer, JoinedRead
<1>4. /\ Ran(Fresh, text) = k[Len(table)]
      /\ \A n \in 1..Len(table) :
           k[n] = Ran(IF n = 1 THEN Fresh ELSE Take(k[n - 1], Newline), texts[n])
  BY <1>2, <1>3, <1>p DEF JoinedPath
<1> DEFINE here(n) == \E mode \in {"plain", "doubt"} :
                        k[n + 1] = At(SubSeq(table, 1, n), Front(table[n + 1]), Last(table[n + 1]), mode)
           fine == {n \in Nat : n + 1 <= Len(table) => here(n)}
<1>a. \A n \in 1..Len(table) : SubSeq(table, 1, n) \in Records
  <2>1. table \in Records
    <3>1. table \in [1..Len(table) -> Seq(Seq(Character))]
      BY <1>0, LenProperties
    <3> QED
      BY <1>0, <3>1 DEF Records
  <2> QED
    BY <2>1, Beginnings DEF Records
<1>5. 0 \in fine
  <2>a. 1 \in 1..Len(table) /\ 0 + 1 = 1
    BY <1>0
  <2>1. k[1] = Ran(Fresh, Line(table[1])) /\ table[1] \in Seq(Seq(Character)) \ {<<>>}
    <3>1. k[1] = Ran(Fresh, texts[1]) /\ texts[1] = Line(table[1])
      BY <1>2, <1>4, <2>a
    <3> QED
      BY <1>0, <2>a, <3>1
  <2>2. SubSeq(table, 1, 0) = <<>>
    BY Beginnings
  <2> QED
    BY <1>1, <2>a, <2>1, <2>2, LineRead
<1>6. ASSUME NEW n \in Nat, n \in fine PROVE n + 1 \in fine
  <2> SUFFICES ASSUME (n + 1) + 1 <= Len(table) PROVE here(n + 1)
    OBVIOUS
  <2>1. /\ n + 1 \in 1..Len(table) /\ (n + 1) + 1 \in 1..Len(table) /\ (n + 1) - 1 = n
        /\ ((n + 1) + 1) - 1 = n + 1 /\ (n + 1) + 1 # 1 /\ n + 1 <= Len(table)
    BY <1>0
  <2>2. PICK mode \in {"plain", "doubt"} :
          k[n + 1] = At(SubSeq(table, 1, n), Front(table[n + 1]), Last(table[n + 1]), mode)
    BY <1>6, <2>1
  <2>3. SubSeq(table, 1, n + 1) = Append(SubSeq(table, 1, n), table[n + 1])
        /\ SubSeq(table, 1, n + 1) \in Records
    BY <1>a, <2>1, Beginnings
  <2>4. Append(Front(table[n + 1]), Trimmed(Last(table[n + 1]))) = table[n + 1]
    BY <1>0, <2>1, FrontAndLast
  <2>5. Take(k[n + 1], Newline) = At(SubSeq(table, 1, n + 1), <<>>, <<>>, "plain")
    <3>1. Take(At(SubSeq(table, 1, n), Front(table[n + 1]), Last(table[n + 1]), mode), Newline)
          = At(Append(SubSeq(table, 1, n), Append(Front(table[n + 1]), Trimmed(Last(table[n + 1])))),
               <<>>, <<>>, "plain")
      BY TakenBetween
    <3> QED
      BY <2>2, <2>3, <2>4, <3>1
  <2>6. k[(n + 1) + 1] = Ran(Take(k[n + 1], Newline), Line(table[(n + 1) + 1]))
    BY <1>2, <1>4, <2>1
  <2>7. table[(n + 1) + 1] \in Seq(Seq(Character)) \ {<<>>}
    BY <1>0, <2>1
  <2>8. \E m \in {"plain", "doubt"} :
          Ran(At(SubSeq(table, 1, n + 1), <<>>, <<>>, "plain"), Line(table[(n + 1) + 1]))
          = At(SubSeq(table, 1, n + 1), Front(table[(n + 1) + 1]), Last(table[(n + 1) + 1]), m)
    BY <2>3, <2>7, LineRead
  <2> QED
    BY <2>5, <2>6, <2>8
<1>7. Nat \subseteq fine
  <2> HIDE DEF fine
  <2> QED
    BY <1>5, <1>6, NatSetInduction
<1>8. here(Len(table) - 1)
  <2>1. Len(table) - 1 \in Nat /\ (Len(table) - 1) + 1 <= Len(table)
    BY <1>0
  <2>2. Len(table) - 1 \in fine
    <3> HIDE DEF fine
    <3> QED
      BY <1>7, <2>1
  <2> HIDE DEF here
  <2> QED
    BY <2>1, <2>2
<1>9. (Len(table) - 1) + 1 = Len(table)
  BY <1>0
<1>10. text \in Seq(Character)
  BY <1>1, <1>2, <1>3, MarksDiffer, JoinedRead
<1>11. Front(table) = SubSeq(table, 1, Len(table) - 1) /\ Last(table) = table[Len(table)]
  BY DEF Front, Last
<1> QED
  BY <1>4, <1>8, <1>9, <1>10, <1>11

LEMMA ConcatNone == Concat(<<>>) = <<>>
<1>1. <<>> \in Seq(Seq({})) /\ Len(<<>>) = 0
  OBVIOUS
<1>2. PICK h : ConcatPath(h, <<>>, {})
  BY <1>1, ConcatSteps
<1> QED
  BY <1>1, <1>2 DEF ConcatPath

LEMMA ConcatFront ==
    ASSUME NEW S, NEW seqs \in Seq(Seq(S)) \ {<<>>}
    PROVE  Concat(seqs) = Concat(Front(seqs)) \o Last(seqs)
<1> DEFINE short == Front(seqs)
           m == Len(seqs) - 1
<1>0. /\ Len(seqs) \in Nat \ {0} /\ m \in Nat /\ short \in Seq(Seq(S)) /\ Len(short) = m
      /\ \A i \in 1..m : short[i] = seqs[i]
  <2>1. /\ Len(seqs) \in Nat \ {0} /\ short \in Seq(Seq(S)) /\ Len(short) = m
        /\ \A i \in 1..m : short[i] = seqs[i]
    <3> DEFINE T == Seq(S)
    <3> HIDE DEF T
    <3>1. seqs \in Seq(T) \ {<<>>}
      BY DEF T
    <3> QED
      BY <3>1, FrontAndLast DEF T
  <2>2. \A n \in Nat \ {0} : n - 1 \in Nat
    OBVIOUS
  <2> QED
    BY <2>1, <2>2
<1> HIDE DEF short
<1>1. PICK h : ConcatPath(h, seqs, S)
  BY ConcatSteps
<1>2. PICK k : ConcatPath(k, short, S)
  BY <1>0, ConcatSteps
<1>3. /\ h[0] = <<>> /\ Concat(seqs) = h[Len(seqs)]
      /\ \A n \in 1..Len(seqs) : h[n] = h[n - 1] \o seqs[n]
  BY <1>1 DEF ConcatPath
<1>4. /\ k[0] = <<>> /\ Concat(short) = k[m]
      /\ \A n \in 1..m : k[n] = k[n - 1] \o short[n]
  BY <1>0, <1>2 DEF ConcatPath
<1> DEFINE fine == {n \in Nat : n <= m => h[n] = k[n]}
<1>5. 0 \in fine
  BY <1>3, <1>4
<1>6. ASSUME NEW n \in Nat, n \in fine PROVE n + 1 \in fine
  <2> SUFFICES ASSUME n + 1 <= m PROVE h[n + 1] = k[n + 1]
    OBVIOUS
  <2>1. n + 1 \in 1..m /\ n + 1 \in 1..Len(seqs) /\ (n + 1) - 1 = n /\ h[n] = k[n]
    BY <1>0, <1>6
  <2>2. h[n + 1] = h[n] \o seqs[n + 1] /\ k[n + 1] = k[n] \o short[n + 1]
    BY <1>3, <1>4, <2>1
  <2> QED
    BY <1>0, <2>1, <2>2
<1>7. Nat \subseteq fine
  <2> HIDE DEF fine
  <2> QED
    BY <1>5, <1>6, NatSetInduction
<1>8. h[m] = k[m]
  BY <1>0, <1>7
<1>9. h[Len(seqs)] = h[m] \o seqs[Len(seqs)]
  <2>1. Len(seqs) \in 1..Len(seqs)
    BY <1>0
  <2> QED
    BY <1>3, <2>1
<1> QED
  BY <1>3, <1>4, <1>8, <1>9 DEF short, Last

Parts(records) == [i \in DOMAIN records |-> IF Contentful(records[i]) THEN <<records[i]>> ELSE <<>>]

LEMMA PartsTyped ==
    ASSUME NEW records \in Records
    PROVE  /\ Parts(records) \in Seq(Records) /\ Len(Parts(records)) = Len(records)
           /\ \A i \in 1..Len(records) :
                Parts(records)[i] = IF Contentful(records[i]) THEN <<records[i]>> ELSE <<>>
<1>0. Len(records) \in Nat /\ DOMAIN records = 1..Len(records)
      /\ \A i \in 1..Len(records) : records[i] \in Seq(Seq(Character))
  BY LenProperties DEF Records
<1>1. \A i \in 1..Len(records) : (IF Contentful(records[i]) THEN <<records[i]>> ELSE <<>>) \in Records
  <2>1. \A record \in Seq(Seq(Character)) : <<record>> \in Records /\ <<>> \in Records
    BY DEF Records
  <2> QED
    BY <1>0, <2>1
<1>2. Parts(records) \in [1..Len(records) -> Records]
  BY <1>0, <1>1 DEF Parts
<1>3. Parts(records) \in Seq(Records) /\ Len(Parts(records)) = Len(records)
  BY <1>0, <1>2
<1> QED
  BY <1>0, <1>3 DEF Parts

(* A record without content at the end is as good as none.                 *)
LEMMA BlankDropped ==
    ASSUME NEW records \in Records \ {<<>>}, ~Contentful(Last(records))
    PROVE  Filled(Front(records)) = Filled(records)
<1> DEFINE long == Parts(records)
           short == Parts(Front(records))
<1>0. /\ Front(records) \in Records /\ Len(records) \in Nat \ {0}
      /\ Len(Front(records)) = Len(records) - 1
      /\ \A i \in 1..(Len(records) - 1) : Front(records)[i] = records[i]
  BY FrontAndLast DEF Records
<1>1. /\ long \in Seq(Records) /\ Len(long) = Len(records)
      /\ short \in Seq(Records) /\ Len(short) = Len(records) - 1
  BY <1>0, PartsTyped
<1>2. long \in Seq(Seq(Seq(Seq(Character)))) \ {<<>>}
  BY <1>0, <1>1 DEF Records
<1>3. Last(long) = <<>>
  <2>1. Len(records) \in 1..Len(records) /\ ~Contentful(records[Len(records)])
    BY <1>0 DEF Last
  <2> QED
    BY <1>1, <2>1, PartsTyped DEF Last
<1>4. Front(long) = short
  <2>1. /\ Front(long) \in Seq(Records) /\ Len(Front(long)) = Len(records) - 1
        /\ \A i \in 1..(Len(records) - 1) : Front(long)[i] = long[i]
    BY <1>1, <1>2, FrontAndLast DEF Records
  <2>2. \A i \in 1..(Len(records) - 1) : long[i] = short[i]
    <3> TAKE i \in 1..(Len(records) - 1)
    <3>1. i \in 1..Len(records) /\ i \in 1..Len(Front(records))
      BY <1>0
    <3>2. long[i] = IF Contentful(records[i]) THEN <<records[i]>> ELSE <<>>
      BY <3>1, PartsTyped
    <3>3. short[i] = IF Contentful(Front(records)[i]) THEN <<Front(records)[i]>> ELSE <<>>
      BY <1>0, <3>1, PartsTyped
    <3> QED
      BY <1>0, <3>2, <3>3
  <2> HIDE DEF long, short
  <2> QED
    BY <1>1, <2>1, <2>2, SeqEqual
<1>5. Concat(long) = Concat(short) \o <<>>
  <2> HIDE DEF long, short
  <2> QED
    BY <1>2, <1>3, <1>4, ConcatFront
<1>6. Concat(short) \in Seq(Seq(Seq(Character)))
  <2> HIDE DEF long, short
  <2> QED
    BY <1>1, ConcatTyped DEF Records
<1>7. Concat(long) = Concat(short)
  BY <1>5, <1>6, ConcatEmptySeq
<1> QED
  BY <1>7 DEF Filled, Parts

LEMMA NothingToKeep == Filled(<<>>) = <<>> /\ Filled(<<<<<<>>>>>>) = <<>>
<1>1. <<>> \in Records /\ Len(<<>>) = 0
  BY DEF Records
<1>2. Parts(<<>>) = <<>>
  <2>1. Parts(<<>>) \in Seq(Records) /\ Len(Parts(<<>>)) = 0
    BY <1>1, PartsTyped
  <2> QED
    BY <2>1, EmptySeq
<1>3. Filled(<<>>) = <<>>
  BY <1>2, ConcatNone DEF Filled, Parts
<1> DEFINE one == <<<<<<>>>>>>
<1>4. one \in Records \ {<<>>}
  <2>1. <<>> \in Seq(Character)
    OBVIOUS
  <2>2. <<<<>>>> \in Seq(Seq(Character))
    BY <2>1
  <2> QED
    BY <2>2 DEF Records
<1>5. Last(one) = <<<<>>>> /\ Len(one) = 1
  BY DEF Last
<1>6. ~Contentful(Last(one))
  BY <1>5 DEF Contentful, Blank
<1>7. Front(one) = <<>>
  BY <1>5, SubSeqEmpty DEF Front
<1> QED
  BY <1>3, <1>4, <1>6, <1>7, BlankDropped

(* Where the text ends, a cell that was begun makes a record.              *)
LEMMA CsvAtEnd ==
    ASSUME NEW text, NEW records, NEW cells, NEW cell, NEW mode,
           mode # "quoted", Ran(Fresh, text) = At(records, cells, cell, mode)
    PROVE  CsvRecords(text) = IF cell # <<>> \/ cells # <<>>
                              THEN Append(records, Append(cells, Trimmed(cell))) ELSE records
<1>1. CsvRecords(text) = LET s == Ran(Fresh, text)
                         IN  IF s.mode = "quoted" THEN <<>>
                             ELSE IF s.field # <<>> \/ s.row # <<>> THEN EndRow(s).rows ELSE s.rows
  BY DEF CsvRecords, Ran
<1> QED
  BY <1>1 DEF EndRow, At

LEMMA ReadsBack ==
    ASSUME NEW table \in Seq(Seq(Seq(Character)) \ {<<>>}), NEW ended \in BOOLEAN,
           \A i \in DOMAIN table : Trimmed(Last(table[i])) = Last(table[i]),
           NEW text, text = Joined([i \in DOMAIN table |-> Line(table[i])], Newline)
    PROVE  ParseCsv(text \o IF ended THEN <<Newline>> ELSE <<>>) = Filled(table)
<1> DEFINE all == text \o IF ended THEN <<Newline>> ELSE <<>>
<1>0. Fresh = At(<<>>, <<>>, <<>>, "plain") /\ Fresh \in Reader
  <2>1. <<>> \in Seq(Character) /\ <<>> \in Seq(Seq(Character)) /\ <<>> \in Records
    BY DEF Records
  <2> QED
    BY <2>1, AtTyped DEF Fresh, At
<1>1. Newline \in Character /\ Comma \in Character
  BY MarksDiffer
<1>2. text \in Seq(Character) => /\ all \in Seq(Character)
                                 /\ ~ended => all = text
                                 /\ ended => Ran(Fresh, all) = Take(Ran(Fresh, text), Newline)
  <2> SUFFICES ASSUME text \in Seq(Character)
               PROVE  /\ all \in Seq(Character)
                      /\ ~ended => all = text
                      /\ ended => Ran(Fresh, all) = Take(Ran(Fresh, text), Newline)
    OBVIOUS
  <2>1. CASE ended
    <3>1. all = text \o <<Newline>> /\ <<Newline>> \in Seq(Character)
      BY <1>1, <2>1
    <3>2. text \o <<Newline>> \in Seq(Character)
      BY <3>1, ConcatProperties
    <3> HIDE DEF all
    <3> QED
      BY <1>0, <1>1, <2>1, <3>1, <3>2, RanOneMore
  <2>2. CASE ~ended
    <3>1. all = text \o <<>>
      BY <2>2
    <3> HIDE DEF all
    <3> QED
      BY <2>2, <3>1, ConcatEmptySeq
  <2> QED
    BY <2>1, <2>2
<1> HIDE DEF all
<1>3. CASE table = <<>>
  <2>1. text = <<>>
    <3> DEFINE texts == [i \in DOMAIN table |-> Line(table[i])]
    <3>1. texts \in [1..0 -> Seq(Character)]
      BY <1>3
    <3>2. texts \in Seq(Seq(Character)) /\ Len(texts) = 0
      BY <3>1
    <3> HIDE DEF texts
    <3>3. Joined(texts, Newline) = <<>>
      BY <1>0, <1>1, <3>2, JoinedRead
    <3> QED
      BY <3>3 DEF texts
  <2>2. text \in Seq(Character) /\ Ran(Fresh, text) = At(<<>>, <<>>, <<>>, "plain")
    BY <1>0, <2>1, RanFew
  <2>3. CASE ended
    <3>1. Ran(Fresh, all) = At(Append(<<>>, Append(<<>>, Trimmed(<<>>))), <<>>, <<>>, "plain")
      <4>1. Take(At(<<>>, <<>>, <<>>, "plain"), Newline)
            = At(Append(<<>>, Append(<<>>, Trimmed(<<>>))), <<>>, <<>>, "plain")
        <5>1. \A r, c, f : Take(At(r, c, f, "plain"), Newline)
                          = At(Append(r, Append(c, Trimmed(f))), <<>>, <<>>, "plain")
          BY TakenBetween
        <5> QED
          BY <5>1
      <4> QED
        BY <1>2, <2>2, <2>3, <4>1
    <3>2. CsvRecords(all) = Append(<<>>, Append(<<>>, Trimmed(<<>>)))
      BY <3>1, CsvAtEnd
    <3>3. Append(<<>>, Append(<<>>, Trimmed(<<>>))) = <<<<<<>>>>>>
      BY DEF Trimmed
    <3> QED
      BY <1>3, <3>2, <3>3, NothingToKeep DEF ParseCsv, all
  <2>4. CASE ~ended
    <3>1. CsvRecords(all) = <<>>
      BY <1>2, <2>2, <2>4, CsvAtEnd
    <3> QED
      BY <1>3, <3>1 DEF ParseCsv, all
  <2> QED
    BY <2>3, <2>4
<1>4. CASE table # <<>>
  <2>1. text \in Seq(Character)
        /\ \E mode \in {"plain", "doubt"} :
             Ran(Fresh, text) = At(Front(table), Front(Last(table)), Last(Last(table)), mode)
    BY <1>4, LinesRead
  <2>2. PICK mode \in {"plain", "doubt"} :
          Ran(Fresh, text) = At(Front(table), Front(Last(table)), Last(Last(table)), mode)
    BY <2>1
  <2>3. /\ Last(table) \in Seq(Seq(Character)) \ {<<>>} /\ Append(Front(table), Last(table)) = table
        /\ Len(table) \in DOMAIN table /\ Last(table) = table[Len(table)]
    <3>1. table \in Seq(Seq(Seq(Character)) \ {<<>>}) \ {<<>>}
      BY <1>4
    <3>2. Len(table) \in DOMAIN table
      BY <3>1, EmptySeq, LenProperties
    <3> QED
      BY <3>1, <3>2, FrontAndLast DEF Last
  <2>4. Append(Front(Last(table)), Trimmed(Last(Last(table)))) = Last(table)
    BY <2>3, FrontAndLast
  <2>5. table \in Records \ {<<>>}
    <3>1. table \in [1..Len(table) -> Seq(Seq(Character))] /\ Len(table) \in Nat
      BY LenProperties
    <3> QED
      BY <1>4, <3>1 DEF Records
  <2>6. CASE ended
    <3>1. Take(At(Front(table), Front(Last(table)), Last(Last(table)), mode), Newline)
          = At(Append(Front(table), Append(Front(Last(table)), Trimmed(Last(Last(table))))),
               <<>>, <<>>, "plain")
      BY TakenBetween
    <3>2. Ran(Fresh, all) = At(table, <<>>, <<>>, "plain")
      BY <1>2, <2>1, <2>2, <2>3, <2>4, <2>6, <3>1
    <3>3. CsvRecords(all) = table
      BY <3>2, CsvAtEnd
    <3> QED
      BY <3>3 DEF ParseCsv, all
  <2>7. CASE ~ended
    <3>1. Ran(Fresh, all) = At(Front(table), Front(Last(table)), Last(Last(table)), mode)
      BY <1>2, <2>1, <2>2, <2>7
    <3>2. CsvRecords(all) = IF Last(Last(table)) # <<>> \/ Front(Last(table)) # <<>>
                            THEN Append(Front(table),
                                        Append(Front(Last(table)), Trimmed(Last(Last(table)))))
                            ELSE Front(table)
      <4> DEFINE records == Front(table)
                 cells == Front(Last(table))
                 cell == Last(Last(table))
      <4> HIDE DEF records, cells, cell
      <4>1. Ran(Fresh, all) = At(records, cells, cell, mode)
        BY <3>1 DEF records, cells, cell
      <4>2. CsvRecords(all) = IF cell # <<>> \/ cells # <<>>
                              THEN Append(records, Append(cells, Trimmed(cell))) ELSE records
        <5>1. mode # "quoted"
          OBVIOUS
        <5> QED
          BY <4>1, <5>1, CsvAtEnd
      <4> QED
        BY <4>2 DEF records, cells, cell
    <3>3. CASE Last(Last(table)) # <<>> \/ Front(Last(table)) # <<>>
      BY <2>3, <2>4, <3>2, <3>3 DEF ParseCsv, all
    <3>4. CASE Last(Last(table)) = <<>> /\ Front(Last(table)) = <<>>
      <4>1. Last(table) = <<<<>>>>
        <5>1. Append(Front(Last(table)), Last(Last(table))) = Last(table)
          BY <2>3, FrontAndLast
        <5>2. Append(<<>>, <<>>) = <<<<>>>>
          OBVIOUS
        <5> QED
          BY <3>4, <5>1, <5>2
      <4>2. ~Contentful(Last(table))
        BY <4>1 DEF Contentful, Blank
      <4>3. Filled(Front(table)) = Filled(table)
        BY <2>5, <4>2, BlankDropped
      <4> QED
        BY <3>2, <3>4, <4>3 DEF ParseCsv, all
    <3> QED
      BY <3>3, <3>4
  <2> QED
    BY <2>6, <2>7
<1> QED
  BY <1>3, <1>4 DEF all

(* What the import has read is what the text gives.                        *)
ImportInv ==
    /\ sheet \in Sheet /\ ending \in BOOLEAN
    /\ rows = Unread \/ rows = ParseCsv(Text)

LEMMA ImportHasInv == ImportSpec => []ImportInv
<1>1. ImportInit => ImportInv
  BY DEF ImportInit, ImportInv
<1>2. ImportInv /\ [Import]_importVars => ImportInv'
  <2> SUFFICES ASSUME ImportInv, [Import]_importVars PROVE ImportInv'
    OBVIOUS
  <2>1. CASE Import
    <3>1. Text' = Text
      BY <2>1 DEF Import, Text, Line, Saved, Doubled
    <3> QED
      BY <2>1, <3>1 DEF Import, ImportInv
  <2>2. CASE UNCHANGED importVars
    <3>1. Text' = Text
      BY <2>2 DEF importVars, Text, Line, Saved, Doubled
    <3> QED
      BY <2>2, <3>1 DEF importVars, ImportInv
  <2> QED
    BY <2>1, <2>2
<1> QED
  BY <1>1, <1>2, PTL DEF ImportSpec

(* A sheet reads back as it was saved, for cells of any characters and any *)
(* length: parseCsv undoes the quotes of a spreadsheet program, but for a  *)
(* carriage return at the end of a record.                                 *)
THEOREM SheetsReadBack == ImportSpec => []SheetReadsBack
<1>1. ImportInv => SheetReadsBack
  <2> SUFFICES ASSUME ImportInv, rows # Unread,
                      \A i \in DOMAIN sheet : Trimmed(Last(sheet[i])) = Last(sheet[i])
               PROVE  rows = Filled(sheet)
    BY DEF SheetReadsBack
  <2>1. sheet \in Seq(Seq(Seq(Character)) \ {<<>>}) /\ ending \in BOOLEAN /\ rows = ParseCsv(Text)
    BY SheetAssumption DEF ImportInv
  <2> DEFINE text == Joined([i \in DOMAIN sheet |-> Line(sheet[i])], Newline)
  <2>2. ParseCsv(text \o IF ending THEN <<Newline>> ELSE <<>>) = Filled(sheet)
    BY <2>1, ReadsBack
  <2> QED
    BY <2>1, <2>2 DEF Text
<1> QED
  BY <1>1, ImportHasInv, PTL

=============================================================================
