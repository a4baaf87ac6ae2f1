----------------------------- MODULE Categories -----------------------------
(***************************************************************************)
(* The category tree as administrators edit it (CategoriesService). The    *)
(* homepage shows the top-level categories that ask for it, at most Limit  *)
(* of them. A request looks the address and the free tiles up, each by a   *)
(* query, and writes by a third statement; the unique index on the live    *)
(* addresses is what holds at the write.                                   *)
(*                                                                         *)
(*   category  the rows: live, slug, parent (Top is null), shown, and the  *)
(*             answers of its FAQ; slipped tells that the row came to its  *)
(*             tile without a count or past a count another write crossed  *)
(*   editor    the requests in progress: [step, row, edit, crossed]        *)
(***************************************************************************)
EXTENDS Naturals, FiniteSets

CONSTANTS Category, Editor, Address, Top,
          CategoryEdit,   \* the requests: records of the fields they name
          Limit           \* HOMEPAGE_CATEGORY_LIMIT

(* CreateCategoryDto, of which an update is the PartialType: parentId may  *)
(* be null, which is Top. What only presentation reads is left out.        *)
CategoryDto(edit) ==
    /\ DOMAIN edit \subseteq {"slug", "parent", "shown", "faqs"}
    /\ "slug" \in DOMAIN edit => edit.slug \in Address
    /\ "parent" \in DOMAIN edit => edit.parent \in Category \cup {Top}
    /\ "shown" \in DOMAIN edit => edit.shown \in BOOLEAN

ASSUME CategoryEditAssumption ==
    /\ Limit \in Nat /\ IsFiniteSet(Category) /\ Top \notin Category
    /\ \A edit \in CategoryEdit : CategoryDto(edit)

VARIABLES category, editor

categoryVars == <<category, editor>>

NoCategory == [live |-> FALSE, slug |-> Top, parent |-> Top, shown |-> FALSE, faqs |-> {},
          slipped |-> FALSE]

AtRest == [step |-> "idle"]

CategoriesInit ==
    category = [c \in Category |-> NoCategory] /\ editor = [e \in Editor |-> AtRest]

-----------------------------------------------------------------------------

Tile(row) == row.live /\ row.shown /\ row.parent = Top

Tiles == {c \in Category : Tile(category[c])}

AddressFree(slug, c) == \A d \in Category \ {c} : ~(category[d].live /\ category[d].slug = slug)

(* Only what goes to the top of the tree is counted.                       *)
SlotFree(parent, c) == parent # Top \/ Cardinality(Tiles \ {c}) < Limit

Started(e, step, c, edit) ==
    editor' = [editor EXCEPT ![e] = [step |-> step, row |-> c, edit |-> edit, crossed |-> FALSE]]

(* A new category is shown unless the request says otherwise.              *)
NewRow(edit) ==
    [NoCategory EXCEPT !.live = TRUE, !.slug = edit.slug,
                  !.parent = IF "parent" \in DOMAIN edit THEN edit.parent ELSE Top,
                  !.shown = IF "shown" \in DOMAIN edit THEN edit.shown ELSE TRUE,
                  !.faqs = IF "faqs" \in DOMAIN edit THEN edit.faqs ELSE {}]

CheckCreate(e, c, edit) ==
    /\ editor[e] = AtRest /\ category[c] = NoCategory
    /\ \A d \in Editor : editor[d].step = "create" => editor[d].row # c   \* rows get fresh ids
    /\ "slug" \in DOMAIN edit /\ AddressFree(edit.slug, c)
    /\ NewRow(edit).shown => SlotFree(NewRow(edit).parent, c)
    /\ Started(e, "create", c, edit) /\ UNCHANGED category

(* mutant: the tile is looked up where the category is, not where it goes. *)
CheckEditInPlace(e, c, edit) ==
    /\ editor[e] = AtRest /\ category[c].live
    /\ "slug" \in DOMAIN edit => AddressFree(edit.slug, c)
    /\ "shown" \in DOMAIN edit /\ edit.shown => SlotFree(category[c].parent, c)
    /\ Started(e, "update", c, edit) /\ UNCHANGED category

(* An edit that does not name showOnHomepage is not counted.               *)
CheckEdit(e, c, edit) ==
    /\ editor[e] = AtRest /\ category[c].live
    /\ "slug" \in DOMAIN edit => AddressFree(edit.slug, c)
    /\ "shown" \in DOMAIN edit /\ edit.shown =>
          SlotFree(IF "parent" \in DOMAIN edit THEN edit.parent ELSE category[c].parent, c)
    /\ Started(e, "update", c, edit) /\ UNCHANGED category

CheckRemove(e, c) ==
    /\ editor[e] = AtRest /\ category[c].live
    /\ Started(e, "remove", c, <<>>) /\ UNCHANGED category

(* The rows a request has looked at are changed under it.                  *)
Done(e) ==
    editor' = [d \in Editor |-> IF d = e THEN AtRest
                                ELSE IF editor[d] # AtRest THEN [editor[d] EXCEPT !.crossed = TRUE]
                                ELSE editor[d]]

(* The FAQ is replaced as a whole when it is named.                        *)
Merged(row, edit) ==
    [field \in DOMAIN row |-> IF field \in DOMAIN edit THEN edit[field] ELSE row[field]]

(* A row that becomes a tile has slipped in when nobody counted for it;    *)
(* one that stays a tile is what it was, or counted again.                 *)
Marked(row, before, counted, crossed) ==
    [row EXCEPT !.slipped = Tile(row) /\ IF counted THEN crossed ELSE Tile(before) => before.slipped]

After(e) ==
    IF editor[e].step = "create" THEN NewRow(editor[e].edit)
    ELSE Merged(category[editor[e].row], editor[e].edit)

(* The index refuses an address taken meanwhile; a removed row is out of it.*)
Refused(e) == After(e).live /\ ~AddressFree(After(e).slug, editor[e].row)

Counted(e) == After(e).shown /\ ("shown" \in DOMAIN editor[e].edit \/ editor[e].step = "create")

WriteCategory(e) ==
    /\ editor[e].step \in {"create", "update"}
    /\ ~Refused(e)
    /\ category' = [category EXCEPT ![editor[e].row] =
                      Marked(After(e), @, Counted(e), editor[e].crossed)]
    /\ Done(e)

GiveUp(e) ==
    /\ editor[e].step \in {"create", "update"}
    /\ Refused(e)
    /\ editor' = [editor EXCEPT ![e] = AtRest] /\ UNCHANGED category

(* The row stays, its children keep pointing at it and become roots of the *)
(* tree that the storefront builds.                                        *)
RemoveCategory(e) ==
    /\ editor[e].step = "remove"
    /\ category' = [category EXCEPT ![editor[e].row].live = FALSE,
                                    ![editor[e].row].slipped = FALSE]
    /\ Done(e)

CategoriesNext ==
    \/ \E e \in Editor, c \in Category, edit \in CategoryEdit :
          CheckCreate(e, c, edit) \/ CheckEdit(e, c, edit)
    \/ \E e \in Editor, c \in Category : CheckRemove(e, c)
    \/ \E e \in Editor : WriteCategory(e) \/ GiveUp(e) \/ RemoveCategory(e)

CategoriesSpec == CategoriesInit /\ [][CategoriesNext]_categoryVars

-----------------------------------------------------------------------------
(* Properties.                                                             *)

(* The grid is not overfull but for the categories that slipped in: one    *)
(* moved to the top by an edit that does not name showOnHomepage, or one   *)
(* whose count another write crossed (categories.service.ts: "a fixed      *)
(* 9-tile grid").                                                          *)
GridHolds == Cardinality({c \in Tiles : ~category[c].slipped}) <= Limit

=============================================================================
