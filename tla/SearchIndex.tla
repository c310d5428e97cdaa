----------------------------- MODULE SearchIndex -----------------------------
(***************************************************************************)
(* The local search index, packages/core/src/search-index: the tokens of   *)
(* each item's title and URL, and the reverse map that queries read.       *)
(*                                                                         *)
(* A text is one token, the empty text none: how tokenize splits it makes  *)
(* no difference to the maps.  The maps from items to titles and to        *)
(* searchable strings have the same keys as the one kept here and are      *)
(* never read.                                                             *)
(*                                                                         *)
(* A definition Name_Variant just before Name is a mutated form of it, used *)
(* only by the mutant runs.                                                *)
(***************************************************************************)
EXTENDS Projection

emptyIndex == [urlByItem |-> <<>>, tokensByItem |-> <<>>, itemsByToken |-> <<>>]

tokenize(texts) == texts \ {""}

At(m, k, default) == IF k \in DOMAIN m THEN m[k] ELSE default

\* A token that no item carries any more has no key.
removeFromReverse(reverse, tokens, item) ==
    LET left == [t \in DOMAIN reverse |->
                    IF t \in tokens THEN reverse[t] \ {item} ELSE reverse[t]]
    IN  [t \in {r \in DOMAIN left : left[r] # {}} |-> left[t]]

addToReverse(reverse, tokens, item) ==
    [t \in DOMAIN reverse \cup tokens |->
        At(reverse, t, {}) \cup (IF t \in tokens THEN {item} ELSE {})]

setItem_KeepOld(index, item, title, url) ==
    LET new == tokenize({title, url})
    IN  [urlByItem |-> Put(index.urlByItem, item, url),
         tokensByItem |-> Put(index.tokensByItem, item, new),
         itemsByToken |-> addToReverse(index.itemsByToken, new, item)]
setItem(index, item, title, url) ==
    LET new == tokenize({title, url})
        old == At(index.tokensByItem, item, {})
    IN  [urlByItem |-> Put(index.urlByItem, item, url),
         tokensByItem |-> Put(index.tokensByItem, item, new),
         itemsByToken |-> addToReverse(
                             removeFromReverse(index.itemsByToken, old \ new, item),
                             new \ old, item)]

removeItem(index, item) ==
    [urlByItem |-> Drop(index.urlByItem, item),
     tokensByItem |-> Drop(index.tokensByItem, item),
     itemsByToken |-> removeFromReverse(index.itemsByToken,
                                        At(index.tokensByItem, item, {}), item)]

applyToIndex_TitleOnly(index, e) ==
    CASE e.type = "ItemSaved"       -> setItem(index, e.item, e.title, e.url)
      [] e.type = "ItemTitleEdited" -> setItem(index, e.item, e.title, "")
      [] e.type = "ItemDeleted"     -> removeItem(index, e.item)
      [] OTHER -> index
applyToIndex(index, e) ==
    CASE e.type = "ItemSaved"       -> setItem(index, e.item, e.title, e.url)
      [] e.type = "ItemTitleEdited" -> setItem(index, e.item, e.title,
                                               At(index.urlByItem, e.item, ""))
      [] e.type = "ItemDeleted"     -> removeItem(index, e.item)
      [] OTHER -> index

\* The items a query of one token hits.
search(index, token) == At(index.itemsByToken, token, {})
=============================================================================
