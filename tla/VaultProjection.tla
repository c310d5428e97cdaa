--------------------------- MODULE VaultProjection ---------------------------
(***************************************************************************)
(* One replica of the read model: VaultProjectionStore.apply and           *)
(* SearchStore.apply (apps/desktop/src/vault) fed with the events of a     *)
(* vault in any order and any number of times: the device's own commands   *)
(* come first and come back with the log, a page may be pulled twice, and  *)
(* other devices name items this one has merged or deleted.                *)
(***************************************************************************)
EXTENDS SearchIndex

CONSTANT Events  \* the events of the vault

\* An event has one of the types of the schema, a saved URL is not empty, a
\* deletion has a time, and a save is the only one of its item: the command
\* draws a new item id.
ASSUME EventsAssumption ==
    /\ \A e \in Events : /\ e.type \in EventType
                         /\ e.type = "ItemSaved" => e.url # ""
                         /\ e.type = "ItemDeleted" => e.at # None
    /\ \A e, f \in Events :
          e.type = "ItemSaved" /\ f.type = "ItemSaved" /\ e.item = f.item => e = f

VARIABLES
    state,
    index,  \* of the search store
    saved  \* history: the ItemSaved events applied so far

vars == <<state, index, saved>>

Init == state = initialVaultState /\ index = emptyIndex /\ saved = {}

Apply(e) ==
    /\ state' = apply(state, e)
    /\ index' = applyToIndex(index, e)
    /\ saved' = IF e.type = "ItemSaved" THEN saved \cup {e} ELSE saved

Next == \E e \in Events : Apply(e)

Spec == Init /\ [][Next]_vars
-----------------------------------------------------------------------------

\* The URL map names exactly the live items, so that at most one live item has
\* a given URL and a save can never touch a deleted one (itemsByCanonicalUrl).
UrlIndexExact ==
    LET live == {i \in DOMAIN state.items : IsLive(state.items, i)}
        byUrl == state.itemsByCanonicalUrl
    IN  /\ \A i \in live : /\ state.items[i].url \in DOMAIN byUrl
                           /\ byUrl[state.items[i].url] = i
        /\ \A u \in DOMAIN byUrl : /\ byUrl[u] \in live
                                   /\ state.items[byUrl[u]].url = u

\* The incrementally kept tag set is the set of tags of the live items: the
\* sidebar shows no tag without an item and hides none that has one.
TagsExact == state.tags = recomputeTags(state.items)

\* The reverse map that queries read is the inverse of the items' tokens: no
\* hit on a text an item no longer has, and none is missing.
ReverseExact ==
    LET byToken == index.itemsByToken
        byItem == index.tokensByItem
    IN  /\ \A t \in DOMAIN byToken : byToken[t] # {}
        /\ \A t \in DOMAIN byToken : \A i \in byToken[t] :
              i \in DOMAIN byItem /\ t \in byItem[i]
        /\ \A i \in DOMAIN byItem : \A t \in byItem[i] : i \in search(index, t)

\* A live item is found by its URL, also when its events were merged with those
\* of another item, repeated, or came before its save.
LiveIsFound ==
    \A i \in DOMAIN state.items :
        IsLive(state.items, i) /\ ~state.isDeleted =>
            i \in search(index, state.items[i].url)

\* The first application of a save shows the URL in the inbox with its savedAt,
\* whether it creates an item, touches one, or follows a deletion.
SaveIsVisible ==
    [][\A e \in saved' \ saved :
         ~state.isDeleted =>
            \E i \in DOMAIN state'.items :
                /\ IsLive(state'.items, i)
                /\ state'.items[i].url = e.url
                /\ state'.items[i].state = "inbox"
                /\ state'.items[i].savedAt = e.at]_vars
=============================================================================
