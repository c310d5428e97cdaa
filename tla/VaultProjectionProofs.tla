----------------------- MODULE VaultProjectionProofs -----------------------
(***************************************************************************)
(* Proofs about the projection and the search index, for every set of      *)
(* events, applied in any order and any number of times.                   *)
(*                                                                         *)
(* The reducer is classified once (Steps): an event leaves items, URLs and *)
(* tags alone, or patches, creates or deletes one item.  The invariants    *)
(* are proved against these four kinds.  The reverse map of the search     *)
(* index is reasoned about point by point: does token t hit item i?        *)
(***************************************************************************)
EXTENDS VaultProjection, TLAPS

Shape ==
    /\ DOMAIN state = {"items", "itemsByCanonicalUrl", "tags", "devices",
                       "scheduledDeletion", "isDeleted"}
    /\ \A i \in DOMAIN state.items :
          DOMAIN state.items[i] = {"url", "title", "state", "liked", "tags",
                                   "savedAt", "deletedAt"}

\* Every item was created by a save of its id and its URL.
WasSaved ==
    \A i \in DOMAIN state.items :
        \E e \in saved : e.item = i /\ e.url = state.items[i].url

SavesInv == saved \subseteq {e \in Events : e.type = "ItemSaved"} /\ WasSaved

\* The URL of a live item is what the index believes it to be, and a token.
IndexInv ==
    \A i \in DOMAIN state.items :
        IsLive(state.items, i) /\ ~state.isDeleted =>
            /\ i \in DOMAIN index.urlByItem
            /\ index.urlByItem[i] = state.items[i].url
            /\ i \in DOMAIN index.tokensByItem
            /\ state.items[i].url \in index.tokensByItem[i]

-----------------------------------------------------------------------------
(* The kinds of steps *)

\* Devices or the fate of the vault change, if anything does.
Kept == /\ state'.items = state.items
        /\ state'.itemsByCanonicalUrl = state.itemsByCanonicalUrl
        /\ state'.tags = state.tags

\* A live item changes but for its URL, and stays live.
Patched(i) ==
    /\ i \in DOMAIN state.items /\ state.items[i].deletedAt = None
    /\ DOMAIN state'.items = DOMAIN state.items
    /\ \A j \in DOMAIN state.items : j # i => state'.items[j] = state.items[j]
    /\ state'.items[i].url = state.items[i].url
    /\ state'.items[i].deletedAt = None
    /\ DOMAIN state'.items[i] = DOMAIN state.items[i]
    /\ state'.itemsByCanonicalUrl = state.itemsByCanonicalUrl
    /\ state'.isDeleted = state.isDeleted
    /\ \/ state'.tags = recomputeTags(state'.items)
       \/ \E T : /\ state'.items[i].tags = state.items[i].tags \cup T
                 /\ state'.tags = state.tags \cup T

Created(e) ==
    /\ e.type = "ItemSaved"
    /\ ~Touches(state, e.url) /\ e.item \notin DOMAIN state.items
    /\ DOMAIN state'.items = DOMAIN state.items \cup {e.item}
    /\ \A j \in DOMAIN state.items : state'.items[j] = state.items[j]
    /\ state'.items[e.item] = [url |-> e.url, title |-> e.title,
                               state |-> "inbox", liked |-> FALSE,
                               tags |-> {}, savedAt |-> e.at, deletedAt |-> None]
    /\ state'.itemsByCanonicalUrl = Put(state.itemsByCanonicalUrl, e.url, e.item)
    /\ state'.tags = state.tags
    /\ state'.isDeleted = state.isDeleted

Deleted(e) ==
    /\ e.type = "ItemDeleted"
    /\ e.item \in DOMAIN state.items /\ state.items[e.item].deletedAt = None
    /\ DOMAIN state'.items = DOMAIN state.items
    /\ \A j \in DOMAIN state.items : j # e.item => state'.items[j] = state.items[j]
    /\ state'.items[e.item].url = state.items[e.item].url
    /\ state'.items[e.item].deletedAt = e.at
    /\ DOMAIN state'.items[e.item] = DOMAIN state.items[e.item]
    /\ state'.itemsByCanonicalUrl
            = Drop(state.itemsByCanonicalUrl, state.items[e.item].url)
    /\ state'.tags = recomputeTags(state'.items)
    /\ state'.isDeleted = state.isDeleted

\* A patch that names neither the URL nor the tags nor the deletion of an item
\* patches it, or keeps all if the item is not live.
LEMMA PatchStep ==
    ASSUME Shape, NEW i, NEW patch,
           DOMAIN patch \cap {"url", "tags", "deletedAt"} = {},
           state' = patchLiveItem(state, i, patch)
    PROVE  DOMAIN state' = DOMAIN state /\ (Kept \/ Patched(i))
<1>1. CASE ~IsLive(state.items, i)
  BY <1>1 DEF patchLiveItem, Kept
<1>2. CASE IsLive(state.items, i)
  <2>1. state' = [state EXCEPT !.items[i] = cloneItem(state.items[i], patch)]
    BY <1>2 DEF patchLiveItem
  <2>2. /\ DOMAIN state' = DOMAIN state
        /\ state'.items = [state.items EXCEPT ![i] = cloneItem(state.items[i], patch)]
        /\ state'.itemsByCanonicalUrl = state.itemsByCanonicalUrl
        /\ state'.tags = state.tags /\ state'.isDeleted = state.isDeleted
    BY <2>1 DEF Shape
  <2>3. /\ i \in DOMAIN state.items /\ state.items[i].deletedAt = None
        /\ {"url", "tags", "deletedAt"} \subseteq DOMAIN state.items[i]
    BY <1>2 DEF IsLive, Shape
  <2>4. /\ DOMAIN state'.items = DOMAIN state.items
        /\ \A j \in DOMAIN state.items : j # i => state'.items[j] = state.items[j]
        /\ state'.items[i] = cloneItem(state.items[i], patch)
    BY <2>2, <2>3
  <2>5. /\ DOMAIN state'.items[i] = DOMAIN state.items[i]
        /\ state'.items[i].url = state.items[i].url
        /\ state'.items[i].deletedAt = state.items[i].deletedAt
        /\ state'.items[i].tags = state.items[i].tags
    BY <2>3, <2>4 DEF cloneItem
  <2>6. state'.items[i].tags = state.items[i].tags \cup {}
        /\ state'.tags = state.tags \cup {}
    BY <2>2, <2>5
  <2> QED
    BY <2>2, <2>3, <2>4, <2>5, <2>6 DEF Patched
<1> QED
  BY <1>1, <1>2

LEMMA SavedStep ==
    ASSUME Shape, NEW e, e.type = "ItemSaved",
           state' = applyItemSaved(state, e)
    PROVE  DOMAIN state' = DOMAIN state /\ (Kept \/ (\E i : Patched(i)) \/ Created(e))
<1>1. CASE Touches(state, e.url)
  <2> DEFINE i == state.itemsByCanonicalUrl[e.url]
  <2>1. state' = [state EXCEPT !.items[i].savedAt = e.at, !.items[i].state = "inbox"]
    BY <1>1 DEF applyItemSaved, Touch
  <2>2. i \in DOMAIN state.items /\ state.items[i].deletedAt = None
        /\ {"url", "tags", "deletedAt"} \subseteq DOMAIN state.items[i]
    BY <1>1 DEF Touches, IsLive, Shape
  <2> HIDE DEF i
  <2>3. /\ DOMAIN state' = DOMAIN state
        /\ state'.items = [state.items EXCEPT ![i] =
                             [[@ EXCEPT !.savedAt = e.at] EXCEPT !.state = "inbox"]]
        /\ state'.itemsByCanonicalUrl = state.itemsByCanonicalUrl
        /\ state'.tags = state.tags /\ state'.isDeleted = state.isDeleted
    BY <2>1, <2>2 DEF Shape
  <2>4. /\ DOMAIN state'.items = DOMAIN state.items
        /\ \A j \in DOMAIN state.items : j # i => state'.items[j] = state.items[j]
        /\ state'.items[i] = [[state.items[i] EXCEPT !.savedAt = e.at] EXCEPT !.state = "inbox"]
    BY <2>2, <2>3
  <2>5. /\ DOMAIN state'.items[i] = DOMAIN state.items[i]
        /\ state'.items[i].url = state.items[i].url
        /\ state'.items[i].deletedAt = state.items[i].deletedAt
        /\ state'.items[i].tags = state.items[i].tags
    BY <2>2, <2>4
  <2>6. state'.items[i].tags = state.items[i].tags \cup {}
        /\ state'.tags = state.tags \cup {}
    BY <2>3, <2>5
  <2>7. Patched(i)
    BY <2>2, <2>3, <2>4, <2>5, <2>6 DEF Patched
  <2> QED
    BY <2>3, <2>7
<1>2. CASE ~Touches(state, e.url) /\ e.item \in DOMAIN state.items
  BY <1>2 DEF applyItemSaved, Kept
<1>3. CASE ~Touches(state, e.url) /\ e.item \notin DOMAIN state.items
  <2>1. state' = Create(state, e)
    BY <1>3 DEF applyItemSaved
  <2>2. /\ DOMAIN state' = DOMAIN state
        /\ state'.items = Put(state.items, e.item,
                              [url |-> e.url, title |-> e.title,
                               state |-> "inbox", liked |-> FALSE,
                               tags |-> {}, savedAt |-> e.at, deletedAt |-> None])
        /\ state'.itemsByCanonicalUrl = Put(state.itemsByCanonicalUrl, e.url, e.item)
        /\ state'.tags = state.tags /\ state'.isDeleted = state.isDeleted
    BY <2>1 DEF Create, Shape
  <2>3. Created(e)
    BY <1>3, <2>2 DEF Created, Put
  <2> QED
    BY <2>2, <2>3
<1> QED
  BY <1>1, <1>2, <1>3

LEMMA TaggedStep ==
    ASSUME Shape, NEW e, state' = applyItemTagged(state, e)
    PROVE  DOMAIN state' = DOMAIN state /\ (Kept \/ Patched(e.item))
<1>1. CASE ~(IsLive(state.items, e.item) /\ e.tag \notin state.items[e.item].tags)
  BY <1>1 DEF applyItemTagged, Kept
<1>2. CASE IsLive(state.items, e.item) /\ e.tag \notin state.items[e.item].tags
  <2> DEFINE i == e.item
             tags == state.items[i].tags \cup {e.tag}
  <2>1. state' = [[state EXCEPT !.items[i].tags = tags]
                     EXCEPT !.tags = @ \cup {e.tag}]
    BY <1>2 DEF applyItemTagged
  <2>2. i \in DOMAIN state.items /\ state.items[i].deletedAt = None
        /\ {"url", "tags", "deletedAt"} \subseteq DOMAIN state.items[i]
    BY <1>2 DEF IsLive, Shape
  <2>0. tags = state.items[i].tags \cup {e.tag}
    OBVIOUS
  <2> HIDE DEF i, tags
  <2>3. /\ DOMAIN state' = DOMAIN state
        /\ state'.items = [state.items EXCEPT ![i] = [@ EXCEPT !.tags = tags]]
        /\ state'.itemsByCanonicalUrl = state.itemsByCanonicalUrl
        /\ state'.tags = state.tags \cup {e.tag}
        /\ state'.isDeleted = state.isDeleted
    BY <2>1, <2>2 DEF Shape
  <2>4. /\ DOMAIN state'.items = DOMAIN state.items
        /\ \A j \in DOMAIN state.items : j # i => state'.items[j] = state.items[j]
        /\ state'.items[i] = [state.items[i] EXCEPT !.tags = tags]
    BY <2>2, <2>3
  <2>5. /\ DOMAIN state'.items[i] = DOMAIN state.items[i]
        /\ state'.items[i].url = state.items[i].url
        /\ state'.items[i].deletedAt = state.items[i].deletedAt
        /\ state'.items[i].tags = tags
    BY <2>2, <2>4
  <2>6. Patched(i)
    BY <2>0, <2>2, <2>3, <2>4, <2>5 DEF Patched
  <2> QED
    BY <2>3, <2>6 DEF i
<1> QED
  BY <1>1, <1>2

LEMMA UntaggedStep ==
    ASSUME Shape, NEW e, state' = applyItemUntagged(state, e)
    PROVE  DOMAIN state' = DOMAIN state /\ (Kept \/ Patched(e.item))
<1> DEFINE changes == IsLive(state.items, e.item) /\ e.tag \in state.items[e.item].tags
<1>1. CASE ~changes
  BY <1>1 DEF applyItemUntagged, Kept
<1>2. CASE changes
  <2> DEFINE items == [state.items EXCEPT ![e.item].tags = @ \ {e.tag}]
  <2>1. state' = [[state EXCEPT !.items = items] EXCEPT !.tags = recomputeTags(items)]
    BY <1>2 DEF applyItemUntagged, WithItems
  <2>2. e.item \in DOMAIN state.items /\ state.items[e.item].deletedAt = None
        /\ {"url", "tags", "deletedAt"} \subseteq DOMAIN state.items[e.item]
    BY <1>2 DEF IsLive, Shape
  <2>4. /\ DOMAIN items = DOMAIN state.items
        /\ \A j \in DOMAIN state.items : j # e.item => items[j] = state.items[j]
        /\ items[e.item] = [state.items[e.item] EXCEPT !.tags = @ \ {e.tag}]
    BY <2>2
  <2>5. /\ DOMAIN items[e.item] = DOMAIN state.items[e.item]
        /\ items[e.item].url = state.items[e.item].url
        /\ items[e.item].deletedAt = state.items[e.item].deletedAt
    BY <2>2, <2>4
  <2> HIDE DEF items
  <2>3. /\ DOMAIN state' = DOMAIN state /\ state'.items = items
        /\ state'.itemsByCanonicalUrl = state.itemsByCanonicalUrl
        /\ state'.tags = recomputeTags(items)
        /\ state'.isDeleted = state.isDeleted
    BY <2>1 DEF Shape
  <2> QED
    BY <2>2, <2>3, <2>4, <2>5 DEF Patched
<1> QED
  BY <1>1, <1>2

LEMMA DeletedStep ==
    ASSUME Shape, NEW e, e.type = "ItemDeleted", state' = applyItemDeleted(state, e)
    PROVE  /\ DOMAIN state' = DOMAIN state
           /\ Deleted(e) \/ (Kept /\ ~IsLive(state.items, e.item))
<1>1. CASE ~IsLive(state.items, e.item)
  BY <1>1 DEF applyItemDeleted, Kept
<1>2. CASE IsLive(state.items, e.item)
  <2> DEFINE items == [state.items EXCEPT ![e.item].deletedAt = e.at]
             byUrl == Drop(state.itemsByCanonicalUrl, state.items[e.item].url)
  <2>1. state' = [WithItems(state, items) EXCEPT !.itemsByCanonicalUrl =
                    Drop(@, state.items[e.item].url)]
    BY <1>2 DEF applyItemDeleted
  <2>2. e.item \in DOMAIN state.items /\ state.items[e.item].deletedAt = None
        /\ {"url", "tags", "deletedAt"} \subseteq DOMAIN state.items[e.item]
    BY <1>2 DEF IsLive, Shape
  <2>4. /\ DOMAIN items = DOMAIN state.items
        /\ \A j \in DOMAIN state.items : j # e.item => items[j] = state.items[j]
        /\ items[e.item] = [state.items[e.item] EXCEPT !.deletedAt = e.at]
    BY <2>2
  <2>5. /\ DOMAIN items[e.item] = DOMAIN state.items[e.item]
        /\ items[e.item].url = state.items[e.item].url
        /\ items[e.item].deletedAt = e.at
    BY <2>2, <2>4
  <2> HIDE DEF items
  <2>3. /\ DOMAIN state' = DOMAIN state /\ state'.items = items
        /\ state'.itemsByCanonicalUrl = byUrl
        /\ state'.tags = recomputeTags(items)
        /\ state'.isDeleted = state.isDeleted
    BY <2>1 DEF Shape, WithItems
  <2> QED
    BY <2>2, <2>3, <2>4, <2>5 DEF Deleted
<1> QED
  BY <1>1, <1>2

LEMMA OtherStep ==
    ASSUME Shape, NEW e, e.type \in {"DeviceRegistered", "DeviceRevoked", "VaultDeletionScheduled",
                         "VaultDeletionCancelled", "VaultDeleted"},
           state' = reduce(state, e)
    PROVE  DOMAIN state' = DOMAIN state /\ Kept
<1>1. CASE e.type = "DeviceRegistered"
  <2>1. state' = applyDeviceRegistered(state, e)
    BY <1>1 DEF reduce
  <2> QED
    BY <2>1 DEF applyDeviceRegistered, Kept, Shape
<1>2. CASE e.type = "DeviceRevoked"
  <2>1. state' = applyDeviceRevoked(state, e)
    BY <1>2 DEF reduce
  <2> QED
    BY <2>1 DEF applyDeviceRevoked, Kept, Shape
<1>3. CASE e.type = "VaultDeletionScheduled"
  <2>1. state' = applyVaultDeletionScheduled(state, e)
    BY <1>3 DEF reduce
  <2> QED
    BY <2>1 DEF applyVaultDeletionScheduled, Kept, Shape
<1>4. CASE e.type = "VaultDeletionCancelled"
  <2>1. state' = applyVaultDeletionCancelled(state)
    BY <1>4 DEF reduce
  <2> QED
    BY <2>1 DEF applyVaultDeletionCancelled, Kept, Shape
<1>5. CASE e.type = "VaultDeleted"
  <2>1. state' = applyVaultDeleted(state)
    BY <1>5 DEF reduce
  <2> QED
    BY <2>1 DEF applyVaultDeleted, Kept, Shape
<1> QED
  BY <1>1, <1>2, <1>3, <1>4, <1>5

\* Every step is of one of the kinds.
LEMMA Steps ==
    ASSUME Shape, NEW e \in Events, Apply(e)
    PROVE  /\ DOMAIN state' = DOMAIN state
           /\ Kept \/ (\E i : Patched(i)) \/ Created(e) \/ Deleted(e)
<1>1. CASE state.isDeleted
  BY <1>1 DEF Apply, apply, Kept
<1>2. CASE ~state.isDeleted
  <2>0. state' = reduce(state, e) /\ e.type \in EventType
    BY <1>2, EventsAssumption DEF Apply, apply
  <2>1. CASE e.type = "ItemSaved"
    BY <2>0, <2>1, SavedStep DEF reduce
  <2>2. CASE e.type \in {"ItemArchived", "ItemUnarchived"}
    <3>1. \E v : state' = patchLiveItem(state, e.item, [state |-> v])
      BY <2>0, <2>2 DEF reduce
    <3>2. PICK v : state' = patchLiveItem(state, e.item, [state |-> v])
      BY <3>1
    <3>3. DOMAIN [state |-> v] \cap {"url", "tags", "deletedAt"} = {}
      OBVIOUS
    <3> QED
      BY <3>2, <3>3, PatchStep
  <2>3. CASE e.type \in {"ItemLiked", "ItemUnliked"}
    <3>1. \E v : state' = patchLiveItem(state, e.item, [liked |-> v])
      BY <2>0, <2>3 DEF reduce
    <3>2. PICK v : state' = patchLiveItem(state, e.item, [liked |-> v])
      BY <3>1
    <3>3. DOMAIN [liked |-> v] \cap {"url", "tags", "deletedAt"} = {}
      OBVIOUS
    <3> QED
      BY <3>2, <3>3, PatchStep
  <2>4. CASE e.type = "ItemTitleEdited"
    <3>1. state' = patchLiveItem(state, e.item, [title |-> e.title])
      BY <2>0, <2>4 DEF reduce
    <3>2. DOMAIN [title |-> e.title] \cap {"url", "tags", "deletedAt"} = {}
      OBVIOUS
    <3> QED
      BY <3>1, <3>2, PatchStep
  <2>5. CASE e.type = "ItemTagged"
    <3>1. state' = applyItemTagged(state, e)
      BY <2>0, <2>5 DEF reduce
    <3> QED
      BY <3>1, TaggedStep
  <2>6. CASE e.type = "ItemUntagged"
    <3>1. state' = applyItemUntagged(state, e)
      BY <2>0, <2>6 DEF reduce
    <3> QED
      BY <3>1, UntaggedStep
  <2>7. CASE e.type = "ItemDeleted"
    <3>1. state' = applyItemDeleted(state, e)
      BY <2>0, <2>7 DEF reduce
    <3> QED
      BY <2>7, <3>1, DeletedStep
  <2>8. CASE e.type \in {"DeviceRegistered", "DeviceRevoked", "VaultDeletionScheduled",
                         "VaultDeletionCancelled", "VaultDeleted"}
    BY <2>0, <2>8, OtherStep
  <2> QED
    BY <2>0, <2>1, <2>2, <2>3, <2>4, <2>5, <2>6, <2>7, <2>8 DEF EventType
<1> QED
  BY <1>1, <1>2

-----------------------------------------------------------------------------
(* What an event keeps of the state *)

LEMMA KeepsShape ==
    ASSUME Shape, NEW e \in Events, Apply(e) PROVE Shape'
<1>1. DOMAIN state' = DOMAIN state
  BY Steps
<1>2. CASE Kept
  BY <1>1, <1>2 DEF Kept, Shape
<1>3. ASSUME NEW i, Patched(i) PROVE Shape'
  BY <1>1, <1>3 DEF Patched, Shape
<1>4. CASE Created(e)
  BY <1>1, <1>4 DEF Created, Shape
<1>5. CASE Deleted(e)
  BY <1>1, <1>5 DEF Deleted, Shape
<1> QED
  BY <1>2, <1>3, <1>4, <1>5, Steps

LEMMA KeepsSaves ==
    ASSUME Shape, SavesInv, NEW e \in Events, Apply(e) PROVE SavesInv'
<1>1. /\ saved \subseteq saved' /\ saved' \subseteq {f \in Events : f.type = "ItemSaved"}
      /\ e.type = "ItemSaved" => e \in saved'
  BY DEF Apply, SavesInv
<1>2. CASE Kept
  BY <1>1, <1>2 DEF Kept, SavesInv, WasSaved
<1>3. ASSUME NEW i, Patched(i) PROVE SavesInv'
  <2>1. \A j \in DOMAIN state'.items :
          j \in DOMAIN state.items /\ state'.items[j].url = state.items[j].url
    BY <1>3 DEF Patched
  <2> QED
    BY <1>1, <2>1 DEF SavesInv, WasSaved
<1>4. CASE Created(e)
  <2> SUFFICES ASSUME NEW j \in DOMAIN state'.items
               PROVE  \E f \in saved' : f.item = j /\ f.url = state'.items[j].url
    BY <1>1 DEF SavesInv, WasSaved
  <2>1. CASE j = e.item
    <3>1. state'.items[j].url = e.url
      BY <1>4, <2>1 DEF Created
    <3> QED
      BY <1>1, <1>4, <2>1, <3>1 DEF Created
  <2>2. CASE j # e.item
    <3>1. j \in DOMAIN state.items /\ state'.items[j] = state.items[j]
      BY <1>4, <2>2 DEF Created
    <3> QED
      BY <1>1, <3>1 DEF SavesInv, WasSaved
  <2> QED
    BY <2>1, <2>2
<1>5. CASE Deleted(e)
  <2>1. \A j \in DOMAIN state'.items :
          j \in DOMAIN state.items /\ state'.items[j].url = state.items[j].url
    BY <1>5 DEF Deleted
  <2> QED
    BY <1>1, <2>1 DEF SavesInv, WasSaved
<1> QED
  BY <1>2, <1>3, <1>4, <1>5, Steps

\* A created item takes a URL that no live item has; a deleted one gives up its
\* own, which no other live item has.
LEMMA KeepsUrls ==
    ASSUME Shape, UrlIndexExact, NEW e \in Events, Apply(e) PROVE UrlIndexExact'
<1>0. /\ \A i \in DOMAIN state.items : state.items[i].deletedAt = None =>
            /\ state.items[i].url \in DOMAIN state.itemsByCanonicalUrl
            /\ state.itemsByCanonicalUrl[state.items[i].url] = i
      /\ \A u \in DOMAIN state.itemsByCanonicalUrl :
            /\ state.itemsByCanonicalUrl[u] \in DOMAIN state.items
            /\ state.items[state.itemsByCanonicalUrl[u]].deletedAt = None
            /\ state.items[state.itemsByCanonicalUrl[u]].url = u
  BY DEF UrlIndexExact, IsLive
<1>1. SUFFICES
        /\ \A i \in DOMAIN state'.items : state'.items[i].deletedAt = None =>
            /\ state'.items[i].url \in DOMAIN state'.itemsByCanonicalUrl
            /\ state'.itemsByCanonicalUrl[state'.items[i].url] = i
        /\ \A u \in DOMAIN state'.itemsByCanonicalUrl :
            /\ state'.itemsByCanonicalUrl[u] \in DOMAIN state'.items
            /\ state'.items[state'.itemsByCanonicalUrl[u]].deletedAt = None
            /\ state'.items[state'.itemsByCanonicalUrl[u]].url = u
  BY DEF UrlIndexExact, IsLive
<1>2. CASE Kept
  BY <1>0, <1>2 DEF Kept
<1>3. CASE \E i : Patched(i)
  BY <1>0, <1>3 DEF Patched
<1>4. CASE Created(e)
  <2>1. e.url \notin DOMAIN state.itemsByCanonicalUrl
    BY <1>0, <1>4 DEF Created, Touches, IsLive
  <2>2. /\ DOMAIN state'.itemsByCanonicalUrl = DOMAIN state.itemsByCanonicalUrl \cup {e.url}
        /\ state'.itemsByCanonicalUrl[e.url] = e.item
        /\ \A u \in DOMAIN state.itemsByCanonicalUrl :
              state'.itemsByCanonicalUrl[u] = state.itemsByCanonicalUrl[u]
    BY <1>4, <2>1 DEF Created, Put
  <2>3. state'.items[e.item].url = e.url /\ state'.items[e.item].deletedAt = None
    BY <1>4 DEF Created
  <2>4. /\ e.item \notin DOMAIN state.items
        /\ DOMAIN state'.items = DOMAIN state.items \cup {e.item}
        /\ \A j \in DOMAIN state.items : state'.items[j] = state.items[j]
    BY <1>4 DEF Created
  <2> QED
    BY <1>0, <2>1, <2>2, <2>3, <2>4
<1>5. CASE Deleted(e)
  <2>1. e.at # None
    BY <1>5, EventsAssumption DEF Deleted
  <2>2. /\ DOMAIN state'.itemsByCanonicalUrl
               = DOMAIN state.itemsByCanonicalUrl \ {state.items[e.item].url}
        /\ \A u \in DOMAIN state'.itemsByCanonicalUrl :
              state'.itemsByCanonicalUrl[u] = state.itemsByCanonicalUrl[u]
    BY <1>5 DEF Deleted, Drop
  <2>3. /\ e.item \in DOMAIN state.items /\ state.items[e.item].deletedAt = None
        /\ DOMAIN state'.items = DOMAIN state.items
        /\ \A j \in DOMAIN state.items : j # e.item => state'.items[j] = state.items[j]
        /\ state'.items[e.item].deletedAt = e.at
    BY <1>5 DEF Deleted
  <2>4. \A j \in DOMAIN state'.items : state'.items[j].deletedAt = None =>
          j # e.item /\ state.items[j].deletedAt = None /\ state'.items[j] = state.items[j]
    BY <2>1, <2>3
  <2>5. \A j \in DOMAIN state'.items : state'.items[j].deletedAt = None =>
          state.items[j].url # state.items[e.item].url
    BY <1>0, <2>3, <2>4
  <2>6. \A u \in DOMAIN state'.itemsByCanonicalUrl :
          state'.itemsByCanonicalUrl[u] # e.item
    BY <1>0, <2>2, <2>3
  <2> QED
    BY <1>0, <2>2, <2>3, <2>4, <2>5, <2>6
<1> QED
  BY <1>2, <1>3, <1>4, <1>5, Steps

LEMMA KeepsTags ==
    ASSUME Shape, TagsExact, NEW e \in Events, Apply(e) PROVE TagsExact'
<1>1. \A x : x \in state.tags <=>
        \E i \in DOMAIN state.items :
            state.items[i].deletedAt = None /\ x \in state.items[i].tags
  BY DEF TagsExact, recomputeTags
<1>2. SUFFICES ASSUME state'.tags # recomputeTags(state'.items)
               PROVE  FALSE
  BY DEF TagsExact
<1>3. CASE Kept
  BY <1>2, <1>3 DEF Kept, TagsExact
<1>4. ASSUME NEW i, Patched(i) PROVE FALSE
  <2>1. PICK T : /\ state'.items[i].tags = state.items[i].tags \cup T
                 /\ state'.tags = state.tags \cup T
    BY <1>2, <1>4 DEF Patched
  <2>2. /\ i \in DOMAIN state.items /\ state.items[i].deletedAt = None
        /\ DOMAIN state'.items = DOMAIN state.items /\ state'.items[i].deletedAt = None
        /\ \A j \in DOMAIN state.items : j # i => state'.items[j] = state.items[j]
    BY <1>4 DEF Patched
  <2>3. \A x : x \in recomputeTags(state'.items) <=>
          \E j \in DOMAIN state'.items :
              state'.items[j].deletedAt = None /\ x \in state'.items[j].tags
    BY DEF recomputeTags
  <2>4. \A x : x \in state'.tags => x \in recomputeTags(state'.items)
    BY <1>1, <2>1, <2>2, <2>3
  <2>5. \A x : x \in recomputeTags(state'.items) => x \in state'.tags
    BY <1>1, <2>1, <2>2, <2>3
  <2> QED
    BY <1>2, <2>4, <2>5
<1>5. CASE Created(e)
  <2>1. /\ e.item \notin DOMAIN state.items
        /\ DOMAIN state'.items = DOMAIN state.items \cup {e.item}
        /\ \A j \in DOMAIN state.items : state'.items[j] = state.items[j]
        /\ state'.items[e.item].tags = {}
        /\ state'.tags = state.tags
    BY <1>5 DEF Created
  <2>2. \A x : x \in recomputeTags(state'.items) <=>
          \E j \in DOMAIN state'.items :
              state'.items[j].deletedAt = None /\ x \in state'.items[j].tags
    BY DEF recomputeTags
  <2>3. \A x : x \in state'.tags <=> x \in recomputeTags(state'.items)
    BY <1>1, <2>1, <2>2
  <2> QED
    BY <1>2, <2>3
<1>6. CASE Deleted(e)
  BY <1>2, <1>6 DEF Deleted
<1> QED
  BY <1>3, <1>4, <1>5, <1>6, Steps

-----------------------------------------------------------------------------
(* The reverse map of the search index *)

NoEmptyHits(reverse) == \A t \in DOMAIN reverse : reverse[t] # {}

\* Item i is hit by token t.
Hits(reverse, t, i) == i \in At(reverse, t, {})

\* Removing takes item i from the given tokens and changes nothing else.
LEMMA RemoveHits ==
    ASSUME NEW reverse, NEW tokens, NEW i, NoEmptyHits(reverse)
    PROVE  /\ NoEmptyHits(removeFromReverse(reverse, tokens, i))
           /\ \A t, j : Hits(removeFromReverse(reverse, tokens, i), t, j)
                          <=> Hits(reverse, t, j) /\ ~(t \in tokens /\ j = i)
<1> DEFINE left == [t \in DOMAIN reverse |->
                       IF t \in tokens THEN reverse[t] \ {i} ELSE reverse[t]]
           kept == {r \in DOMAIN left : left[r] # {}}
           new == [t \in kept |-> left[t]]
<1>1. removeFromReverse(reverse, tokens, i) = new
  BY DEF removeFromReverse
<1>2. /\ DOMAIN left = DOMAIN reverse
      /\ \A t \in DOMAIN reverse : \A j : j \in left[t]
                                       <=> j \in reverse[t] /\ ~(t \in tokens /\ j = i)
  OBVIOUS
<1>3. /\ DOMAIN new = kept
      /\ \A t \in kept : new[t] = left[t] /\ left[t] # {} /\ t \in DOMAIN reverse
      /\ \A t \in DOMAIN reverse : \A j : j \in left[t] => t \in kept
  BY <1>2
<1> HIDE DEF left, kept, new
<1>4. NoEmptyHits(new)
  BY <1>3 DEF NoEmptyHits
<1>5. \A t, j : Hits(new, t, j) <=> t \in kept /\ j \in left[t]
  BY <1>3 DEF Hits, At
<1>6. \A t, j : Hits(reverse, t, j) <=> t \in DOMAIN reverse /\ j \in reverse[t]
  BY DEF Hits, At
<1> QED
  BY <1>1, <1>2, <1>3, <1>4, <1>5, <1>6

\* Adding puts item i under the given tokens and changes nothing else.
LEMMA AddHits ==
    ASSUME NEW reverse, NEW tokens, NEW i, NoEmptyHits(reverse)
    PROVE  /\ NoEmptyHits(addToReverse(reverse, tokens, i))
           /\ \A t, j : Hits(addToReverse(reverse, tokens, i), t, j)
                          <=> Hits(reverse, t, j) \/ (t \in tokens /\ j = i)
<1> DEFINE new == [t \in DOMAIN reverse \cup tokens |->
                      At(reverse, t, {}) \cup (IF t \in tokens THEN {i} ELSE {})]
<1>1. addToReverse(reverse, tokens, i) = new
  BY DEF addToReverse
<1>2. /\ DOMAIN new = DOMAIN reverse \cup tokens
      /\ \A t \in DOMAIN new : \A j : j \in new[t]
                              <=> Hits(reverse, t, j) \/ (t \in tokens /\ j = i)
  BY DEF Hits
<1> HIDE DEF new
<1>3. \A t, j : Hits(reverse, t, j) <=> t \in DOMAIN reverse /\ j \in reverse[t]
  BY DEF Hits, At
<1>4. \A t \in DOMAIN reverse : \E j : Hits(reverse, t, j)
  BY <1>3 DEF NoEmptyHits
<1>5. \A t \in DOMAIN new : \E j : j \in new[t]
  BY <1>2, <1>4
<1>6. NoEmptyHits(new)
  BY <1>5 DEF NoEmptyHits
<1>7. \A t, j : Hits(new, t, j) <=> t \in DOMAIN new /\ j \in new[t]
  BY DEF Hits, At
<1>8. \A t, j : Hits(new, t, j) <=> Hits(reverse, t, j) \/ (t \in tokens /\ j = i)
  BY <1>2, <1>3, <1>7
<1> QED
  BY <1>1, <1>6, <1>8

\* The reverse map is exact when it hits just what the items' tokens say.
HitsExact ==
    /\ NoEmptyHits(index.itemsByToken)
    /\ \A t, i : Hits(index.itemsByToken, t, i)
                  <=> i \in DOMAIN index.tokensByItem /\ t \in index.tokensByItem[i]

LEMMA ReverseByHits == HitsExact => ReverseExact
<1>1. \A t, j : Hits(index.itemsByToken, t, j)
                   <=> t \in DOMAIN index.itemsByToken /\ j \in index.itemsByToken[t]
  BY DEF Hits, At
<1>2. \A t, j : Hits(index.itemsByToken, t, j) <=> j \in search(index, t)
  BY DEF Hits, search
<1> QED
  BY <1>1, <1>2 DEF ReverseExact, NoEmptyHits, HitsExact

\* Setting an item's title and URL gives it their tokens and no other.
LEMMA SetKeepsReverse ==
    ASSUME HitsExact, NEW item, NEW title, NEW url,
           index' = setItem(index, item, title, url)
    PROVE  HitsExact'
<1> DEFINE new == tokenize({title, url})
           old == At(index.tokensByItem, item, {})
           removed == removeFromReverse(index.itemsByToken, old \ new, item)
           added == addToReverse(removed, new \ old, item)
<1>1. /\ index'.tokensByItem = Put(index.tokensByItem, item, new)
      /\ index'.itemsByToken = added
  BY DEF setItem
<1>2. \A t : t \in old <=> item \in DOMAIN index.tokensByItem
                            /\ t \in index.tokensByItem[item]
  BY DEF At
<1> HIDE DEF new, old
<1>3. /\ NoEmptyHits(index.itemsByToken)
      /\ \A t, i : Hits(index.itemsByToken, t, i)
                      <=> i \in DOMAIN index.tokensByItem /\ t \in index.tokensByItem[i]
  BY DEF HitsExact
<1>4. /\ NoEmptyHits(removed)
      /\ \A t, i : Hits(removed, t, i)
                      <=> Hits(index.itemsByToken, t, i) /\ ~(t \in old \ new /\ i = item)
  BY <1>3, RemoveHits
<1> HIDE DEF removed
<1>5. /\ NoEmptyHits(added)
      /\ \A t, i : Hits(added, t, i)
                      <=> Hits(removed, t, i) \/ (t \in new \ old /\ i = item)
  BY <1>4, AddHits
<1> HIDE DEF added
<1>6. \A t, i : i \in DOMAIN index'.tokensByItem /\ t \in index'.tokensByItem[i]
                 <=> \/ i = item /\ t \in new
                     \/ /\ i # item /\ i \in DOMAIN index.tokensByItem
                        /\ t \in index.tokensByItem[i]
  BY <1>1 DEF Put
<1>7. \A t, i : Hits(added, t, i)
                  <=> i \in DOMAIN index'.tokensByItem /\ t \in index'.tokensByItem[i]
  BY <1>2, <1>3, <1>4, <1>5, <1>6
<1> QED
  BY <1>1, <1>5, <1>7 DEF HitsExact

\* Removing an item removes it under every token it has.
LEMMA RemoveKeepsReverse ==
    ASSUME HitsExact, NEW item, index' = removeItem(index, item)
    PROVE  HitsExact'
<1> DEFINE old == At(index.tokensByItem, item, {})
           removed == removeFromReverse(index.itemsByToken, old, item)
<1>1. /\ index'.tokensByItem = Drop(index.tokensByItem, item)
      /\ index'.itemsByToken = removed
  BY DEF removeItem
<1>2. \A t : t \in old <=> item \in DOMAIN index.tokensByItem
                            /\ t \in index.tokensByItem[item]
  BY DEF At
<1> HIDE DEF old
<1>3. /\ NoEmptyHits(index.itemsByToken)
      /\ \A t, i : Hits(index.itemsByToken, t, i)
                      <=> i \in DOMAIN index.tokensByItem /\ t \in index.tokensByItem[i]
  BY DEF HitsExact
<1>4. /\ NoEmptyHits(removed)
      /\ \A t, i : Hits(removed, t, i)
                      <=> Hits(index.itemsByToken, t, i) /\ ~(t \in old /\ i = item)
  BY <1>3, RemoveHits
<1> HIDE DEF removed
<1>5. \A t, i : i \in DOMAIN index'.tokensByItem /\ t \in index'.tokensByItem[i]
                 <=> /\ i # item /\ i \in DOMAIN index.tokensByItem
                     /\ t \in index.tokensByItem[i]
  BY <1>1 DEF Drop
<1>6. \A t, i : Hits(removed, t, i)
                  <=> i \in DOMAIN index'.tokensByItem /\ t \in index'.tokensByItem[i]
  BY <1>2, <1>3, <1>4, <1>5
<1> QED
  BY <1>1, <1>4, <1>6 DEF HitsExact

LEMMA KeepsReverse ==
    ASSUME HitsExact, NEW e \in Events, Apply(e) PROVE HitsExact'
<1>0. index' = applyToIndex(index, e)
  BY DEF Apply
<1>1. CASE e.type = "ItemSaved"
  <2>1. index' = setItem(index, e.item, e.title, e.url)
    BY <1>0, <1>1 DEF applyToIndex
  <2> QED
    BY <2>1, SetKeepsReverse
<1>2. CASE e.type = "ItemTitleEdited"
  <2>1. index' = setItem(index, e.item, e.title, At(index.urlByItem, e.item, ""))
    BY <1>0, <1>2 DEF applyToIndex
  <2> QED
    BY <2>1, SetKeepsReverse
<1>3. CASE e.type = "ItemDeleted"
  <2>1. index' = removeItem(index, e.item)
    BY <1>0, <1>3 DEF applyToIndex
  <2> QED
    BY <2>1, RemoveKeepsReverse
<1>4. CASE e.type \notin {"ItemSaved", "ItemTitleEdited", "ItemDeleted"}
  BY <1>0, <1>4 DEF applyToIndex, HitsExact
<1> QED
  BY <1>1, <1>2, <1>3, <1>4

\* A live item keeps its URL in the index: a repeated save is the save that
\* created the item, and an edit takes the URL from the index.
LEMMA KeepsIndex ==
    ASSUME Shape, SavesInv, IndexInv, NEW e \in Events, Apply(e)
    PROVE  IndexInv'
<1>0. index' = applyToIndex(index, e) /\ state' = apply(state, e)
  BY DEF Apply
<1>1. SUFFICES ASSUME NEW i \in DOMAIN state'.items,
                      state'.items[i].deletedAt = None, ~state'.isDeleted
               PROVE  /\ i \in DOMAIN index'.urlByItem
                      /\ index'.urlByItem[i] = state'.items[i].url
                      /\ i \in DOMAIN index'.tokensByItem
                      /\ state'.items[i].url \in index'.tokensByItem[i]
  BY DEF IndexInv, IsLive
<1>2. ~state.isDeleted
  BY <1>0, <1>1 DEF apply
<1>3. SavesInv'
  BY KeepsSaves
<1>4. PICK f \in saved' : f.item = i /\ f.url = state'.items[i].url
  BY <1>3 DEF SavesInv, WasSaved
<1>5. f \in Events /\ f.type = "ItemSaved" /\ f.url # ""
  BY <1>3, <1>4, EventsAssumption DEF SavesInv
<1>6. CASE e.type = "ItemSaved" /\ e.item = i
  <2>1. e = f
    BY <1>4, <1>5, <1>6, EventsAssumption
  <2>2. index' = setItem(index, i, e.title, f.url)
    BY <1>0, <1>6, <2>1 DEF applyToIndex
  <2>3. /\ index'.urlByItem = Put(index.urlByItem, i, f.url)
        /\ index'.tokensByItem = Put(index.tokensByItem, i, tokenize({e.title, f.url}))
    BY <2>2 DEF setItem
  <2>4. f.url \in tokenize({e.title, f.url})
    BY <1>5 DEF tokenize
  <2> QED
    BY <1>4, <2>3, <2>4 DEF Put
<1>7. CASE ~(e.type = "ItemSaved" /\ e.item = i)
  <2>1. /\ i \in DOMAIN state.items /\ state.items[i].deletedAt = None
        /\ state'.items[i].url = state.items[i].url
        /\ ~(e.type = "ItemDeleted" /\ e.item = i)
    <3>1. CASE e.type = "ItemDeleted"
      <4>1. state' = applyItemDeleted(state, e)
        BY <1>0, <1>2, <3>1 DEF apply, reduce
      <4>2. e.at # None
        BY <3>1, EventsAssumption
      <4>3. Deleted(e) \/ (Kept /\ ~IsLive(state.items, e.item))
        BY <3>1, <4>1, DeletedStep
      <4> QED
        BY <1>1, <4>2, <4>3 DEF Deleted, Kept, IsLive
    <3>2. CASE e.type # "ItemDeleted"
      <4>1. Kept \/ (\E j : Patched(j)) \/ Created(e)
        BY <3>2, Steps DEF Deleted
      <4>2. ASSUME NEW j, Patched(j)
            PROVE  i \in DOMAIN state.items /\ state.items[i].deletedAt = None
                   /\ state'.items[i].url = state.items[i].url
        BY <1>1, <4>2 DEF Patched
      <4> QED
        BY <1>1, <1>7, <3>2, <4>1, <4>2 DEF Kept, Created
    <3> QED
      BY <3>1, <3>2
  <2>2. /\ i \in DOMAIN index.urlByItem /\ index.urlByItem[i] = f.url
        /\ i \in DOMAIN index.tokensByItem /\ f.url \in index.tokensByItem[i]
    BY <1>2, <1>4, <2>1 DEF IndexInv, IsLive
  <2>3. CASE e.type = "ItemSaved"
    <3>1. index' = setItem(index, e.item, e.title, e.url)
      BY <1>0, <2>3 DEF applyToIndex
    <3> QED
      BY <1>4, <1>7, <2>2, <2>3, <3>1 DEF setItem, Put
  <2>4. CASE e.type = "ItemTitleEdited"
    <3>1. index' = setItem(index, e.item, e.title, At(index.urlByItem, e.item, ""))
      BY <1>0, <2>4 DEF applyToIndex
    <3>2. CASE e.item = i
      <4>1. index' = setItem(index, i, e.title, f.url)
        BY <2>2, <3>1, <3>2 DEF At
      <4>2. f.url \in tokenize({e.title, f.url})
        BY <1>5 DEF tokenize
      <4> QED
        BY <1>4, <4>1, <4>2 DEF setItem, Put
    <3>3. CASE e.item # i
      BY <1>4, <2>2, <3>1, <3>3 DEF setItem, Put
    <3> QED
      BY <3>2, <3>3
  <2>5. CASE e.type = "ItemDeleted"
    <3>1. index' = removeItem(index, e.item)
      BY <1>0, <2>5 DEF applyToIndex
    <3> QED
      BY <1>4, <2>1, <2>2, <2>5, <3>1 DEF removeItem, Drop
  <2>6. CASE e.type \notin {"ItemSaved", "ItemTitleEdited", "ItemDeleted"}
    BY <1>0, <1>4, <2>2, <2>6 DEF applyToIndex
  <2> QED
    BY <2>3, <2>4, <2>5, <2>6
<1> QED
  BY <1>6, <1>7

-----------------------------------------------------------------------------
(* Theorems *)

\* All that is inductive, together.
ProjectionInv ==
    Shape /\ SavesInv /\ UrlIndexExact /\ TagsExact /\ HitsExact /\ IndexInv

LEMMA InitInv == Init => ProjectionInv
<1> SUFFICES ASSUME Init PROVE ProjectionInv
  OBVIOUS
<1>1. /\ DOMAIN state = {"items", "itemsByCanonicalUrl", "tags", "devices",
                         "scheduledDeletion", "isDeleted"}
      /\ DOMAIN state.items = {} /\ DOMAIN state.itemsByCanonicalUrl = {}
      /\ state.tags = {}
  BY DEF Init, initialVaultState
<1>2. Shape /\ SavesInv /\ UrlIndexExact /\ IndexInv
  BY <1>1 DEF Shape, SavesInv, WasSaved, UrlIndexExact, IndexInv, Init, IsLive
<1>3. TagsExact
  BY <1>1 DEF TagsExact, recomputeTags
<1>4. DOMAIN index.itemsByToken = {} /\ DOMAIN index.tokensByItem = {}
  BY DEF Init, emptyIndex
<1>5. HitsExact
  BY <1>4 DEF HitsExact, NoEmptyHits, Hits, At
<1> QED
  BY <1>2, <1>3, <1>5 DEF ProjectionInv

LEMMA NextInv == ProjectionInv /\ [Next]_vars => ProjectionInv'
<1> SUFFICES ASSUME ProjectionInv, [Next]_vars PROVE ProjectionInv'
  OBVIOUS
<1>1. ASSUME NEW e \in Events, Apply(e) PROVE ProjectionInv'
  <2>1. Shape /\ SavesInv /\ UrlIndexExact /\ TagsExact /\ HitsExact /\ IndexInv
    BY DEF ProjectionInv
  <2>2. Shape' /\ SavesInv' /\ UrlIndexExact'
    BY <1>1, <2>1, KeepsShape, KeepsSaves, KeepsUrls
  <2>3. TagsExact' /\ HitsExact' /\ IndexInv'
    BY <1>1, <2>1, KeepsTags, KeepsReverse, KeepsIndex
  <2> QED
    BY <2>2, <2>3 DEF ProjectionInv
<1>2. CASE UNCHANGED vars
  BY <1>2 DEF vars, ProjectionInv, Shape, SavesInv, WasSaved, UrlIndexExact,
              TagsExact, HitsExact, IndexInv
<1> QED
  BY <1>1, <1>2 DEF Next

LEMMA InvHolds == Spec => []ProjectionInv
BY InitInv, NextInv, PTL DEF Spec

\* The URL map names exactly the live items, whatever order the events come in
\* and however often (itemsByCanonicalUrl of projection/state.ts).
THEOREM UrlsExact == Spec => []UrlIndexExact
<1>1. ProjectionInv => UrlIndexExact
  BY DEF ProjectionInv
<1> QED
  BY <1>1, InvHolds, PTL

\* The tag set that is kept incrementally is the one recomputeTags computes.
THEOREM TagSetExact == Spec => []TagsExact
<1>1. ProjectionInv => TagsExact
  BY DEF ProjectionInv
<1> QED
  BY <1>1, InvHolds, PTL

\* The reverse map of the search index is the inverse of the items' tokens.
THEOREM ReverseMapExact == Spec => []ReverseExact
<1>1. ProjectionInv => HitsExact
  BY DEF ProjectionInv
<1> QED
  BY <1>1, ReverseByHits, InvHolds, PTL

\* A live item of a live vault is found by its URL: the projection and the
\* search index, which are fed separately, agree on it.
THEOREM LiveFound == Spec => []LiveIsFound
<1>1. ProjectionInv => LiveIsFound
  <2> SUFFICES ASSUME ProjectionInv, NEW i \in DOMAIN state.items,
                      IsLive(state.items, i), ~state.isDeleted
               PROVE  i \in search(index, state.items[i].url)
    BY DEF LiveIsFound
  <2>1. i \in DOMAIN index.tokensByItem /\ state.items[i].url \in index.tokensByItem[i]
    BY DEF ProjectionInv, IndexInv
  <2>2. Hits(index.itemsByToken, state.items[i].url, i)
    BY <2>1 DEF ProjectionInv, HitsExact
  <2> QED
    BY <2>2 DEF Hits, search
<1> QED
  BY <1>1, InvHolds, PTL

\* The first application of a save shows its URL in the inbox: it touches a
\* live item, because the URL map names no other, or it creates one, because
\* its item id is new.
THEOREM SavesVisible == Spec => SaveIsVisible
<1> DEFINE Shows(e) == \E i \in DOMAIN state'.items :
                          /\ IsLive(state'.items, i)
                          /\ state'.items[i].url = e.url
                          /\ state'.items[i].state = "inbox"
                          /\ state'.items[i].savedAt = e.at
           Visible == \A e \in saved' \ saved : ~state.isDeleted => Shows(e)
<1>1. ASSUME ProjectionInv, NEW e \in Events, Apply(e), e \notin saved,
             e.type = "ItemSaved", ~state.isDeleted
      PROVE  Shows(e)
  <2>0. Shape /\ SavesInv /\ UrlIndexExact
    BY <1>1 DEF ProjectionInv
  <2>1. state' = applyItemSaved(state, e)
    BY <1>1 DEF Apply, apply, reduce
  <2>2. CASE Touches(state, e.url)
    <3> DEFINE i == state.itemsByCanonicalUrl[e.url]
    <3>1. i \in DOMAIN state.items /\ state.items[i].deletedAt = None
          /\ state.items[i].url = e.url
          /\ {"url", "state", "savedAt", "deletedAt"} \subseteq DOMAIN state.items[i]
      BY <2>0, <2>2 DEF UrlIndexExact, Touches, IsLive, Shape
    <3>2. state' = [state EXCEPT !.items[i].savedAt = e.at, !.items[i].state = "inbox"]
      BY <2>1, <2>2 DEF applyItemSaved, Touch
    <3> HIDE DEF i
    <3>3. state'.items = [state.items EXCEPT ![i] =
                             [[@ EXCEPT !.savedAt = e.at] EXCEPT !.state = "inbox"]]
      BY <2>0, <3>1, <3>2 DEF Shape
    <3>4. /\ DOMAIN state'.items = DOMAIN state.items
          /\ state'.items[i] = [[state.items[i] EXCEPT !.savedAt = e.at]
                                    EXCEPT !.state = "inbox"]
      BY <3>1, <3>3
    <3>5. /\ state'.items[i].url = e.url /\ state'.items[i].deletedAt = None
          /\ state'.items[i].state = "inbox" /\ state'.items[i].savedAt = e.at
      BY <3>1, <3>4
    <3> QED
      BY <3>1, <3>4, <3>5 DEF IsLive
  <2>3. CASE ~Touches(state, e.url)
    <3>1. e.item \notin DOMAIN state.items
      <4> SUFFICES ASSUME e.item \in DOMAIN state.items PROVE FALSE
        OBVIOUS
      <4>1. PICK f \in saved : f.item = e.item
        BY <2>0 DEF SavesInv, WasSaved
      <4>2. f \in Events /\ f.type = "ItemSaved"
        BY <2>0 DEF SavesInv
      <4>3. f = e
        BY <1>1, <4>1, <4>2, EventsAssumption
      <4> QED
        BY <1>1, <4>3
    <3>2. state' = Create(state, e)
      BY <2>1, <2>3, <3>1 DEF applyItemSaved
    <3>3. state'.items = Put(state.items, e.item,
                              [url |-> e.url, title |-> e.title,
                               state |-> "inbox", liked |-> FALSE,
                               tags |-> {}, savedAt |-> e.at, deletedAt |-> None])
      BY <2>0, <3>2 DEF Create, Shape
    <3>4. /\ e.item \in DOMAIN state'.items
          /\ state'.items[e.item] = [url |-> e.url, title |-> e.title,
                               state |-> "inbox", liked |-> FALSE,
                               tags |-> {}, savedAt |-> e.at, deletedAt |-> None]
      BY <3>3 DEF Put
    <3> QED
      BY <3>4 DEF IsLive
  <2> QED
    BY <2>2, <2>3
<1>2. ProjectionInv /\ [Next]_vars => [Visible]_vars
  <2> SUFFICES ASSUME ProjectionInv, [Next]_vars, NEW e \in saved' \ saved,
                      ~state.isDeleted
               PROVE  Shows(e)
    OBVIOUS
  <2>1. CASE UNCHANGED vars
    BY <2>1 DEF vars
  <2>2. ASSUME NEW f \in Events, Apply(f) PROVE Shows(e)
    <3>1. e = f /\ f.type = "ItemSaved"
      BY <2>2 DEF Apply
    <3> QED
      BY <1>1, <2>2, <3>1
  <2> QED
    BY <2>1, <2>2 DEF Next
<1>3. Spec => [][Visible]_vars
  BY <1>2, InvHolds, PTL DEF Spec
<1> QED
  BY <1>3 DEF SaveIsVisible
=============================================================================
