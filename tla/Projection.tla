----------------------------- MODULE Projection -----------------------------
(***************************************************************************)
(* The pure reducer apply(state, event) of packages/core/src/projection.   *)
(*                                                                         *)
(* A ReadonlyMap is a function on a finite set, an item's sorted tag list  *)
(* the set of its tags.  An item's raw url and createdAt, and a device's   *)
(* name and type, are write-once and left out; so is the signature of the  *)
(* vault events, which the reducer does not look at.                       *)
(*                                                                         *)
(* A definition Name_Variant just before Name is a mutated form of it, used *)
(* only by the mutant runs.                                                *)
(***************************************************************************)
EXTENDS Naturals

CONSTANT None  \* null

-----------------------------------------------------------------------------
(* Events: the fields the reducer reads *)

ItemSaved(item, url, title, at) ==
    [type |-> "ItemSaved", item |-> item, url |-> url, title |-> title, at |-> at]
ItemEvent(type, item) == [type |-> type, item |-> item]
ItemDeleted(item, at) == [type |-> "ItemDeleted", item |-> item, at |-> at]
TagEvent(type, item, tag) == [type |-> type, item |-> item, tag |-> tag]
ItemTitleEdited(item, title) ==
    [type |-> "ItemTitleEdited", item |-> item, title |-> title]
DeviceEvent(type, device, at) == [type |-> type, device |-> device, at |-> at]
VaultEvent(type, device, at) == [type |-> type, device |-> device, at |-> at]

EventType ==
    {"ItemSaved", "ItemArchived", "ItemUnarchived", "ItemLiked", "ItemUnliked",
     "ItemTagged", "ItemUntagged", "ItemTitleEdited", "ItemDeleted",
     "DeviceRegistered", "DeviceRevoked", "VaultDeletionScheduled",
     "VaultDeletionCancelled", "VaultDeleted"}

-----------------------------------------------------------------------------
(* State *)

initialVaultState ==
    [items |-> <<>>, itemsByCanonicalUrl |-> <<>>, tags |-> {},
     devices |-> <<>>, scheduledDeletion |-> None, isDeleted |-> FALSE]

\* new Map(m).set(k, v) and new Map(m).delete(k)
Put(m, k, v) == [x \in DOMAIN m \cup {k} |-> IF x = k THEN v ELSE m[x]]
Drop(m, k) == [x \in DOMAIN m \ {k} |-> m[x]]

IsLive(items, i) == i \in DOMAIN items /\ items[i].deletedAt = None

recomputeTags(items) ==
    UNION {items[i].tags : i \in {j \in DOMAIN items : items[j].deletedAt = None}}

-----------------------------------------------------------------------------
(* Item reducers *)

\* The item a save of this URL touches.
Touches(state, url) == /\ url \in DOMAIN state.itemsByCanonicalUrl
                       /\ IsLive(state.items, state.itemsByCanonicalUrl[url])

Touch_KeepState(state, i, at) == [state EXCEPT !.items[i].savedAt = at]
Touch(state, i, at) ==
    [state EXCEPT !.items[i].savedAt = at, !.items[i].state = "inbox"]

Create(state, e) ==
    [state EXCEPT
        !.items = Put(@, e.item, [url |-> e.url, title |-> e.title,
                                  state |-> "inbox", liked |-> FALSE,
                                  tags |-> {}, savedAt |-> e.at,
                                  deletedAt |-> None]),
        !.itemsByCanonicalUrl = Put(@, e.url, e.item)]

applyItemSaved(state, e) ==
    IF Touches(state, e.url)
    THEN Touch(state, state.itemsByCanonicalUrl[e.url], e.at)
    ELSE IF e.item \in DOMAIN state.items THEN state
    ELSE Create(state, e)

cloneItem(item, patch) ==
    [f \in DOMAIN item |-> IF f \in DOMAIN patch THEN patch[f] ELSE item[f]]

patchLiveItem(state, i, patch) ==
    IF IsLive(state.items, i)
    THEN [state EXCEPT !.items[i] = cloneItem(@, patch)]
    ELSE state

applyItemTagged(state, e) ==
    IF IsLive(state.items, e.item) /\ e.tag \notin state.items[e.item].tags
    THEN [state EXCEPT !.items[e.item].tags = @ \cup {e.tag},
                       !.tags = @ \cup {e.tag}]
    ELSE state

\* [state EXCEPT items = items, tags = recomputeTags(items)]
WithItems(state, items) ==
    [state EXCEPT !.items = items, !.tags = recomputeTags(items)]

applyItemUntagged_DropTag(state, e) ==
    IF IsLive(state.items, e.item) /\ e.tag \in state.items[e.item].tags
    THEN [state EXCEPT !.items[e.item].tags = @ \ {e.tag}, !.tags = @ \ {e.tag}]
    ELSE state
applyItemUntagged(state, e) ==
    IF IsLive(state.items, e.item) /\ e.tag \in state.items[e.item].tags
    THEN WithItems(state, [state.items EXCEPT ![e.item].tags = @ \ {e.tag}])
    ELSE state

applyItemDeleted_KeepUrl(state, e) ==
    IF IsLive(state.items, e.item)
    THEN WithItems(state, [state.items EXCEPT ![e.item].deletedAt = e.at])
    ELSE state
applyItemDeleted(state, e) ==
    IF IsLive(state.items, e.item)
    THEN [WithItems(state, [state.items EXCEPT ![e.item].deletedAt = e.at])
            EXCEPT !.itemsByCanonicalUrl = Drop(@, state.items[e.item].url)]
    ELSE state

-----------------------------------------------------------------------------
(* Device and vault reducers *)

applyDeviceRegistered(state, e) ==
    IF e.device \in DOMAIN state.devices THEN state
    ELSE [state EXCEPT !.devices = Put(@, e.device, e.at)]

applyDeviceRevoked(state, e) == [state EXCEPT !.devices = Drop(@, e.device)]

applyVaultDeletionScheduled(state, e) ==
    [state EXCEPT !.scheduledDeletion =
        [scheduledFor |-> e.at, scheduledBy |-> e.device]]

applyVaultDeletionCancelled(state) == [state EXCEPT !.scheduledDeletion = None]

applyVaultDeleted(state) == [state EXCEPT !.isDeleted = TRUE]

-----------------------------------------------------------------------------

reduce(state, e) ==
    LET t == e.type
    IN  CASE t = "ItemSaved"       -> applyItemSaved(state, e)
          [] t = "ItemArchived"    -> patchLiveItem(state, e.item, [state |-> "archive"])
          [] t = "ItemUnarchived"  -> patchLiveItem(state, e.item, [state |-> "inbox"])
          [] t = "ItemLiked"       -> patchLiveItem(state, e.item, [liked |-> TRUE])
          [] t = "ItemUnliked"     -> patchLiveItem(state, e.item, [liked |-> FALSE])
          [] t = "ItemTitleEdited" -> patchLiveItem(state, e.item, [title |-> e.title])
          [] t = "ItemTagged"      -> applyItemTagged(state, e)
          [] t = "ItemUntagged"    -> applyItemUntagged(state, e)
          [] t = "ItemDeleted"     -> applyItemDeleted(state, e)
          [] t = "DeviceRegistered" -> applyDeviceRegistered(state, e)
          [] t = "DeviceRevoked"    -> applyDeviceRevoked(state, e)
          [] t = "VaultDeletionScheduled" -> applyVaultDeletionScheduled(state, e)
          [] t = "VaultDeletionCancelled" -> applyVaultDeletionCancelled(state)
          [] t = "VaultDeleted"           -> applyVaultDeleted(state)

\* Once the vault is deleted, every subsequent event is a no-op.
apply(state, e) == IF state.isDeleted THEN state ELSE reduce(state, e)
=============================================================================
