-------------------------- MODULE MCVaultProjection --------------------------
(***************************************************************************)
(* Two saves of one URL and one of another, and what can happen to them.   *)
(***************************************************************************)
EXTENDS VaultProjection

CONSTANTS a, b, c, u, v

MCSaves == {ItemSaved(a, u, "first", 1), ItemSaved(b, u, "second", 2),
            ItemSaved(c, v, "third", 3)}

MCItemEvents ==
    MCSaves
    \cup {ItemEvent(t, i) : t \in {"ItemArchived", "ItemUnarchived", "ItemLiked", "ItemUnliked"},
                            i \in {a, b}}
    \cup {ItemDeleted(a, 4), ItemDeleted(b, 5), ItemTitleEdited(a, "edited")}
    \cup {TagEvent("ItemTagged", i, "t") : i \in {a, c}}
    \cup {TagEvent("ItemUntagged", i, "t") : i \in {a, c}}

MCVaultEvents ==
    {DeviceEvent("DeviceRegistered", "d", 1), DeviceEvent("DeviceRegistered", "d", 2),
     DeviceEvent("DeviceRevoked", "d", 3),
     VaultEvent("VaultDeletionScheduled", "d", 9), VaultEvent("VaultDeletionCancelled", "d", None),
     VaultEvent("VaultDeleted", "relay", 9)}

MCEvents == MCItemEvents \cup MCVaultEvents
=============================================================================
