--------------------------- MODULE MCVaultRelay ---------------------------
(***************************************************************************)
(* VaultRelay with two devices that minted one token each.                 *)
(***************************************************************************)
EXTENDS VaultRelay, TLC

CONSTANTS d1, d2, t1, t2

MCDevice == {d1, d2}
MCToken == {t1, t2}
MCOwner == (t1 :> d1) @@ (t2 :> d2)

\* Exchanging the two devices together with their tokens keeps Owner.
MCExchange == (d1 :> d2) @@ (d2 :> d1) @@ (t1 :> t2) @@ (t2 :> t1)
MCIdentity == [x \in MCDevice \cup MCToken |-> x]

MCSymmetry == {p @@ q @@ r : p \in Permutations(Slot), q \in Permutations(Nonce),
                           r \in {MCIdentity, MCExchange}}
=============================================================================
