-------------------------- MODULE MCDeviceLifecycle --------------------------
(* Instances of DeviceLifecycle for TLC.  Vaults and ids are interchangeable. *)
EXTENDS DeviceLifecycle, TLC

MCSymmetry == Permutations(Vault) \cup Permutations(Id)
=============================================================================
