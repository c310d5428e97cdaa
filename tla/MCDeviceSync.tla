---------------------------- MODULE MCDeviceSync ----------------------------
(***************************************************************************)
(* DeviceSync with interchangeable URLs and flush() calls.                 *)
(***************************************************************************)
EXTENDS DeviceSync, TLC

MCSymmetry == {p @@ q : p \in Permutations(Url), q \in Permutations(Flush)}
=============================================================================
