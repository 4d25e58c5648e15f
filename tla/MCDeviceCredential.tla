------------------------- MODULE MCDeviceCredential -------------------------
(***************************************************************************)
(* DeviceCredential for TLC.                                               *)
(***************************************************************************)
EXTENDS DeviceCredentialInv, TLC

Symmetry == Permutations(Process) \cup Permutations(Ticket)
=============================================================================
