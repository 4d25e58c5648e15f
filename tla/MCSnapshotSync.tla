--------------------------- MODULE MCSnapshotSync ---------------------------
(***************************************************************************)
(* SnapshotSync and its inductive invariant for TLC.                       *)
(***************************************************************************)
EXTENDS SnapshotSyncInv, TLC

Symmetry == Permutations(Task) \cup Permutations(Account)
=============================================================================
