------------------------ MODULE MCCompanionSession ------------------------
(***************************************************************************)
(* CompanionSession and its inductive invariant for TLC. Processes of one  *)
(* user are alike, and so are the accounts.                                *)
(***************************************************************************)
EXTENDS CompanionSessionInv, TLC

Symmetry == Permutations(Process) \cup Permutations(Account)
============================================================================
