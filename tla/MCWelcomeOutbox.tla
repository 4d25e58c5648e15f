--------------------------- MODULE MCWelcomeOutbox ---------------------------
(* Instances of WelcomeOutbox for TLC. *)
EXTENDS WelcomeOutboxInv, TLC

Symmetry == Permutations(Users) \cup Permutations(Workers)
=============================================================================
