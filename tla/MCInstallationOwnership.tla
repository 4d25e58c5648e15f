----------------------- MODULE MCInstallationOwnership -----------------------
(* Instances of InstallationOwnership for TLC. *)
EXTENDS InstallationOwnershipInv, TLC

CONSTANTS a1, a2, u1, u2, sa1, sa2, su1, su2

\* One account and one anonymous identity, one session each; a second session of
\* a user would only be another name for the same rights.
PairUsers == {a1, u1}
PairSessions == {sa1, su1}
PairSessionUser == [s \in PairSessions |-> IF s = sa1 THEN a1 ELSE u1]

Symmetry == Permutations(Backends) \cup Permutations(Installations)
              \cup Permutations(Claims)
=============================================================================
