---------------------------- MODULE MCAccountLimits ----------------------------
(* An instance of AccountLimits for TLC: two accounts, two identities.     *)
EXTENDS AccountLimits, TLC

CONSTANTS a1, a2, u1, u2, sa1, sa2, su1, su2

AllUsers == {a1, a2, u1, u2}
AllSessions == {sa1, sa2, su1, su2}
UserOf == [s \in AllSessions |->
  CASE s = sa1 -> a1 [] s = sa2 -> a2 [] s = su1 -> u1 [] OTHER -> u2]

\* Two users with their sessions change places.
Swap(u, v, su, sv) == [x \in {u, v, su, sv} |->
  CASE x = u -> v [] x = v -> u [] x = su -> sv [] OTHER -> su]

\* Bound: what follows when more than one session has ended is left out.
FewSignOuts == Cardinality(Sessions \ live) <= 1

Symmetry == Permutations(Backends) \cup Permutations(Installations)
              \cup Permutations(Tickets) \cup Permutations(Devices)
              \cup {Swap(u1, u2, su1, su2)}
=============================================================================
