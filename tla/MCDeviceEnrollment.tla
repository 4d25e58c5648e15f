-------------------------- MODULE MCDeviceEnrollment --------------------------
(* Instances of DeviceEnrollment for TLC. *)
EXTENDS DeviceEnrollment

CONSTANTS a1, u1, sa1, su1

\* One account and one identity.
PairUsers == {a1, u1}
PairSessions == {sa1, su1}
PairSessionUser == [s \in PairSessions |-> IF s = sa1 THEN a1 ELSE u1]

=============================================================================
