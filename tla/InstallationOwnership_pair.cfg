SPECIFICATION Spec
CONSTANTS
  a1 = a1  a2 = a2  u1 = u1  u2 = u2
  sa1 = sa1  sa2 = sa2  su1 = su1  su2 = su2
  Installations = {i1, i2}
  Users <- PairUsers
  Accounts = {a1}
  Sessions <- PairSessions
  SessionUser <- PairSessionUser
  Claims = {c1, c2}
  Backends = {b1, b2}
  Adopters = {u1}
  Unsettled = {a1, u1}
  OwnedLimit = 1
  AttemptLimit = 1
SYMMETRY Symmetry
PROPERTY OwnershipMovesByProof
PROPERTY DataComesFromOwner
PROPERTY ImplementsLedger
