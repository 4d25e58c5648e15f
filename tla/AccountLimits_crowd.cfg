SPECIFICATION HistorySpec
CONSTANTS
  a1 = a1  a2 = a2  u1 = u1  u2 = u2
  sa1 = sa1  sa2 = sa2  su1 = su1  su2 = su2
  Installations = {i1, i2}
  Legacy = {}
  Users <- AllUsers
  Accounts = {a1, a2}
  Sessions <- AllSessions
  SessionUser <- UserOf
  Claims = {}
  Tickets = {k1, k2}
  Devices = {d1, d2}
  Backends = {b1, b2}
  Adopters = {a1}
  Unsettled = {}
  OwnedLimit = 1
  AttemptLimit = 1
  TicketLimit = 1
  DeviceLimit = 1
CONSTRAINT FewSignOuts
SYMMETRY Symmetry
INVARIANT OneLiveDevice
INVARIANT AccountLimitsHold
INVARIANT TicketMakesOneDevice
PROPERTY DevicesFallForAReason
CHECK_DEADLOCK FALSE
