SPECIFICATION FairEnrollmentSpec
CONSTANTS
  a1 = a1  u1 = u1
  sa1 = sa1  su1 = su1
  Installations = {i1}
  Legacy = {}
  Users <- PairUsers
  Accounts = {a1}
  Sessions <- PairSessions
  SessionUser <- PairSessionUser
  Claims = {c1}
  Tickets = {k1}
  Devices = {d1}
  Backends = {b1, b2}
  Adopters = {u1}
  Unsettled = {a1, u1}
  OwnedLimit = 1
  AttemptLimit = 1
  TicketLimit = 1
  DeviceLimit = 1
INVARIANT UploadStaysAuthorized
INVARIANT OnlyRestoreStrandsDevices
PROPERTY EnrollmentKeepsLedger
PROPERTY EnrollmentCallsReturn
