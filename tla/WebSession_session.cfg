SPECIFICATION FairSpec
CONSTANTS
  u1 = u1
  u2 = u2
  Users = {u1, u2}
  s1 = s1
  s2 = s2
  s3 = s3
  Sessions = {s1, s2, s3}
  t1 = t1
  t2 = t2
  Tabs = {t1, t2}
  Plans <- MCPlans
  MaxPassword = 2
INVARIANT ResetEndsOldSessions
INVARIANT RevocationsAreReal
INVARIANT ActsForShownAccount
PROPERTY SignedInSurvives
PROPERTY PageLoadEnds
