SPECIFICATION Spec
CONSTANTS
  t1 = t1
  t2 = t2
  other = other
  Threads = {t1, t2}
  Resolvers = {t1, t2, other}
  Versions = {"v1", "v2"}
INVARIANT TypeOK
INVARIANT CacheIsVerified
INVARIANT NoOrphan
INVARIANT QuietTeardown
PROPERTY CallsReturn
CHECK_DEADLOCK FALSE
