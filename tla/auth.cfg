\* One administrator at a time; every call to Redis or the database may fail.
\* The clock is bounded: the system may come to rest.
SPECIFICATION MCSpec
CONSTANTS
  Keys = {k1, k2, k3}
  Admins = {a1}
  Clients = {c1}
  Lifetimes = {2}
  GracePeriod = 1
  TokenTtl = 1
  Slack = 3
  RequestTime = 1
  MaxChanges = 3
  MaxTime = 4
  Faults = {"redis", "db"}
  None = None
  Buckets = {b1}
  Hits = {h1, h2}
  Limit = 2
  Window = 2
  MaxDelay = 2
  RedisFails = TRUE
  Scripts = {s1, s2, s3}
  acme = acme
  acmeBlank = acmeBlank
  bolt = bolt
  blanks = blanks
  empty = empty
  Typed = {acme, acmeBlank, bolt, blanks}
  Strip <- Stripped
  Blank = empty
  MaxClock = 5
SYMMETRY Symmetry
INVARIANTS
  TypeOK
  RevokedTokensAreListed
  RevocationIsFinal
  TokensFollowTheirKey
  WindowBudget
  OneKeyPerName
CHECK_DEADLOCK FALSE
