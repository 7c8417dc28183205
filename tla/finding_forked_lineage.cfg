\* Two rotations of one key have read it before either of them commits.
SPECIFICATION MCSpec
CONSTANTS
  Keys = {k1, k2, k3}
  Admins = {a1, a2}
  Clients = {}
  Lifetimes = {}
  GracePeriod = 2
  TokenTtl = 1
  Slack = 3
  RequestTime = 1
  MaxChanges = 2
  MaxTime = 3
  Faults = {}
  None = None
  Buckets = {}
  Hits = {}
  Limit = 1
  Window = 1
  MaxDelay = 0
  RedisFails = FALSE
  Scripts = {s1}
  acme = acme
  acmeBlank = acmeBlank
  bolt = bolt
  blanks = blanks
  empty = empty
  Typed = {acme, acmeBlank, bolt, blanks}
  Strip <- Stripped
  Blank = empty
  MaxClock = 0
INVARIANTS
  KeysRotateOnce
CHECK_DEADLOCK FALSE
