\* Fair workers and requests; calls may fail, processes do not die.
\* Clients stop making calls: the system may come to rest.
SPECIFICATION FairSpec
CONSTANTS
  i1 = i1
  i2 = i2
  i3 = i3
  acme = acme
  globex = globex
  sunset = sunset
  sunrise = sunrise
  text = text
  None = None
  Items = {i1, i2}
  Tenants = {acme}
  TenantOf <- MCTenantOf
  Images = {sunset}
  Unembeddable = {}
  Distance <- MCDistance
  Threshold = 5
  Workers = {w1, w2}
  Requests = {r1}
  MaxAttempts = 2
  MaxConfirms = 2
  MaxDeletes = 1
  MaxUploads = 2
  Faults = {"transient"}
INVARIANTS
  FailedIsDeadLettered
PROPERTIES
  ImplementsJobLedger
  QueuedJobIsDecided
CHECK_DEADLOCK FALSE
