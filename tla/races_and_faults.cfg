\* Confirmations and a delete of one item race with each other and two workers, under
\* every fault; text is an image ai-service rejects.
\* Clients stop making calls: the system may come to rest.
SPECIFICATION Spec
CONSTANTS
  i1 = i1
  i2 = i2
  i3 = i3
  acme = acme
  globex = globex
  sunset = sunset
  sunrise = sunrise
  text = text
  None = None
  Items = {i1}
  Tenants = {acme}
  TenantOf <- MCTenantOf
  Images = {sunset, text}
  Unembeddable = {text}
  Distance <- MCDistance
  Threshold = 5
  Workers = {w1, w2}
  Requests = {r1, r2}
  MaxAttempts = 2
  MaxConfirms = 3
  MaxDeletes = 1
  MaxUploads = 2
  Faults = {"request", "transient", "db", "redis", "crash"}
SYMMETRY Symmetry
INVARIANTS
  TypeOK
  JobsNeverMultiply
  IndexedIsBacked
CHECK_DEADLOCK FALSE
