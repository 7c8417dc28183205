\* One worker, one request at a time; i3 is another tenant's.
\* Clients stop making calls: the system may come to rest.
SPECIFICATION Spec
CONSTANTS
  i1 = i1
  i2 = i2
  i3 = i3
  acme = acme
  globex = globex
  sunset = sunset
  sunrise = sunrise
  text = text
  None = None
  Items = {i1, i2, i3}
  Tenants = {acme, globex}
  TenantOf <- MCTenantOf
  Images = {sunset, sunrise, text}
  Unembeddable = {}
  Distance <- MCDistance
  Threshold = 5
  Workers = {w1}
  Requests = {r1}
  MaxAttempts = 2
  MaxConfirms = 3
  MaxDeletes = 1
  MaxUploads = 3
  Faults = {}
INVARIANTS
  NoNearDuplicates
  DuplicateOfIndexed
  IndexedVectorIsCurrent
PROPERTIES
  NoReindex
CHECK_DEADLOCK FALSE
