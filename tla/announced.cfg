\* No call of a worker fails and nothing is deleted.
\* Clients stop making calls: the system may come to rest.
SPECIFICATION Spec
CONSTANTS
  i1 = i1
  i2 = i2
  i3 = i3
  acme = acme
  globex = globex
  sunset = sunset
  sunrise = sunrise
  text = text
  None = None
  Items = {i1, i2}
  Tenants = {acme}
  TenantOf <- MCTenantOf
  Images = {sunset, text}
  Unembeddable = {}
  Distance <- MCDistance
  Threshold = 5
  Workers = {w1, w2}
  Requests = {r1}
  MaxAttempts = 2
  MaxConfirms = 3
  MaxDeletes = 0
  MaxUploads = 2
  Faults = {"request"}
SYMMETRY Symmetry
INVARIANTS
  IndexedIsAnnounced
  NotOwnDuplicate
CHECK_DEADLOCK FALSE
