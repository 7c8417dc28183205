\* The confirmation's commit overwrites the outcome of the job it pushed.
SPECIFICATION FairSpec
CONSTANTS
  i1 = i1
  i2 = i2
  i3 = i3
  acme = acme
  globex = globex
  sunset = sunset
  sunrise = sunrise
  text = text
  None = None
  Items = {i1}
  Tenants = {acme}
  TenantOf <- MCTenantOf
  Images = {sunset}
  Unembeddable = {}
  Distance <- MCDistance
  Threshold = 5
  Workers = {w1}
  Requests = {r1}
  MaxAttempts = 2
  MaxConfirms = 1
  MaxDeletes = 0
  MaxUploads = 1
  Faults = {}
PROPERTIES
  QueuedIsDecided
CHECK_DEADLOCK FALSE
